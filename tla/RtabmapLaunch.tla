---------------------------- MODULE RtabmapLaunch ----------------------------
(* What rtabmap.launch.py and rtabmap_realsense.launch.py say: the arguments *)
(* in the order they are declared, their defaults, and for every node the    *)
(* condition under which it is started and the topics it is remapped to.     *)
(* Only the arguments that decide what is started and what it is connected   *)
(* to are kept, the transports of the images among them; the arguments for   *)
(* tuning, quality of service, queues and logging are left out.              *)
(*                                                                           *)
(* A topic is a sequence of names, absolute when it begins with "/".  The    *)
(* transform from a frame to a child frame is written as a topic as well.    *)
EXTENDS Naturals, Sequences

Absolute(t) == t[1] = "/"
Topic(ns, t) == IF Absolute(t) THEN t ELSE <<"/">> \o ns \o t
Topics(ns, s) == {Topic(ns, t) : t \in s}
Tf(parent, child) == <<"/", "tf">> \o parent \o child
Relay(t) == Append(t, "_relay")

(* A PythonExpression compares the text with 'true'.  ConditionalText,       *)
(* IfCondition and a node's boolean parameter take 'True' as well.           *)
IsTrue(v) == v = "true"
TakenAsTrue(v) == v \in {"true", "True"}
ConditionalText(a, b, v) == IF TakenAsTrue(v) THEN a ELSE b

(* Mutant: subscribe_rgbd declared before the argument it follows.           *)
DeclaredArgumentsEarly ==
  <<"stereo", "rtabmap_viz", "rviz", "frame_id", "map_frame_id", "map_topic",
    "namespace", "rgb_topic", "depth_topic", "camera_info_topic",
    "stereo_namespace", "left_image_topic", "right_image_topic",
    "left_camera_info_topic", "right_camera_info_topic", "subscribe_rgbd",
    "rgbd_sync", "rgbd_topic", "compressed", "scan_topic", "scan_cloud_topic",
    "visual_odometry", "icp_odometry", "odom_topic", "vo_frame_id", "imu_topic",
    "wait_imu_to_init">>

DeclaredArguments ==
  <<"stereo", "rtabmap_viz", "rviz", "frame_id", "map_frame_id", "map_topic",
    "namespace", "rgb_topic", "depth_topic", "camera_info_topic",
    "stereo_namespace", "left_image_topic", "right_image_topic",
    "left_camera_info_topic", "right_camera_info_topic", "rgbd_sync",
    "subscribe_rgbd", "rgbd_topic", "compressed", "scan_topic", "scan_cloud_topic",
    "visual_odometry", "icp_odometry", "odom_topic", "vo_frame_id", "imu_topic",
    "wait_imu_to_init">>

LiteralDefault ==
  [stereo |-> "false", rtabmap_viz |-> "true", rviz |-> "false",
   frame_id |-> <<"base_link">>, map_frame_id |-> <<"map">>, map_topic |-> <<"map">>,
   namespace |-> <<"rtabmap">>,
   rgb_topic |-> <<"/", "camera", "rgb">>, depth_topic |-> <<"/", "camera", "depth">>,
   camera_info_topic |-> <<"/", "camera", "rgb_info">>,
   stereo_namespace |-> <<"/", "stereo_camera">>, rgbd_sync |-> "false",
   rgbd_topic |-> <<"rgbd_image">>, compressed |-> "false",
   scan_topic |-> <<"/", "scan">>, scan_cloud_topic |-> <<"/", "scan_cloud">>,
   visual_odometry |-> "true", icp_odometry |-> "false", odom_topic |-> <<"odom">>,
   imu_topic |-> <<"/", "imu", "data">>, wait_imu_to_init |-> "false"]

(* launch_setup declares these when it runs; "depth" is the negation of      *)
(* "stereo", the relay topics are the topics the republishing nodes fill.    *)
SetupArguments ==
  <<"depth", "rgb_topic_relay", "depth_topic_relay", "left_image_topic_relay",
    "right_image_topic_relay", "rgbd_topic_relay">>

(* The arguments a default is made of. *)
Refers ==
  [subscribe_rgbd |-> {"rgbd_sync"}, vo_frame_id |-> {"odom_topic"},
   left_image_topic |-> {"stereo_namespace"}, right_image_topic |-> {"stereo_namespace"},
   left_camera_info_topic |-> {"stereo_namespace"},
   right_camera_info_topic |-> {"stereo_namespace"},
   depth |-> {"stereo"},
   rgb_topic_relay |-> {"rgb_topic", "compressed"},
   depth_topic_relay |-> {"depth_topic", "compressed"},
   left_image_topic_relay |-> {"left_image_topic", "compressed"},
   right_image_topic_relay |-> {"right_image_topic", "compressed"},
   rgbd_topic_relay |-> {"rgbd_topic", "rgbd_sync"}]

Derived(n, c) ==
  LET image(t) == ConditionalText(Relay(c[t]), c[t], c.compressed) IN
  CASE n = "subscribe_rgbd" -> c.rgbd_sync
    [] n = "vo_frame_id" -> c.odom_topic
    [] n = "left_image_topic" -> c.stereo_namespace \o <<"left", "image">>
    [] n = "right_image_topic" -> c.stereo_namespace \o <<"right", "image">>
    [] n = "left_camera_info_topic" -> c.stereo_namespace \o <<"left", "info">>
    [] n = "right_camera_info_topic" -> c.stereo_namespace \o <<"right", "info">>
    [] n = "depth" -> IF IsTrue(c.stereo) THEN "false" ELSE "true"
    [] n = "rgb_topic_relay" -> image("rgb_topic")
    [] n = "depth_topic_relay" -> image("depth_topic")
    [] n = "left_image_topic_relay" -> image("left_image_topic")
    [] n = "right_image_topic_relay" -> image("right_image_topic")
    [] n = "rgbd_topic_relay" -> ConditionalText(c.rgbd_topic, Relay(c.rgbd_topic), c.rgbd_sync)

RtabmapNodes ==
  <<"republish_rgb", "republish_depth", "rgbd_sync", "republish_left", "republish_right",
    "stereo_sync", "rgbd_relay", "rgbd_relay_uncompress", "rgbd_odometry",
    "stereo_odometry", "icp_odometry", "rtabmap", "rtabmap_viz", "point_cloud_xyzrgb">>

(* Mutant: images that are to be synchronised here are not republished.      *)
RepublishedUnsynchronised(c) ==
  /\ ~IsTrue(c.subscribe_rgbd)
  /\ IsTrue(c.compressed)

(* The images have to be republished raw: they come compressed, and what     *)
(* consumes them is the synchronisation or the nodes themselves.             *)
Republished(c) ==
  /\ ~IsTrue(c.subscribe_rgbd) \/ IsTrue(c.rgbd_sync)
  /\ IsTrue(c.compressed)

Synchronised(c) == ~IsTrue(c.rgbd_sync) /\ IsTrue(c.subscribe_rgbd)

(* Mutant: the visual odometry does not give way to the other one.           *)
VisualOdometryAlways(c) == IsTrue(c.visual_odometry)

VisualOdometry(c) == ~IsTrue(c.icp_odometry) /\ IsTrue(c.visual_odometry)

Condition(n, c) ==
  CASE n \in {"republish_rgb", "republish_depth"} -> ~IsTrue(c.stereo) /\ Republished(c)
    [] n \in {"republish_left", "republish_right"} -> IsTrue(c.stereo) /\ Republished(c)
    [] n = "rgbd_sync" -> ~IsTrue(c.stereo) /\ IsTrue(c.rgbd_sync)
    [] n = "stereo_sync" -> IsTrue(c.stereo) /\ IsTrue(c.rgbd_sync)
    [] n = "rgbd_relay" -> Synchronised(c) /\ ~IsTrue(c.compressed)
    [] n = "rgbd_relay_uncompress" -> Synchronised(c) /\ IsTrue(c.compressed)
    [] n = "rgbd_odometry" -> VisualOdometry(c) /\ ~IsTrue(c.stereo)
    [] n = "stereo_odometry" -> VisualOdometry(c) /\ IsTrue(c.stereo)
    [] n = "icp_odometry" -> TakenAsTrue(c.icp_odometry)
    [] n = "rtabmap" -> TRUE
    [] n = "rtabmap_viz" -> TakenAsTrue(c.rtabmap_viz)
    [] n = "point_cloud_xyzrgb" -> TakenAsTrue(c.rviz)

Images(c) == {c.rgb_topic_relay, c.depth_topic_relay, c.camera_info_topic}
StereoImages(c) ==
  {c.left_image_topic_relay, c.right_image_topic_relay,
   c.left_camera_info_topic, c.right_camera_info_topic}

(* What a node that takes either form subscribes to: the synchronised image  *)
(* wins over the stereo images, these over colour and depth.                 *)
Camera(c) ==
  IF TakenAsTrue(c.subscribe_rgbd) THEN {c.rgbd_topic_relay}
  ELSE IF TakenAsTrue(c.stereo) THEN StereoImages(c) ELSE Images(c)

(* The transports of an image: a node that takes one listens to the topic    *)
(* of that name under the image's own, and the default of the arguments      *)
(* rgb_image_transport and depth_image_transport is what rgbd_sync is given. *)
Encoded(t) == Append(t, "compressed")
EncodedDepth(t) == Append(t, "compressedDepth")

(* An odometry node needs the place of the camera in its frame, and the      *)
(* inertial unit before it starts when it is told to wait for it.            *)
Pose(c) ==
  {Tf(c.frame_id, <<"camera_link">>)}
    \cup (IF TakenAsTrue(c.wait_imu_to_init) THEN {c.imu_topic} ELSE {})
Odometry(c) == {c.odom_topic, <<"odom_info">>, Tf(c.vo_frame_id, c.frame_id)}
OdomInfo(c) ==
  IF IsTrue(c.icp_odometry) \/ IsTrue(c.visual_odometry) THEN {<<"odom_info">>} ELSE {}

(* The alternative sets of topics a node works from, and what it publishes.  *)
Inputs(n, c) ==
  CASE n = "republish_rgb" -> {{Encoded(c.rgb_topic)}}
    [] n = "republish_depth" -> {{EncodedDepth(c.depth_topic)}}
    [] n = "republish_left" -> {{Encoded(c.left_image_topic)}}
    [] n = "republish_right" -> {{Encoded(c.right_image_topic)}}
    [] n = "rgbd_sync" ->
         {{Encoded(c.rgb_topic_relay), EncodedDepth(c.depth_topic_relay), c.camera_info_topic}}
    [] n = "stereo_sync" -> {StereoImages(c)}
    [] n = "rgbd_relay" -> {{c.rgbd_topic}}
    [] n = "rgbd_relay_uncompress" -> {{Encoded(c.rgbd_topic)}}
    [] n = "rgbd_odometry" ->
         {(IF TakenAsTrue(c.subscribe_rgbd) THEN {c.rgbd_topic_relay} ELSE Images(c)) \cup Pose(c)}
    [] n = "stereo_odometry" ->
         {(IF TakenAsTrue(c.subscribe_rgbd) THEN {c.rgbd_topic_relay} ELSE StereoImages(c)) \cup Pose(c)}
    [] n = "icp_odometry" -> {s \cup Pose(c) : s \in {{c.scan_topic}, {c.scan_cloud_topic}}}
    [] n \in {"rtabmap", "rtabmap_viz"} -> {Camera(c) \cup {c.odom_topic} \cup OdomInfo(c)}
    [] n = "point_cloud_xyzrgb" -> {Images(c), StereoImages(c), {c.rgbd_topic_relay}}

Outputs(n, c) ==
  CASE n = "republish_rgb" -> {c.rgb_topic_relay}
    [] n = "republish_depth" -> {c.depth_topic_relay}
    [] n = "republish_left" -> {c.left_image_topic_relay}
    [] n = "republish_right" -> {c.right_image_topic_relay}
    [] n \in {"rgbd_sync", "stereo_sync", "rgbd_relay", "rgbd_relay_uncompress"} ->
         {c.rgbd_topic_relay}
    [] n \in {"rgbd_odometry", "stereo_odometry", "icp_odometry"} -> Odometry(c)
    [] n = "rtabmap" -> {c.map_topic, <<"local_grid_obstacle">>, Tf(c.map_frame_id, <<"odom">>)}
    [] n = "rtabmap_viz" -> {}
    [] n = "point_cloud_xyzrgb" -> {<<"voxel_cloud">>}

(* Every node but the point cloud is put into the namespace.                 *)
NodeNamespace(n, c) == IF n = "point_cloud_xyzrgb" THEN <<>> ELSE c.namespace

(* The include of rtabmap.launch.py by rtabmap_realsense.launch.py.  The     *)
(* arguments it passes that the file does not declare, subscribe_depth and   *)
(* subscribe_odom_info, are read by nothing.                                 *)
RealsenseArguments ==
  <<[name |-> "compressed", value |-> "false"],
    [name |-> "rgbd_sync", value |-> "true"],
    [name |-> "rgb_topic", value |-> <<"/", "camera", "color">>],
    [name |-> "depth_topic", value |-> <<"/", "camera", "aligned_depth">>],
    [name |-> "camera_info_topic", value |-> <<"/", "camera", "color_info">>],
    [name |-> "imu_topic", value |-> <<"/", "imu", "data">>],
    [name |-> "frame_id", value |-> <<"truck_origin">>],
    [name |-> "wait_imu_to_init", value |-> "true"],
    [name |-> "rviz", value |-> "false"]>>

(* Mutant: the navigation is included after the mapping.                     *)
IncludedFilesMappingFirst == <<"rtabmap", "nav2", "nav2_rviz">>

IncludedFiles == <<"nav2", "rtabmap", "nav2_rviz">>
==============================================================================
