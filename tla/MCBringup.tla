------------------------------ MODULE MCBringup ------------------------------
EXTENDS Bringup, TLC

(* rtabmap.launch.py on its own: its switches left alone or turned, one      *)
(* of them written 'True', subscribe_rgbd given or left to follow rgbd_sync. *)
Free == {"stereo", "rviz", "rgbd_sync", "compressed", "visual_odometry", "icp_odometry"}
Turned(n) == IF n = "visual_odometry" THEN "false" ELSE "true"
Written == UNION {{[n \in s |-> Turned(n)]} : s \in SUBSET Free} \cup {n :> "True" : n \in Free}
Given == Written \cup {w @@ [subscribe_rgbd |-> v] : w \in Written, v \in {"true", "false"}}

(* What the camera, the scanner and, without a node for it, the wheels       *)
(* publish for such a command line.                                          *)
On(g, n) == TakenAsTrue(IF n \in DOMAIN g THEN g[n] ELSE LiteralDefault[n])
Raw(g, t) == IF On(g, "compressed") THEN Encoded(t) ELSE t

(* An image with its transport, or, when the images come compressed, the     *)
(* transport alone.                                                          *)
Image(g, t, encoded) == {encoded} \cup (IF On(g, "compressed") THEN {} ELSE {t})
Outside(g) ==
  LET stereo(side, what) == <<"/", "stereo_camera", side, what>>
      synchronised == "subscribe_rgbd" \in DOMAIN g /\ g.subscribe_rgbd = "true"
                        /\ ~On(g, "rgbd_sync") IN
  (IF synchronised THEN {Raw(g, <<"/", "rtabmap", "rgbd_image">>)}
   ELSE IF On(g, "stereo")
   THEN Image(g, stereo("left", "image"), Encoded(stereo("left", "image")))
          \cup Image(g, stereo("right", "image"), Encoded(stereo("right", "image")))
          \cup {stereo("left", "info"), stereo("right", "info")}
   ELSE Image(g, LiteralDefault.rgb_topic, Encoded(LiteralDefault.rgb_topic))
          \cup Image(g, LiteralDefault.depth_topic, EncodedDepth(LiteralDefault.depth_topic))
          \cup {LiteralDefault.camera_info_topic})
    \cup {Tf(<<"base_link">>, <<"camera_link">>), <<"/", "scan">>}
    \cup (IF On(g, "visual_odometry") \/ On(g, "icp_odometry") THEN {}
          ELSE {<<"/", "rtabmap", "odom">>})

Empty == <<>>
Alone == {[given |-> [rtabmap |-> g], outside |-> Outside(g)] : g \in Given}
Viewed == {[given |-> [view |-> g], outside |-> {}] : g \in {Empty, [gui |-> "true"], [gui |-> "false"]}}
Whole ==
  {[given |-> [truck |-> t, camera |-> c, realsense |-> Empty], outside |-> {}] :
     t \in {Empty, [remap_odometry_tf |-> "true"]}, c \in {Empty, [unite_imu_method |-> "0"]}}
AllSetups == Alone \cup Viewed \cup Whole
==============================================================================
