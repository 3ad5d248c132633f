-------------------------------- MODULE Bringup --------------------------------
(* Bringing the vehicle and the navigation up with ros2 launch: each launch  *)
(* process visits the entities of its file one after the other (declares     *)
(* arguments, includes files, starts nodes, registers handlers), its nodes   *)
(* then run, publish once they are fed, and the spawners end.                *)
(*                                                                           *)
(* As ros2 launch does it: the arguments of all included files share one     *)
(* table, a declaration only sets what is not in the table yet, an include   *)
(* sets what it passes, and an argument that is read while it is not in the  *)
(* table ends the launch.  A launch visits its files without interruption,   *)
(* so no process of its own runs before it has visited all of them.          *)
EXTENDS RtabmapLaunch, FiniteSets, SequencesExt

CONSTANTS
  Setups,    \* set of [given: launch -> arguments of its command line, outside: topics]
  MaxFails   \* bound on the spawners that fail in a behaviour

VARIABLES
  setup,        \* what was started, with which arguments
  conf,         \* launch -> the table of its arguments
  todo,         \* launch -> the entities still to be visited
  nodes,        \* launch -> the nodes it has started
  handlers,     \* launch -> pairs of a process and the node started when it exits
  exited,       \* processes that have ended
  controllers,  \* controllers the controller manager has activated
  flows,        \* topics on which data arrives
  failed        \* launches that ended with an error

(* The files ros2 launch is started with, the arguments that are switches,   *)
(* and what is written for one.                                              *)
LaunchFiles == {"rtabmap", "realsense", "truck", "view", "camera"}

Switches ==
  {"stereo", "rviz", "rtabmap_viz", "rgbd_sync", "subscribe_rgbd", "compressed", "visual_odometry", "icp_odometry",
   "wait_imu_to_init", "remap_odometry_tf", "depth", "gui"}

SwitchValues == {"true", "True", "false"}

ASSUME SetupsAssumption ==
  \A s \in Setups :
    /\ DOMAIN s.given \subseteq LaunchFiles
    /\ \A l \in DOMAIN s.given : \A n \in DOMAIN s.given[l] \cap Switches :
         s.given[l][n] \in SwitchValues

vars == <<setup, conf, todo, nodes, handlers, exited, controllers, flows, failed>>

Launches == DOMAIN setup.given

Declare(n) == [do |-> "declare", name |-> n]
Include(n) == [do |-> "include", name |-> n]
Start(n) == [do |-> "start", name |-> n]
Put(a) == [do |-> "set", name |-> a.name, value |-> a.value]
OnProcessExit(p, n) == [do |-> "register", name |-> p, then |-> n]
Each(Op(_), seq) == [i \in DOMAIN seq |-> Op(seq[i])]

TruckArguments ==
  <<"prefix", "use_mock_hardware", "mock_sensor_commands", "slowdown", "remap_odometry_tf">>
ViewArguments == <<"description_package", "description_file", "prefix">>
TruckDefault ==
  [prefix |-> "", use_mock_hardware |-> "false", mock_sensor_commands |-> "false",
   slowdown |-> "50.0", remap_odometry_tf |-> "false",
   description_package |-> "truck_control", description_file |-> "truck.urdf.xacro"]

TruckFile ==
  Each(Declare, TruckArguments) \o
  <<Start("control_node"), Start("robot_state_publisher"),
    Start("robot_controller_spawner"), Start("gpio_controller_spawner"),
    OnProcessExit("robot_controller_spawner", "joint_state_broadcaster_spawner"),
    Start("velocity_controller_spawner")>>

ViewFile ==
  Each(Declare, ViewArguments) \o
  <<Start("joint_state_publisher_gui"), Start("view_state_publisher")>>

CameraFile == <<Declare("unite_imu_method"), Include("rs_launch"), Start("imu_filter")>>

RealsenseFile == <<Declare("unite_imu_method")>> \o Each(Include, IncludedFiles)

(* Files of other packages, as far as they are connected with these.         *)
Entities(f) ==
  CASE f = "rtabmap" ->
         Each(Declare, DeclaredArguments) \o Each(Declare, SetupArguments) \o Each(Start, RtabmapNodes)
    [] f = "realsense" -> RealsenseFile
    [] f = "truck" -> TruckFile
    [] f = "view" -> ViewFile
    [] f = "camera" -> CameraFile
    [] f = "nav2" -> <<Declare("nav2_namespace"), Start("nav2")>>
    [] f = "nav2_rviz" -> <<Start("nav2_rviz")>>
    [] f = "rs_launch" -> <<Start("realsense2_camera")>>

Passed(f) == IF f = "rtabmap" THEN Each(Put, RealsenseArguments) ELSE <<>>

(* The argument a declaration sets: nav2's file declares "namespace" too.    *)
Argument(n) == IF n = "nav2_namespace" THEN "namespace" ELSE n

Default(n, c) ==
  CASE n = "nav2_namespace" -> <<>>
    [] n = "unite_imu_method" -> "2"
    [] n \in DOMAIN TruckDefault -> TruckDefault[n]
    [] n \in DOMAIN LiteralDefault -> LiteralDefault[n]
    [] n \in DOMAIN Refers -> Derived(n, c)

(* The arguments an entity reads.                                            *)
NodeReads(n) ==
  CASE n \in Range(RtabmapNodes) -> Range(DeclaredArguments) \cup Range(SetupArguments)
    [] n = "robot_state_publisher" -> Range(TruckArguments) \ {"remap_odometry_tf"}
    [] n = "robot_controller_spawner" -> {"remap_odometry_tf"}
    [] n = "joint_state_publisher_gui" -> {"gui"}
    [] n = "view_state_publisher" -> Range(ViewArguments)
    [] n = "realsense2_camera" -> {"unite_imu_method"}
    [] n = "nav2" -> {"namespace"}
    [] OTHER -> {}

Reads(e) ==
  CASE e.do = "declare" /\ e.name \in DOMAIN Refers -> Refers[e.name]
    [] e.do = "start" -> NodeReads(e.name)
    [] OTHER -> {}

Spawned ==
  [robot_controller_spawner |-> "bicycle_steering_controller",
   gpio_controller_spawner |-> "gpio_controller",
   velocity_controller_spawner |-> "velocity_controller",
   joint_state_broadcaster_spawner |-> "joint_state_broadcaster"]

Started(n, c) ==
  CASE n \in Range(RtabmapNodes) -> Condition(n, c)
    [] n = "robot_controller_spawner" -> ~TakenAsTrue(c.remap_odometry_tf)
    [] n = "joint_state_publisher_gui" -> TakenAsTrue(c.gui)
    [] OTHER -> TRUE

ControllerManager == <<"/", "controller_manager">>
CmdVel == <<"/", "cmd_vel">>
RobotDescription == <<"/", "robot_description">>
ImuRaw == <<"/", "camera", "imu">>

(* The camera publishes its images plain and in their transports.            *)
CameraImages ==
  {<<"/", "camera", "color">>, <<"/", "camera", "color", "compressed">>,
   <<"/", "camera", "aligned_depth">>, <<"/", "camera", "aligned_depth", "compressedDepth">>,
   <<"/", "camera", "color_info">>}

NodeInputs(n, c) ==
  CASE n = "control_node" -> {{RobotDescription}}
    [] n \in DOMAIN Spawned -> {{ControllerManager}}
    [] n = "imu_filter" -> {{ImuRaw}}
    [] n = "nav2" ->
         {{Topic(c.namespace, <<"map">>), <<"/", "odom">>, <<"/", "local_grid_obstacle">>,
           Tf(<<"map">>, <<"odom">>), Tf(<<"odom">>, <<"truck_origin">>)}}
    [] n = "nav2_rviz" -> {{<<"/", "map">>}}
    [] OTHER -> {{}}

NodeOutputs(n, c) ==
  CASE n = "control_node" -> {ControllerManager}
    [] n \in {"robot_state_publisher", "view_state_publisher"} ->
         {RobotDescription, Tf(<<"truck_origin">>, <<"camera_link">>)}
    [] n = "realsense2_camera" ->
         CameraImages \cup (IF c.unite_imu_method = "0" THEN {} ELSE {ImuRaw})
    [] n = "imu_filter" -> {<<"/", "imu", "data">>}
    [] n = "nav2" -> {Topic(c.namespace, <<"cmd_vel">>)}
    [] OTHER -> {}

Node(n, c) ==
  IF n \in Range(RtabmapNodes)
  THEN [name |-> n, in |-> {Topics(NodeNamespace(n, c), s) : s \in Inputs(n, c)},
        out |-> Topics(NodeNamespace(n, c), Outputs(n, c))]
  ELSE [name |-> n, in |-> NodeInputs(n, c), out |-> NodeOutputs(n, c)]

------------------------------------------------------------------------------
Init ==
  /\ setup \in Setups
  /\ conf = setup.given
  /\ todo = [l \in Launches |-> Entities(l)]
  /\ nodes = [l \in Launches |-> {}]
  /\ handlers = [l \in Launches |-> {}]
  /\ exited = {}
  /\ controllers = {}
  /\ flows = setup.outside
  /\ failed = {}

(* A declaration leaves the value an argument has, a pass replaces it.       *)
Defaulted(c, n, v) == [a \in DOMAIN c \cup {n} |-> IF a \in DOMAIN c THEN c[a] ELSE v]
Assigned(c, n, v) == [a \in DOMAIN c \cup {n} |-> IF a = n THEN v ELSE c[a]]

(* The next entity of a launch, when what it reads is there.                 *)
Next1(l, what) ==
  /\ todo[l] # <<>>
  /\ Head(todo[l]).do = what
  /\ Reads(Head(todo[l])) \subseteq DOMAIN conf[l]

Visited(l) == todo' = [todo EXCEPT ![l] = Tail(@)]

DeclareArgument(l) ==
  /\ Next1(l, "declare")
  /\ LET n == Head(todo[l]).name IN
       conf' = [conf EXCEPT ![l] = Defaulted(@, Argument(n), Default(n, conf[l]))]
  /\ Visited(l)
  /\ UNCHANGED <<setup, nodes, handlers, exited, controllers, flows, failed>>

SetArgument(l) ==
  /\ Next1(l, "set")
  /\ LET e == Head(todo[l]) IN conf' = [conf EXCEPT ![l] = Assigned(@, e.name, e.value)]
  /\ Visited(l)
  /\ UNCHANGED <<setup, nodes, handlers, exited, controllers, flows, failed>>

IncludeFile(l) ==
  /\ Next1(l, "include")
  /\ LET f == Head(todo[l]).name IN
       todo' = [todo EXCEPT ![l] = Passed(f) \o Entities(f) \o Tail(@)]
  /\ UNCHANGED <<setup, conf, nodes, handlers, exited, controllers, flows, failed>>

StartNode(l) ==
  /\ Next1(l, "start")
  /\ LET n == Head(todo[l]).name IN
       nodes' = [nodes EXCEPT ![l] = IF Started(n, conf[l]) THEN @ \cup {Node(n, conf[l])} ELSE @]
  /\ Visited(l)
  /\ UNCHANGED <<setup, conf, handlers, exited, controllers, flows, failed>>

RegisterHandler(l) ==
  /\ Next1(l, "register")
  /\ LET e == Head(todo[l]) IN
       handlers' = [handlers EXCEPT ![l] = @ \cup {<<e.name, e.then>>}]
  /\ Visited(l)
  /\ UNCHANGED <<setup, conf, nodes, exited, controllers, flows, failed>>

(* Mutant: the launch goes on with the next entity.                          *)
EndWithErrorSkipped(l) ==
  /\ todo[l] # <<>>
  /\ ~(Reads(Head(todo[l])) \subseteq DOMAIN conf[l])
  /\ Visited(l)
  /\ failed' = failed \cup {l}
  /\ UNCHANGED <<setup, conf, nodes, handlers, exited, controllers, flows>>

(* The entity reads an argument that is not set: the launch ends, and none   *)
(* of its nodes runs.                                                        *)
EndWithError(l) ==
  /\ todo[l] # <<>>
  /\ ~(Reads(Head(todo[l])) \subseteq DOMAIN conf[l])
  /\ todo' = [todo EXCEPT ![l] = <<>>]
  /\ nodes' = [nodes EXCEPT ![l] = {}]
  /\ handlers' = [handlers EXCEPT ![l] = {}]
  /\ failed' = failed \cup {l}
  /\ UNCHANGED <<setup, conf, exited, controllers, flows>>

Visit(l) ==
  \/ DeclareArgument(l) \/ SetArgument(l) \/ IncludeFile(l)
  \/ StartNode(l) \/ RegisterHandler(l) \/ EndWithError(l)

Fed(n) == \E s \in n.in : s \subseteq flows

(* A running node is fed and publishes.                                      *)
Publish(l) ==
  /\ todo[l] = <<>>
  /\ \E n \in nodes[l] :
       /\ Fed(n)
       /\ ~(n.out \subseteq flows)
       /\ flows' = flows \cup n.out
  /\ UNCHANGED <<setup, conf, todo, nodes, handlers, exited, controllers, failed>>

(* What the launch starts when a process has ended.                          *)
OnExit(l, p) ==
  todo' = [todo EXCEPT ![l] = SetToSeq({Start(h[2]) : h \in {g \in handlers[l] : g[1] = p}})]

(* A spawner has its controller activated and ends.                          *)
SpawnerEnds(l) ==
  /\ todo[l] = <<>>
  /\ \E n \in nodes[l] :
       /\ n.name \in DOMAIN Spawned \ exited
       /\ Fed(n)
       /\ controllers' = controllers \cup {Spawned[n.name]}
       /\ exited' = exited \cup {n.name}
       /\ OnExit(l, n.name)
  /\ UNCHANGED <<setup, conf, nodes, handlers, flows, failed>>

(* A spawner gives up: its handlers run all the same.                        *)
SpawnerFails(l) ==
  /\ todo[l] = <<>>
  /\ \E n \in nodes[l] :
       /\ n.name \in DOMAIN Spawned \ exited
       /\ Cardinality(exited) < MaxFails + Cardinality(controllers)
       /\ exited' = exited \cup {n.name}
       /\ OnExit(l, n.name)
  /\ UNCHANGED <<setup, conf, nodes, handlers, controllers, flows, failed>>

Next == \E l \in Launches : Visit(l) \/ Publish(l) \/ SpawnerEnds(l) \/ SpawnerFails(l)

(* ros2 launch visits what it is given, and processes that can go on do.     *)
Fairness ==
  \A l \in LaunchFiles :
    /\ WF_vars(l \in Launches /\ Visit(l))
    /\ WF_vars(l \in Launches /\ Publish(l))
    /\ WF_vars(l \in Launches /\ SpawnerEnds(l))

Spec == Init /\ [][Next]_vars /\ Fairness

------------------------------------------------------------------------------
TypeOK ==
  /\ \A l \in Launches : \A n \in DOMAIN conf[l] \cap Switches : conf[l][n] \in SwitchValues
  /\ failed \subseteq Launches
  /\ exited \subseteq DOMAIN Spawned
  /\ controllers \subseteq {Spawned[p] : p \in exited}
  /\ \A l \in failed : todo[l] = <<>> /\ nodes[l] = {}

(* Nobody writes 'True', which the files read as true in some places only.   *)
PlainlyWritten ==
  \A l \in Launches : \A n \in DOMAIN setup.given[l] \cap Switches : setup.given[l][n] # "True"

(* A topic has one publisher: never two odometries, two relays or two        *)
(* synchronisers on the same topic, or two nodes of these launches that      *)
(* place the same frame (the conditions at rtabmap.launch.py:72-157, 170,    *)
(* 207, 245).  The transform that the drive controller itself may publish    *)
(* for its odometry is not among the topics.                                 *)
OnePublisher ==
  PlainlyWritten =>
    \A l, k \in Launches : \A n \in nodes[l], m \in nodes[k] :
      n.out \cap m.out # {} => l = k /\ n.name = m.name

(* No launch ends because one of the arguments kept here is read before it   *)
(* is declared: the defaults of rtabmap.launch.py refer to arguments         *)
(* declared before them, and launch_setup comes last (413-519).  The         *)
(* exception is the argument "gui" of view_robot.launch.py:55, which no      *)
(* declaration sets.                                                         *)
OnlyGuiIsMissing ==
  \A l \in failed : l = "view" /\ "gui" \notin DOMAIN setup.given[l]

(* The point cloud of rviz is outside the namespace, and with images that    *)
(* come synchronised nobody publishes those it could use instead.            *)
WithoutCloud(l) ==
  TakenAsTrue(conf[l].subscribe_rgbd) /\ ~TakenAsTrue(conf[l].rgbd_sync)

(* With compressed images the synchronisation of colour and depth waits for  *)
(* transports of the relayed topics (rtabmap.launch.py:91-92, 101-102),      *)
(* which are published plain only (76, 84), and with it those that take      *)
(* what it publishes.                                                        *)
WaitsForTransport(l) ==
  IF IsTrue(conf[l].compressed) /\ IsTrue(conf[l].rgbd_sync) /\ ~IsTrue(conf[l].stereo)
  THEN {"rgbd_sync"}
         \cup (IF TakenAsTrue(conf[l].subscribe_rgbd)
               THEN {"rgbd_odometry", "rtabmap", "rtabmap_viz"} ELSE {})
  ELSE {}

Starves(l, n) ==
  /\ n \in Range(RtabmapNodes)
  /\ n \in WaitsForTransport(l) \/ (n = "point_cloud_xyzrgb" /\ WithoutCloud(l))

WithImu == "camera" \in Launches =>
  ~("unite_imu_method" \in DOMAIN setup.given.camera /\ setup.given.camera.unite_imu_method = "0")

(* Whatever combination of switches rtabmap.launch.py is started with, its   *)
(* nodes end up with their inputs, but for two cases in which they never do: *)
(* republishing and relaying nodes are there when one of the others waits    *)
(* for what they publish, under the name it waits for; and with the vehicle, *)
(* the camera and the navigation up, the nodes of all of them are fed.       *)
EveryNodeIsFed ==
  PlainlyWritten /\ WithImu =>
    <>[](\A l \in Launches : \A n \in nodes[l] : Fed(n) <=> ~Starves(l, n.name))

(* With vehicle, camera and navigation launched, in whatever order, the      *)
(* velocity of the navigation reaches the topic the drive controller is      *)
(* remapped to (truck.launch.py:117-120), unless its spawner gives up.  It   *)
(* needs every link: camera, inertial unit, synchronisation, odometry,       *)
(* frames, map and obstacles, and rtabmap in no namespace, which it is only  *)
(* because nav2 is included first (rtabmap_realsense.launch.py:88-93).  The  *)
(* vehicle's joint states are spawned as well, after the drive controller's  *)
(* spawner has ended, well or not (truck.launch.py:163-168).                 *)
NavigationDrives ==
  {"truck", "camera", "realsense"} \subseteq Launches /\ WithImu
      /\ "remap_odometry_tf" \notin DOMAIN setup.given.truck =>
    <>(CmdVel \in flows
         /\ {"robot_controller_spawner", "joint_state_broadcaster_spawner"} \subseteq exited)
==============================================================================
