---------------------------- MODULE BringupProofs ----------------------------
(* Theorems about Bringup, for every set of launches started with any        *)
(* arguments and any number of spawners that fail.                           *)
EXTENDS Bringup, FiniteSetTheorems, SequenceTheorems, TLAPS

(* What the files contain: declarations of arguments that have a default,    *)
(* the arguments and files of the includes, nodes, and one handler.          *)
Declared ==
  DOMAIN TruckDefault \cup DOMAIN LiteralDefault \cup DOMAIN Refers
    \cup {"unite_imu_method", "nav2_namespace"}
PassedOn == {Put(RealsenseArguments[i]) : i \in 1..Len(RealsenseArguments)}
Included == {"nav2", "rtabmap", "nav2_rviz", "rs_launch"}
Processes ==
  {RtabmapNodes[i] : i \in 1..Len(RtabmapNodes)} \cup DOMAIN Spawned
    \cup {"control_node", "robot_state_publisher", "joint_state_publisher_gui", "view_state_publisher",
          "imu_filter", "nav2", "nav2_rviz", "realsense2_camera"}
SpawnedAfter == OnProcessExit("robot_controller_spawner", "joint_state_broadcaster_spawner")

Known ==
  {Declare(n) : n \in Declared} \cup PassedOn \cup {Include(n) : n \in Included}
    \cup {Start(n) : n \in Processes} \cup {SpawnedAfter}

(* The arguments an entity needs before it: an include needs what its file   *)
(* reads and does not declare itself.                                        *)
Needs(e) ==
  IF e.do # "include" THEN Reads(e)
  ELSE IF e.name = "rs_launch" THEN {"unite_imu_method"} ELSE {}

Sets(e, a) ==
  \/ e.do = "declare" /\ a = Argument(e.name)
  \/ e.do = "set" /\ a = e.name

Brings(T, a) == \E j \in 1..Len(T) : Sets(T[j], a)

(* Every entity of T finds the arguments it reads, when T begins with those  *)
(* of given: they are given, or an entity before it sets them.               *)
Served(T, given) ==
  \A i \in 1..Len(T) : \A a \in Needs(T[i]) :
    a \in given \/ \E j \in 1..(i - 1) : Sets(T[j], a)

------------------------------------------------------------------------------
(* Lists of entities *)

LEMMA ServedMore ==
  ASSUME NEW T, NEW g, NEW h, Served(T, g), g \subseteq h
  PROVE  Served(T, h)
BY DEF Served

LEMMA TailItems ==
  ASSUME NEW S, NEW T \in Seq(S), T # <<>>
  PROVE  /\ Tail(T) \in Seq(S) /\ Len(Tail(T)) = Len(T) - 1 /\ Len(T) \in Nat \ {0}
         /\ \A i \in 1..Len(Tail(T)) : Tail(T)[i] = T[i + 1]
         /\ Head(T) = T[1] /\ Head(T) \in S
OBVIOUS

LEMMA JoinItems ==
  ASSUME NEW S, NEW T \in Seq(S), NEW U \in Seq(S)
  PROVE  /\ T \o U \in Seq(S) /\ Len(T \o U) = Len(T) + Len(U)
         /\ Len(T) \in Nat /\ Len(U) \in Nat
         /\ \A i \in 1..Len(T) : (T \o U)[i] = T[i]
         /\ \A i \in 1..Len(U) : (T \o U)[Len(T) + i] = U[i]
OBVIOUS

(* A list is served after its first entity, which has set what it sets.      *)
LEMMA ServedTail ==
  ASSUME NEW S, NEW T \in Seq(S), T # <<>>, NEW g, NEW h,
         Served(T, g), g \subseteq h,
         \A a : Sets(Head(T), a) => a \in h
  PROVE  Served(Tail(T), h)
<1> SUFFICES ASSUME NEW i \in 1..Len(Tail(T)), NEW a \in Needs(Tail(T)[i]), a \notin h
             PROVE  \E j \in 1..(i - 1) : Sets(Tail(T)[j], a)
  BY DEF Served
<1>1. /\ Len(Tail(T)) = Len(T) - 1 /\ Len(T) \in Nat \ {0}
      /\ \A k \in 1..Len(Tail(T)) : Tail(T)[k] = T[k + 1]
      /\ Head(T) = T[1]
  BY TailItems
<1>2. i + 1 \in 1..Len(T) /\ a \in Needs(T[i + 1]) /\ a \notin g
  BY <1>1
<1>3. PICK j \in 1..i : Sets(T[j], a)
  BY <1>2 DEF Served
<1>4. j # 1
  BY <1>1, <1>3
<1>5. j - 1 \in 1..(i - 1) /\ Tail(T)[j - 1] = T[j]
  BY <1>1, <1>3, <1>4
<1> QED BY <1>3, <1>5

(* A list is served after another that sets what the rest needs.             *)
LEMMA ServedJoin ==
  ASSUME NEW S, NEW T \in Seq(S), NEW U \in Seq(S), NEW g, NEW h,
         Served(T, g), Served(U, h), \A a \in h : a \in g \/ Brings(T, a)
  PROVE  Served(T \o U, g)
<1> SUFFICES ASSUME NEW i \in 1..Len(T \o U), NEW a \in Needs((T \o U)[i]), a \notin g
             PROVE  \E j \in 1..(i - 1) : Sets((T \o U)[j], a)
  BY DEF Served
<1>1. /\ Len(T \o U) = Len(T) + Len(U) /\ Len(T) \in Nat /\ Len(U) \in Nat
      /\ \A k \in 1..Len(T) : (T \o U)[k] = T[k]
      /\ \A k \in 1..Len(U) : (T \o U)[Len(T) + k] = U[k]
  BY JoinItems
<1>2. CASE i <= Len(T)
  <2>1. i \in 1..Len(T) /\ a \in Needs(T[i])
    BY <1>1, <1>2
  <2>2. PICK j \in 1..(i - 1) : Sets(T[j], a)
    BY <2>1 DEF Served
  <2>3. (T \o U)[j] = T[j]
    BY <1>1, <2>1
  <2> QED BY <2>2, <2>3
<1>3. CASE i > Len(T)
  <2>1. PICK k \in 1..Len(U) : i = Len(T) + k
    <3>1. i - Len(T) \in 1..Len(U) /\ i = Len(T) + (i - Len(T))
      BY <1>1, <1>3
    <3> QED BY <3>1
  <2>2. a \in Needs(U[k])
    BY <1>1, <2>1
  <2>3. CASE a \in h
    <3>1. PICK j \in 1..Len(T) : Sets(T[j], a)
      BY <2>3 DEF Brings
    <3>2. j \in 1..(i - 1) /\ (T \o U)[j] = T[j]
      BY <1>1, <1>3, <3>1
    <3> QED BY <3>1, <3>2
  <2>4. CASE a \notin h
    <3>1. PICK j \in 1..(k - 1) : Sets(U[j], a)
      BY <2>2, <2>4 DEF Served
    <3>2. Len(T) + j \in 1..(i - 1) /\ (T \o U)[Len(T) + j] = U[j]
      BY <1>1, <2>1, <3>1
    <3> QED BY <3>1, <3>2
  <2> QED BY <2>3, <2>4
<1> QED BY <1>1, <1>2, <1>3

(* An include, which sets nothing itself, is replaced by its file.           *)
LEMMA ServedInclude ==
  ASSUME NEW S, NEW T \in Seq(S), NEW F \in Seq(S), T # <<>>, NEW g,
         Served(T, g), Head(T).do = "include", Served(F, Needs(Head(T)))
  PROVE  Served(F \o Tail(T), g)
<1>1. Tail(T) \in Seq(S) /\ Head(T) = T[1] /\ Len(T) \in Nat \ {0}
  BY TailItems
<1>2. Served(Tail(T), g)
  <2>1. \A a : ~Sets(Head(T), a)
    BY DEF Sets
  <2> QED BY <2>1, ServedTail
<1>3. \A a \in Needs(Head(T)) : a \in g
  <2>1. \A a \in Needs(T[1]) : a \in g \/ \E j \in 1..(1 - 1) : Sets(T[j], a)
    BY <1>1 DEF Served
  <2> QED BY <1>1, <2>1
<1>4. Served(F, g)
  BY <1>3, ServedMore
<1>5. \A a \in g : a \in g \/ Brings(F, a)
  OBVIOUS
<1> HIDE DEF Served, Brings
<1> QED BY <1>1, <1>2, <1>4, <1>5, ServedJoin

------------------------------------------------------------------------------
(* The files *)

(* Every default of rtabmap.launch.py refers to arguments declared before.   *)
LEMMA DeclaredBefore ==
  \A i \in 1..Len(DeclaredArguments) :
    /\ DeclaredArguments[i] \in Declared
    /\ Argument(DeclaredArguments[i]) = DeclaredArguments[i]
    /\ DeclaredArguments[i] \in DOMAIN Refers =>
         \A a \in Refers[DeclaredArguments[i]] : \E j \in 1..(i - 1) : DeclaredArguments[j] = a
<1>1. \A i \in 1..Len(DeclaredArguments) :
        DeclaredArguments[i] \in Declared /\ DeclaredArguments[i] # "nav2_namespace"
  BY DEF DeclaredArguments, Declared, TruckDefault, LiteralDefault, Refers
<1>2. \A i \in 1..Len(DeclaredArguments) : DeclaredArguments[i] \in DOMAIN Refers =>
        \A a \in Refers[DeclaredArguments[i]] : \E j \in 1..(i - 1) : DeclaredArguments[j] = a
  BY DEF DeclaredArguments, Refers
<1> QED BY <1>1, <1>2 DEF Argument

LEMMA SetupAfter ==
  \A i \in 1..Len(SetupArguments) :
    /\ SetupArguments[i] \in Declared
    /\ Argument(SetupArguments[i]) = SetupArguments[i]
    /\ SetupArguments[i] \in DOMAIN Refers =>
         \A a \in Refers[SetupArguments[i]] :
           \E j \in 1..Len(DeclaredArguments) : DeclaredArguments[j] = a
BY DEF SetupArguments, DeclaredArguments, Refers, Declared, Argument

LEMMA DeclareItems ==
  ASSUME NEW T \in Seq(Declared)
  PROVE  /\ Each(Declare, T) \in Seq(Known) /\ Len(Each(Declare, T)) = Len(T)
         /\ \A i \in 1..Len(T) : Each(Declare, T)[i] = [do |-> "declare", name |-> T[i]]
<1>1. PICK D : D = Each(Declare, T)
  OBVIOUS
<1>2. D = [i \in 1..Len(T) |-> [do |-> "declare", name |-> T[i]]]
  BY <1>1 DEF Each, Declare
<1>3. \A i \in 1..Len(T) : [do |-> "declare", name |-> T[i]] \in Known
  BY DEF Known, Declare
<1>4. D \in Seq(Known) /\ Len(D) = Len(T)
  BY <1>2, <1>3
<1> QED BY <1>1, <1>2, <1>4

LEMMA IncludeItems ==
  ASSUME NEW T \in Seq(Included)
  PROVE  /\ Each(Include, T) \in Seq(Known) /\ Len(Each(Include, T)) = Len(T)
         /\ \A i \in 1..Len(T) : Each(Include, T)[i] = [do |-> "include", name |-> T[i]]
<1>1. PICK D : D = Each(Include, T)
  OBVIOUS
<1>2. D = [i \in 1..Len(T) |-> [do |-> "include", name |-> T[i]]]
  BY <1>1 DEF Each, Include
<1>3. \A i \in 1..Len(T) : [do |-> "include", name |-> T[i]] \in Known
  BY DEF Known, Include
<1>4. D \in Seq(Known) /\ Len(D) = Len(T)
  BY <1>2, <1>3
<1> QED BY <1>1, <1>2, <1>4

LEMMA StartItems ==
  ASSUME NEW T \in Seq(Processes)
  PROVE  /\ Each(Start, T) \in Seq(Known) /\ Len(Each(Start, T)) = Len(T)
         /\ \A i \in 1..Len(T) : Each(Start, T)[i] = [do |-> "start", name |-> T[i]]
<1>1. PICK D : D = Each(Start, T)
  OBVIOUS
<1>2. D = [i \in 1..Len(T) |-> [do |-> "start", name |-> T[i]]]
  BY <1>1 DEF Each, Start
<1>3. \A i \in 1..Len(T) : [do |-> "start", name |-> T[i]] \in Known
  <2>1. \A i \in 1..Len(T) : T[i] \in Processes
    OBVIOUS
  <2> QED BY <2>1 DEF Known, Start
<1>4. D \in Seq(Known) /\ Len(D) = Len(T)
  BY <1>2, <1>3
<1> QED BY <1>1, <1>2, <1>4

LEMMA PutItems ==
  /\ Each(Put, RealsenseArguments) \in Seq(Known)
  /\ Len(Each(Put, RealsenseArguments)) = Len(RealsenseArguments)
  /\ \A i \in 1..Len(RealsenseArguments) :
       Each(Put, RealsenseArguments)[i].do = "set"
<1>0. DOMAIN RealsenseArguments = 1..9 /\ Len(RealsenseArguments) = 9
  BY DEF RealsenseArguments
<1>1. PICK D : D = Each(Put, RealsenseArguments)
  OBVIOUS
<1>2. D = [i \in 1..Len(RealsenseArguments) |-> Put(RealsenseArguments[i])]
  BY <1>0, <1>1 DEF Each
<1>3. \A i \in 1..Len(RealsenseArguments) : Put(RealsenseArguments[i]) \in Known
  BY DEF Known, PassedOn
<1>4. D \in Seq(Known) /\ Len(D) = Len(RealsenseArguments)
  BY <1>0, <1>2, <1>3
<1>5. \A i \in 1..Len(RealsenseArguments) : D[i].do = "set"
  BY <1>2 DEF Put
<1> QED BY <1>1, <1>4, <1>5

Ordered(T, given) ==
  \A i \in 1..Len(T) :
    /\ Argument(T[i]) = T[i]
    /\ T[i] \in DOMAIN Refers =>
         \A a \in Refers[T[i]] : a \in given \/ \E j \in 1..(i - 1) : T[j] = a

(* A list of declarations is served when each refers to arguments declared   *)
(* before it.                                                                *)
LEMMA ServedDeclarations ==
  ASSUME NEW T \in Seq(Declared), NEW g, Ordered(T, g)
  PROVE  /\ Each(Declare, T) \in Seq(Known)
         /\ Served(Each(Declare, T), g)
         /\ \A i \in 1..Len(T) : Brings(Each(Declare, T), T[i])
<1>1. PICK D : D = Each(Declare, T)
  OBVIOUS
<1>2. /\ D \in Seq(Known) /\ Len(D) = Len(T) /\ Len(T) \in Nat
      /\ \A i \in 1..Len(T) : D[i] = [do |-> "declare", name |-> T[i]]
  <2>1. Len(T) \in Nat
    OBVIOUS
  <2> QED BY <1>1, <2>1, DeclareItems
<1>a. \A i \in 1..Len(T) : D[i].do = "declare" /\ D[i].name = T[i]
  <2> SUFFICES ASSUME NEW i \in 1..Len(T)
               PROVE  D[i].do = "declare" /\ D[i].name = T[i]
    OBVIOUS
  <2>1. D[i] = [do |-> "declare", name |-> T[i]]
    BY <1>2
  <2> QED BY <2>1
<1>3. \A i \in 1..Len(T) : \A a : Sets(D[i], a) <=> a = T[i]
  BY <1>a DEF Sets, Ordered
<1>4. Served(D, g)
  <2> SUFFICES ASSUME NEW i \in 1..Len(D), NEW a \in Needs(D[i]), a \notin g
               PROVE  \E j \in 1..(i - 1) : Sets(D[j], a)
    BY DEF Served
  <2>1. T[i] \in DOMAIN Refers /\ a \in Refers[T[i]]
    <3>1. D[i].do = "declare" /\ D[i].name = T[i]
      BY <1>2, <1>a
    <3>2. a \in Reads(D[i])
      BY <3>1 DEF Needs
    <3> QED BY <3>1, <3>2 DEF Reads
  <2>2. PICK j \in 1..(i - 1) : T[j] = a
    BY <1>2, <2>1 DEF Ordered
  <2>3. j \in 1..Len(T)
    BY <1>2
  <2> QED BY <1>3, <2>2, <2>3
<1>5. \A i \in 1..Len(T) : Brings(D, T[i])
  BY <1>2, <1>3 DEF Brings
<1> QED BY <1>1, <1>2, <1>4, <1>5

(* A list of nodes is served when all that they read is given.               *)
LEMMA ServedNodes ==
  ASSUME NEW T \in Seq(Processes), NEW g,
         \A i \in 1..Len(T) : Reads(Start(T[i])) \subseteq g
  PROVE  /\ Each(Start, T) \in Seq(Known)
         /\ Served(Each(Start, T), g)
<1>1. PICK D : D = Each(Start, T)
  OBVIOUS
<1>2. /\ D \in Seq(Known) /\ Len(D) = Len(T)
      /\ \A i \in 1..Len(T) : D[i] = Start(T[i])
  BY <1>1, StartItems DEF Start
<1>3. \A i \in 1..Len(T) : Needs(D[i]) = Reads(Start(T[i]))
  BY <1>2 DEF Needs, Start
<1> QED BY <1>1, <1>2, <1>3 DEF Served

(* view_robot.launch.py reads "gui" and declares it nowhere.                 *)
Granted(l) == IF l = "view" THEN {"gui"} ELSE {}

InOrder(T, given) == T \in Seq(Known) /\ Served(T, given)

(* What a node of rtabmap.launch.py reads are all arguments of the file.     *)
FileArguments ==
  {DeclaredArguments[i] : i \in 1..Len(DeclaredArguments)}
    \cup {SetupArguments[i] : i \in 1..Len(SetupArguments)}

LEMMA NodesReadArguments ==
  \A i \in 1..Len(RtabmapNodes) :
    RtabmapNodes[i] \in Processes /\ Reads(Start(RtabmapNodes[i])) = FileArguments
<1>1. DOMAIN RtabmapNodes = 1..Len(RtabmapNodes)
      /\ DOMAIN DeclaredArguments = 1..Len(DeclaredArguments)
      /\ DOMAIN SetupArguments = 1..Len(SetupArguments)
  BY DEF RtabmapNodes, DeclaredArguments, SetupArguments
<1>2. \A i \in 1..Len(RtabmapNodes) : RtabmapNodes[i] \in Processes
  BY DEF Processes
<1>3. Range(DeclaredArguments) \cup Range(SetupArguments) = FileArguments
  BY <1>1 DEF Range, FileArguments
<1>4. \A i \in 1..Len(RtabmapNodes) : RtabmapNodes[i] \in Range(RtabmapNodes)
  BY <1>1 DEF Range
<1>5. \A n \in Range(RtabmapNodes) :
        NodeReads(n) = Range(DeclaredArguments) \cup Range(SetupArguments)
  <2>1. \A n \in Range(RtabmapNodes) :
          n \notin {"robot_state_publisher", "robot_controller_spawner", "joint_state_publisher_gui",
                   "view_state_publisher", "realsense2_camera", "nav2"}
    BY DEF Range, RtabmapNodes
  <2> QED BY <2>1 DEF NodeReads
<1>6. \A n : Reads(Start(n)) = NodeReads(n)
  BY DEF Reads, Start
<1> QED BY <1>2, <1>3, <1>4, <1>5, <1>6

LEMMA RtabmapServed == InOrder(Entities("rtabmap"), {})
<1> DEFINE A == Each(Declare, DeclaredArguments)
           B == Each(Declare, SetupArguments)
           C == Each(Start, RtabmapNodes)
           declared == {DeclaredArguments[i] : i \in 1..Len(DeclaredArguments)}
<1>0. DeclaredArguments \in Seq(Declared) /\ SetupArguments \in Seq(Declared)
      /\ RtabmapNodes \in Seq(Processes)
  <2>1. DeclaredArguments \in Seq(Declared)
    BY DeclaredBefore DEF DeclaredArguments
  <2>2. SetupArguments \in Seq(Declared)
    BY SetupAfter DEF SetupArguments
  <2>3. RtabmapNodes \in Seq(Processes)
    <3>1. DOMAIN RtabmapNodes = 1..Len(RtabmapNodes) /\ Len(RtabmapNodes) = 14
          /\ RtabmapNodes = [i \in 1..14 |-> RtabmapNodes[i]]
      BY DEF RtabmapNodes
    <3> QED BY <3>1, NodesReadArguments
  <2> QED BY <2>1, <2>2, <2>3
<1>1. /\ A \in Seq(Known) /\ Served(A, {})
      /\ \A i \in 1..Len(DeclaredArguments) : Brings(A, DeclaredArguments[i])
  <2>1. Ordered(DeclaredArguments, {})
    BY DeclaredBefore DEF Ordered
  <2> QED BY <1>0, <2>1, ServedDeclarations
<1>2. /\ B \in Seq(Known) /\ Served(B, declared)
      /\ \A i \in 1..Len(SetupArguments) : Brings(B, SetupArguments[i])
  <2>1. Ordered(SetupArguments, declared)
    BY SetupAfter DEF Ordered
  <2> HIDE DEF declared
  <2> QED BY <1>0, <2>1, ServedDeclarations
<1>3. C \in Seq(Known) /\ Served(C, FileArguments)
  BY <1>0, NodesReadArguments, ServedNodes
<1> HIDE DEF A, B, C
<1>4. A \o B \in Seq(Known) /\ Served(A \o B, {})
  <2>1. \A a \in declared : a \in {} \/ Brings(A, a)
    BY <1>1
  <2> HIDE DEF declared
  <2>2. Served(A \o B, {})
    BY <1>1, <1>2, <2>1, ServedJoin
  <2> QED BY <1>1, <1>2, <2>2, JoinItems
<1>5. \A a \in FileArguments : a \in {} \/ Brings(A \o B, a)
  <2>1. \A a : Brings(A, a) \/ Brings(B, a) => Brings(A \o B, a)
    <3>1. /\ Len(A \o B) = Len(A) + Len(B) /\ Len(A) \in Nat /\ Len(B) \in Nat
          /\ \A i \in 1..Len(A) : (A \o B)[i] = A[i]
          /\ \A i \in 1..Len(B) : (A \o B)[Len(A) + i] = B[i]
      BY <1>1, <1>2, JoinItems
    <3>2. \A i \in 1..Len(A) : i \in 1..Len(A \o B)
      BY <3>1
    <3>3. \A i \in 1..Len(B) : Len(A) + i \in 1..Len(A \o B)
      BY <3>1
    <3> QED BY <3>1, <3>2, <3>3 DEF Brings
  <2> QED BY <1>1, <1>2, <2>1 DEF FileArguments
<1>6. (A \o B) \o C \in Seq(Known) /\ Served((A \o B) \o C, {})
  <2>1. Served((A \o B) \o C, {})
    BY <1>3, <1>4, <1>5, ServedJoin
  <2> QED BY <1>3, <1>4, <2>1, JoinItems
<1>7. Entities("rtabmap") = (A \o B) \o C
  BY DEF Entities, A, B, C
<1> QED BY <1>6, <1>7 DEF InOrder

(* Declarations without references, and then entities that need them.        *)
LEMMA ServedAfterDeclarations ==
  ASSUME NEW T \in Seq(Declared), NEW U \in Seq(Known), NEW g,
         \A i \in 1..Len(T) : Argument(T[i]) = T[i] /\ T[i] \notin DOMAIN Refers,
         Served(U, g \cup {T[i] : i \in 1..Len(T)})
  PROVE  InOrder(Each(Declare, T) \o U, g)
<1> DEFINE D == Each(Declare, T)
           named == {T[i] : i \in 1..Len(T)}
<1>1. Ordered(T, g)
  BY DEF Ordered
<1>2. D \in Seq(Known) /\ Served(D, g) /\ \A i \in 1..Len(T) : Brings(D, T[i])
  BY <1>1, ServedDeclarations
<1>3. \A a \in g \cup named : a \in g \/ Brings(D, a)
  BY <1>2
<1> HIDE DEF D, named
<1>4. Served(D \o U, g)
  <2>1. Served(U, g \cup named)
    BY DEF named
  <2> QED BY <1>2, <1>3, <2>1, ServedJoin
<1>5. D \o U \in Seq(Known)
  BY <1>2, JoinItems
<1> QED BY <1>4, <1>5 DEF InOrder, D

LEMMA NodeNeeds ==
  /\ \A n : Needs(Start(n)) = NodeReads(n)
  /\ \A n : n # "rs_launch" => Needs(Include(n)) = {}
  /\ Needs(Include("rs_launch")) = {"unite_imu_method"}
  /\ Needs(SpawnedAfter) = {}
BY DEF Needs, Reads, Start, Include, SpawnedAfter, OnProcessExit

LEMMA OtherNodesRead ==
  /\ NodeReads("robot_state_publisher") \subseteq Range(TruckArguments)
  /\ NodeReads("robot_controller_spawner") = {"remap_odometry_tf"}
  /\ NodeReads("joint_state_publisher_gui") = {"gui"}
  /\ NodeReads("view_state_publisher") = Range(ViewArguments)
  /\ NodeReads("realsense2_camera") = {"unite_imu_method"}
  /\ NodeReads("nav2") = {"namespace"}
  /\ \A n \in {"control_node", "gpio_controller_spawner", "velocity_controller_spawner",
               "joint_state_broadcaster_spawner", "imu_filter", "nav2_rviz"} :
       NodeReads(n) = {}
<1>1. \A n \in Range(RtabmapNodes) :
        n \notin {"robot_state_publisher", "robot_controller_spawner", "joint_state_publisher_gui",
                  "view_state_publisher", "realsense2_camera", "control_node",
                  "gpio_controller_spawner", "velocity_controller_spawner",
                  "joint_state_broadcaster_spawner", "imu_filter", "nav2", "nav2_rviz"}
  BY DEF Range, RtabmapNodes
<1> QED BY <1>1 DEF NodeReads

LEMMA TruckServed == InOrder(Entities("truck"), {})
<1> DEFINE U == <<Start("control_node"), Start("robot_state_publisher"),
                  Start("robot_controller_spawner"), Start("gpio_controller_spawner"),
                  SpawnedAfter, Start("velocity_controller_spawner")>>
           named == {TruckArguments[i] : i \in 1..Len(TruckArguments)}
<1>1. TruckArguments \in Seq(Declared)
      /\ \A i \in 1..Len(TruckArguments) :
           Argument(TruckArguments[i]) = TruckArguments[i] /\ TruckArguments[i] \notin DOMAIN Refers
  BY DEF TruckArguments, Declared, TruckDefault, Argument, Refers
<1>2. U \in Seq(Known)
  <2>1. /\ Start("control_node") \in Known /\ Start("robot_state_publisher") \in Known
        /\ Start("robot_controller_spawner") \in Known /\ Start("gpio_controller_spawner") \in Known
        /\ SpawnedAfter \in Known /\ Start("velocity_controller_spawner") \in Known
    BY DEF Known, Processes, Spawned
  <2> QED BY <2>1
<1>3. Range(TruckArguments) = named /\ "remap_odometry_tf" \in named
  BY DEF TruckArguments, Range
<1>4. Served(U, {} \cup named)
  <2>1. /\ Len(U) = 6
        /\ U[1] = Start("control_node") /\ U[2] = Start("robot_state_publisher")
        /\ U[3] = Start("robot_controller_spawner") /\ U[4] = Start("gpio_controller_spawner")
        /\ U[5] = SpawnedAfter /\ U[6] = Start("velocity_controller_spawner")
    OBVIOUS
  <2> HIDE DEF U, named
  <2>2. \A i \in {1, 2, 3, 4, 5, 6} : Needs(U[i]) \subseteq named
    BY <1>3, <2>1, NodeNeeds, OtherNodesRead
  <2>3. \A i \in 1..Len(U) : Needs(U[i]) \subseteq named
    BY <2>1, <2>2
  <2> QED BY <2>3 DEF Served
<1>5. Entities("truck") = Each(Declare, TruckArguments) \o U
  BY DEF Entities, TruckFile, SpawnedAfter
<1> HIDE DEF U
<1> QED BY <1>1, <1>2, <1>4, <1>5, ServedAfterDeclarations

LEMMA ViewServed == InOrder(Entities("view"), {"gui"})
<1> DEFINE U == <<Start("joint_state_publisher_gui"), Start("view_state_publisher")>>
           named == {ViewArguments[i] : i \in 1..Len(ViewArguments)}
<1>1. ViewArguments \in Seq(Declared)
      /\ \A i \in 1..Len(ViewArguments) :
           Argument(ViewArguments[i]) = ViewArguments[i] /\ ViewArguments[i] \notin DOMAIN Refers
  BY DEF ViewArguments, Declared, TruckDefault, Argument, Refers
<1>2. U \in Seq(Known)
  BY DEF Known, Processes
<1>3. Range(ViewArguments) = named
  BY DEF ViewArguments, Range
<1>4. Served(U, {"gui"} \cup named)
  <2>1. Len(U) = 2 /\ U[1] = Start("joint_state_publisher_gui") /\ U[2] = Start("view_state_publisher")
    OBVIOUS
  <2> HIDE DEF U, named
  <2>2. \A i \in 1..Len(U) : Needs(U[i]) \subseteq {"gui"} \cup named
    BY <1>3, <2>1, NodeNeeds, OtherNodesRead
  <2> QED BY <2>2 DEF Served
<1>5. Entities("view") = Each(Declare, ViewArguments) \o U
  BY DEF Entities, ViewFile
<1> HIDE DEF U
<1> QED BY <1>1, <1>2, <1>4, <1>5, ServedAfterDeclarations

LEMMA CameraServed == InOrder(Entities("camera"), {})
<1> DEFINE T == Entities("camera")
<1>1. T = <<Declare("unite_imu_method"), Include("rs_launch"), Start("imu_filter")>>
  BY DEF Entities, CameraFile
<1>2. Len(T) = 3 /\ T[1] = Declare("unite_imu_method")
      /\ T[2] = Include("rs_launch") /\ T[3] = Start("imu_filter")
  BY <1>1
<1>3. T \in Seq(Known)
  <2>1. /\ Declare("unite_imu_method") \in Known /\ Include("rs_launch") \in Known
        /\ Start("imu_filter") \in Known
    BY DEF Known, Declared, Processes, Included
  <2>2. \A p, q, r \in Known : <<p, q, r>> \in Seq(Known)
    OBVIOUS
  <2> HIDE DEF T
  <2> QED BY <1>1, <2>1, <2>2
<1>4. Needs(Declare("unite_imu_method")) = {} /\ Sets(Declare("unite_imu_method"), "unite_imu_method")
  BY DEF Needs, Reads, Declare, Sets, Argument, Refers
<1> HIDE DEF T
<1>5. Served(T, {})
  <2> SUFFICES ASSUME NEW i \in 1..Len(T), NEW a \in Needs(T[i])
               PROVE  \E j \in 1..(i - 1) : Sets(T[j], a)
    BY DEF Served
  <2>1. i = 2 /\ a = "unite_imu_method"
    BY <1>2, <1>4, NodeNeeds, OtherNodesRead
  <2> QED BY <1>2, <1>4, <2>1
<1> QED BY <1>3, <1>5 DEF InOrder, T

LEMMA RealsenseServed == InOrder(Entities("realsense"), {})
<1> DEFINE D == <<Declare("unite_imu_method")>>
           U == Each(Include, IncludedFiles)
           T == D \o U
<1>1. D \in Seq(Known) /\ Len(D) = 1 /\ D[1] = Declare("unite_imu_method")
  BY DEF Known, Declared
<1>2. U \in Seq(Known) /\ Len(U) = 3
      /\ U[1] = Include("nav2") /\ U[2] = Include("rtabmap") /\ U[3] = Include("nav2_rviz")
  <2>1. IncludedFiles \in Seq(Included) /\ Len(IncludedFiles) = 3
        /\ IncludedFiles[1] = "nav2" /\ IncludedFiles[2] = "rtabmap" /\ IncludedFiles[3] = "nav2_rviz"
    BY DEF IncludedFiles, Included
  <2> HIDE DEF U
  <2>2. U \in Seq(Known) /\ Len(U) = 3 /\ \A i \in 1..3 : U[i] = Include(IncludedFiles[i])
    BY <2>1, IncludeItems DEF U, Include
  <2> QED BY <2>1, <2>2
<1> HIDE DEF D, U
<1>3. T \in Seq(Known) /\ Len(T) = 4 /\ T[1] = D[1]
      /\ T[2] = U[1] /\ T[3] = U[2] /\ T[4] = U[3]
  <2>1. /\ T \in Seq(Known) /\ Len(T) = Len(D) + Len(U)
        /\ \A i \in 1..Len(D) : T[i] = D[i]
        /\ \A i \in 1..Len(U) : T[Len(D) + i] = U[i]
    <3>1. D \in Seq(Known) /\ U \in Seq(Known)
      BY <1>1, <1>2
    <3> QED BY ONLY <3>1, JoinItems
  <2> HIDE DEF T
  <2>2. T[1 + 1] = U[1] /\ T[1 + 2] = U[2] /\ T[1 + 3] = U[3] /\ T[1] = D[1]
    BY <1>1, <1>2, <2>1
  <2> QED BY <1>1, <1>2, <2>1, <2>2
<1>4. Needs(Declare("unite_imu_method")) = {}
  BY DEF Needs, Reads, Declare, Refers
<1>5. Entities("realsense") = T
  BY DEF Entities, RealsenseFile, D, U
<1> HIDE DEF T
<1>6. \A i \in 1..Len(T) : Needs(T[i]) = {}
  BY <1>1, <1>2, <1>3, <1>4, NodeNeeds
<1> QED BY <1>3, <1>5, <1>6 DEF InOrder, Served

(* What ros2 launch is started with.                                         *)
LEMMA LaunchServed ==
  ASSUME NEW f \in LaunchFiles
  PROVE  InOrder(Entities(f), Granted(f))
BY RtabmapServed, TruckServed, ViewServed, CameraServed, RealsenseServed DEF LaunchFiles, Granted

(* What another file includes.                                               *)
LEMMA IncludeServed ==
  ASSUME NEW f \in Included
  PROVE  InOrder(Passed(f) \o Entities(f), Needs(Include(f)))
<1>1. CASE f = "rtabmap"
  <2> DEFINE P == Each(Put, RealsenseArguments)
             U == Entities("rtabmap")
  <2>1. Passed(f) \o Entities(f) = P \o U
    BY <1>1 DEF Passed
  <2> HIDE DEF U
  <2>2. U \in Seq(Known) /\ Served(U, {})
    BY RtabmapServed DEF InOrder, U
  <2>3. P \in Seq(Known) /\ Served(P, {})
    <3>1. P \in Seq(Known) /\ Len(P) = Len(RealsenseArguments)
          /\ \A i \in 1..Len(RealsenseArguments) : P[i].do = "set"
      BY PutItems
    <3> HIDE DEF P
    <3>2. \A i \in 1..Len(P) : Needs(P[i]) = {}
      BY <3>1 DEF Needs, Reads
    <3> QED BY <3>1, <3>2 DEF Served
  <2> HIDE DEF P
  <2>4. P \o U \in Seq(Known) /\ Served(P \o U, {})
    <3>1. Served(P \o U, {})
      BY <2>2, <2>3, ServedJoin
    <3> QED BY <2>2, <2>3, <3>1, JoinItems
  <2>5. Needs(Include(f)) = {}
    BY <1>1, NodeNeeds
  <2> QED BY <2>1, <2>4, <2>5 DEF InOrder
<1>2. CASE f # "rtabmap"
  <2> DEFINE U == Entities(f)
  <2>1. Passed(f) \o Entities(f) = <<>> \o U
    BY <1>2 DEF Passed
  <2>2. U \in Seq(Known) /\ Served(U, Needs(Include(f)))
    <3>1. CASE f = "nav2"
      <4>1. U = <<Declare("nav2_namespace"), Start("nav2")>>
        BY <3>1 DEF Entities
      <4>2. Declare("nav2_namespace") \in Known /\ Start("nav2") \in Known
        BY DEF Known, Declared, Processes
      <4>3. Needs(Declare("nav2_namespace")) = {} /\ Needs(Start("nav2")) = {"namespace"}
        <5>1. Needs(Declare("nav2_namespace")) = {}
          BY DEF Needs, Reads, Declare, Refers
        <5> QED BY <5>1, NodeNeeds, OtherNodesRead
      <4>4. Sets(Declare("nav2_namespace"), "namespace")
        BY DEF Sets, Declare, Argument
      <4> HIDE DEF U
      <4>5. Len(U) = 2 /\ U[1] = Declare("nav2_namespace") /\ U[2] = Start("nav2")
        BY <4>1
      <4>6. U \in Seq(Known)
        BY <4>1, <4>2
      <4>7. ASSUME NEW i \in 1..Len(U), NEW a \in Needs(U[i])
            PROVE  \E j \in 1..(i - 1) : Sets(U[j], a)
        <5>1. i = 2 /\ a = "namespace"
          BY <4>3, <4>5, <4>7
        <5> QED BY <4>4, <4>5, <5>1
      <4> QED BY <4>6, <4>7 DEF Served
    <3>2. CASE f = "nav2_rviz"
      <4>1. U = <<Start("nav2_rviz")>>
        BY <3>2 DEF Entities
      <4>2. Start("nav2_rviz") \in Known /\ Needs(Start("nav2_rviz")) = {}
        BY NodeNeeds, OtherNodesRead DEF Known, Processes
      <4> HIDE DEF U
      <4> QED BY <4>1, <4>2 DEF Served
    <3>3. CASE f = "rs_launch"
      <4>1. U = <<Start("realsense2_camera")>>
        BY <3>3 DEF Entities
      <4>2. Start("realsense2_camera") \in Known
            /\ Needs(Start("realsense2_camera")) = Needs(Include(f))
        BY <3>3, NodeNeeds, OtherNodesRead DEF Known, Processes
      <4> HIDE DEF U
      <4> QED BY <4>1, <4>2 DEF Served
    <3> QED BY <1>2, <3>1, <3>2, <3>3 DEF Included
  <2> HIDE DEF U
  <2>3. <<>> \o U = U
    BY <2>2
  <2> QED BY <2>1, <2>2, <2>3 DEF InOrder
<1> QED BY <1>1, <1>2

------------------------------------------------------------------------------
(* The invariant: what a launch still has to visit is made of known          *)
(* entities, each of which finds what it reads.                              *)
Handler == <<"robot_controller_spawner", "joint_state_broadcaster_spawner">>

Tables ==
  /\ setup \in Setups
  /\ DOMAIN conf = Launches /\ DOMAIN todo = Launches
  /\ DOMAIN nodes = Launches /\ DOMAIN handlers = Launches

Visiting ==
  \A l \in Launches :
    /\ DOMAIN setup.given[l] \subseteq DOMAIN conf[l]
    /\ InOrder(todo[l], DOMAIN conf[l] \cup Granted(l))
    /\ handlers[l] \subseteq {Handler}

SwitchesOK ==
  \A l \in Launches : \A n \in DOMAIN conf[l] \cap Switches : conf[l][n] \in SwitchValues

ExitsOK == exited \subseteq DOMAIN Spawned /\ controllers \subseteq {Spawned[p] : p \in exited}

FailuresOK ==
  failed \subseteq Launches /\ \A l \in failed : todo[l] = <<>> /\ nodes[l] = {}

BringInv ==
  Tables /\ Visiting /\ SwitchesOK /\ ExitsOK /\ FailuresOK /\ OnlyGuiIsMissing

LEMMA TypeOKParts == TypeOK <=> SwitchesOK /\ ExitsOK /\ FailuresOK
BY DEF TypeOK, SwitchesOK, ExitsOK, FailuresOK

LEMMA InitBringInv ==
  ASSUME Init
  PROVE  BringInv
<1>1. setup \in Setups /\ Launches \subseteq LaunchFiles
  BY SetupsAssumption DEF Init, Launches
<1>2. Tables
  BY <1>1 DEF Tables, Init, Launches
<1>3. Visiting
  <2> SUFFICES ASSUME NEW l \in Launches
               PROVE  /\ DOMAIN setup.given[l] \subseteq DOMAIN conf[l]
                      /\ InOrder(todo[l], DOMAIN conf[l] \cup Granted(l))
                      /\ handlers[l] \subseteq {Handler}
    BY DEF Visiting
  <2>1. todo[l] = Entities(l) /\ handlers[l] = {} /\ conf[l] = setup.given[l]
    BY DEF Init
  <2>2. InOrder(Entities(l), Granted(l))
    BY <1>1, LaunchServed
  <2>3. InOrder(Entities(l), DOMAIN conf[l] \cup Granted(l))
    BY <2>2, ServedMore DEF InOrder
  <2> QED BY <2>1, <2>3
<1>4. SwitchesOK
  BY <1>1, SetupsAssumption DEF SwitchesOK, Init, Launches
<1>5. ExitsOK /\ FailuresOK /\ OnlyGuiIsMissing
  BY DEF ExitsOK, FailuresOK, OnlyGuiIsMissing, Init
<1> QED BY <1>2, <1>3, <1>4, <1>5 DEF BringInv

(* The entity a launch visits next.                                          *)
LEMMA NextEntity ==
  ASSUME BringInv, NEW l \in Launches, todo[l] # <<>>
  PROVE  /\ Head(todo[l]) \in Known /\ l \notin failed
         /\ Needs(Head(todo[l])) \subseteq DOMAIN conf[l] \cup Granted(l)
<1>1. todo[l] \in Seq(Known) /\ Served(todo[l], DOMAIN conf[l] \cup Granted(l))
  BY DEF BringInv, Visiting, InOrder
<1>2. Head(todo[l]) = todo[l][1] /\ Len(todo[l]) \in Nat \ {0} /\ Head(todo[l]) \in Known
  BY <1>1, TailItems
<1>3. \A a \in Needs(todo[l][1]) :
        a \in DOMAIN conf[l] \cup Granted(l) \/ \E j \in 1..(1 - 1) : Sets(todo[l][j], a)
  BY <1>1, <1>2 DEF Served
<1> QED BY <1>2, <1>3 DEF BringInv, FailuresOK

LEMMA KnownKinds ==
  ASSUME NEW e \in Known
  PROVE  /\ e.do = "declare" => e.name \in Declared
         /\ e.do = "set" => e \in PassedOn
         /\ e.do = "include" => e.name \in Included /\ e = Include(e.name)
         /\ e.do = "start" => e.name \in Processes
         /\ e.do = "register" => <<e.name, e.then>> = Handler
<1>1. \A p \in PassedOn : p.do = "set"
  BY DEF PassedOn, Put
<1>2. CASE e \in {Declare(n) : n \in Declared}
  BY <1>2 DEF Declare
<1>3. CASE e \in {Include(n) : n \in Included}
  BY <1>3 DEF Include
<1>4. CASE e \in {Start(n) : n \in Processes}
  BY <1>4 DEF Start
<1>5. CASE e = SpawnedAfter
  BY <1>5 DEF SpawnedAfter, OnProcessExit, Handler
<1>6. CASE e \in PassedOn
  BY <1>1, <1>6
<1> QED BY <1>2, <1>3, <1>4, <1>5, <1>6 DEF Known

(* A declared switch gets one of the values: by itself, or from one that has *)
(* been declared before.                                                     *)
LEMMA DefaultOfSwitch ==
  ASSUME NEW n \in Declared, n \in Switches, NEW c,
         \A a \in DOMAIN c \cap Switches : c[a] \in SwitchValues,
         n \in DOMAIN Refers => Refers[n] \subseteq DOMAIN c
  PROVE  Argument(n) = n /\ Default(n, c) \in SwitchValues
<1>1. n \in {"remap_odometry_tf", "stereo", "rviz", "rtabmap_viz", "rgbd_sync", "subscribe_rgbd",
             "compressed", "visual_odometry", "icp_odometry", "wait_imu_to_init", "depth"}
  BY DEF Declared, Switches, TruckDefault, LiteralDefault, Refers
<1>2. CASE n = "remap_odometry_tf"
  BY <1>2 DEF Argument, Default, TruckDefault, LiteralDefault, Refers, SwitchValues
<1>3. CASE n \in {"stereo", "rviz", "rtabmap_viz", "rgbd_sync",
                  "compressed", "visual_odometry", "icp_odometry", "wait_imu_to_init"}
  <2>1. n \in DOMAIN LiteralDefault /\ LiteralDefault[n] \in SwitchValues
    BY <1>3 DEF LiteralDefault, SwitchValues
  <2>2. n \notin DOMAIN TruckDefault /\ n \notin DOMAIN Refers
        /\ n # "nav2_namespace" /\ n # "unite_imu_method"
    BY <1>3 DEF TruckDefault, Refers
  <2>3. Default(n, c) = LiteralDefault[n]
    BY <2>1, <2>2 DEF Default
  <2> QED BY <2>1, <2>2, <2>3 DEF Argument
<1>4. CASE n = "subscribe_rgbd"
  <2>1. c.rgbd_sync \in SwitchValues
    BY <1>4 DEF Refers, Switches
  <2>2. Default(n, c) = c.rgbd_sync
    BY <1>4 DEF Default, TruckDefault, LiteralDefault, Refers, Derived
  <2> QED BY <1>4, <2>1, <2>2 DEF Argument
<1>5. CASE n = "depth"
  <2>1. Default(n, c) = IF IsTrue(c.stereo) THEN "false" ELSE "true"
    BY <1>5 DEF Default, TruckDefault, LiteralDefault, Refers, Derived
  <2> QED BY <1>5, <2>1 DEF Argument, SwitchValues
<1> QED BY <1>1, <1>2, <1>3, <1>4, <1>5

LEMMA PassedSwitch ==
  ASSUME NEW e \in PassedOn, e.name \in Switches
  PROVE  e.value \in SwitchValues
BY DEF PassedOn, Put, RealsenseArguments, Switches, SwitchValues

(* A table that grows keeps the rest of its launch served.                   *)
LEMMA VisitingTail ==
  ASSUME NEW T, NEW g, NEW h, InOrder(T, g), T # <<>>, g \subseteq h,
         \A a : Sets(Head(T), a) => a \in h
  PROVE  InOrder(Tail(T), h)
<1>1. T \in Seq(Known) /\ Served(T, g)
  BY DEF InOrder
<1>2. Tail(T) \in Seq(Known)
  BY <1>1
<1> QED BY <1>1, <1>2, ServedTail DEF InOrder

LEMMA DeclareArgumentBringInv ==
  ASSUME BringInv, NEW l \in Launches, DeclareArgument(l)
  PROVE  BringInv'
<1> DEFINE e == Head(todo[l])
           n == e.name
           v == Default(n, conf[l])
           c == Defaulted(conf[l], Argument(n), v)
<1>1. todo[l] # <<>> /\ e.do = "declare" /\ Reads(e) \subseteq DOMAIN conf[l]
  BY DEF DeclareArgument, Next1
<1>2. e \in Known /\ l \notin failed
  BY <1>1, NextEntity
<1>3. n \in Declared
  BY <1>1, <1>2, KnownKinds
<1>4. n \in DOMAIN Refers => Refers[n] \subseteq DOMAIN conf[l]
  BY <1>1 DEF Reads
<1>5. Launches' = Launches /\ setup' = setup
  BY DEF DeclareArgument, Launches
<1>6. /\ conf' = [conf EXCEPT ![l] = c]
      /\ todo' = [todo EXCEPT ![l] = Tail(@)]
      /\ UNCHANGED <<setup, nodes, handlers, exited, controllers, flows, failed>>
  BY DEF DeclareArgument, Visited
<1>7. /\ DOMAIN c = DOMAIN conf[l] \cup {Argument(n)}
      /\ \A a \in DOMAIN conf[l] : c[a] = conf[l][a]
      /\ Argument(n) \notin DOMAIN conf[l] => c[Argument(n)] = v
  BY DEF Defaulted
<1> HIDE DEF c, v
<1>8. Tables'
  BY <1>5, <1>6 DEF BringInv, Tables
<1>9. /\ conf'[l] = c /\ todo'[l] = Tail(todo[l])
      /\ \A k \in Launches : k # l => conf'[k] = conf[k] /\ todo'[k] = todo[k]
  BY <1>6 DEF BringInv, Tables
<1>10. Visiting'
  <2>1. InOrder(Tail(todo[l]), DOMAIN c \cup Granted(l))
    <3>1. \A a : Sets(e, a) => a \in DOMAIN c \cup Granted(l)
      BY <1>1, <1>7 DEF Sets
    <3>2. InOrder(todo[l], DOMAIN conf[l] \cup Granted(l))
      BY DEF BringInv, Visiting
    <3>3. DOMAIN conf[l] \cup Granted(l) \subseteq DOMAIN c \cup Granted(l)
      BY <1>7
    <3> QED BY <1>1, <3>1, <3>2, <3>3, VisitingTail
  <2>2. DOMAIN setup.given[l] \subseteq DOMAIN c
    BY <1>7 DEF BringInv, Visiting
  <2> QED BY <1>5, <1>6, <1>9, <2>1, <2>2 DEF BringInv, Visiting
<1>11. SwitchesOK'
  <2>1. \A a \in DOMAIN c \cap Switches : c[a] \in SwitchValues
    <3> SUFFICES ASSUME NEW a \in DOMAIN c \cap Switches
                 PROVE  c[a] \in SwitchValues
      OBVIOUS
    <3>1. CASE a \in DOMAIN conf[l]
      BY <1>7, <3>1 DEF BringInv, SwitchesOK
    <3>2. CASE a \notin DOMAIN conf[l]
      <4>1. a = Argument(n) /\ c[a] = v
        BY <1>7, <3>2
      <4>2. n \in Switches
        BY <4>1 DEF Argument, Switches
      <4>3. v \in SwitchValues
        BY <1>3, <1>4, <4>2, DefaultOfSwitch DEF BringInv, SwitchesOK, v
      <4> QED BY <4>1, <4>3
    <3> QED BY <3>1, <3>2
  <2> QED BY <1>5, <1>9, <2>1 DEF BringInv, SwitchesOK
<1>12. ExitsOK' /\ FailuresOK' /\ OnlyGuiIsMissing'
  BY <1>2, <1>5, <1>6, <1>9 DEF BringInv, ExitsOK, FailuresOK, OnlyGuiIsMissing
<1> QED BY <1>8, <1>10, <1>11, <1>12 DEF BringInv

LEMMA SetArgumentBringInv ==
  ASSUME BringInv, NEW l \in Launches, SetArgument(l)
  PROVE  BringInv'
<1> DEFINE e == Head(todo[l])
           c == Assigned(conf[l], e.name, e.value)
<1>1. todo[l] # <<>> /\ e.do = "set"
  BY DEF SetArgument, Next1
<1>2. e \in PassedOn /\ l \notin failed
  BY <1>1, NextEntity, KnownKinds
<1>5. Launches' = Launches /\ setup' = setup
  BY DEF SetArgument, Launches
<1>6. /\ conf' = [conf EXCEPT ![l] = c]
      /\ todo' = [todo EXCEPT ![l] = Tail(@)]
      /\ UNCHANGED <<setup, nodes, handlers, exited, controllers, flows, failed>>
  BY DEF SetArgument, Visited
<1>7. DOMAIN c = DOMAIN conf[l] \cup {e.name} /\ c[e.name] = e.value
      /\ \A a \in DOMAIN conf[l] : a # e.name => c[a] = conf[l][a]
  BY DEF Assigned
<1> HIDE DEF c
<1>8. Tables'
  BY <1>5, <1>6 DEF BringInv, Tables
<1>9. /\ conf'[l] = c /\ todo'[l] = Tail(todo[l])
      /\ \A k \in Launches : k # l => conf'[k] = conf[k] /\ todo'[k] = todo[k]
  BY <1>6 DEF BringInv, Tables
<1>10. Visiting'
  <2>1. InOrder(Tail(todo[l]), DOMAIN c \cup Granted(l))
    <3>1. \A a : Sets(e, a) => a \in DOMAIN c \cup Granted(l)
      BY <1>1, <1>7 DEF Sets
    <3>2. InOrder(todo[l], DOMAIN conf[l] \cup Granted(l))
      BY DEF BringInv, Visiting
    <3>3. DOMAIN conf[l] \cup Granted(l) \subseteq DOMAIN c \cup Granted(l)
      BY <1>7
    <3> QED BY <1>1, <3>1, <3>2, <3>3, VisitingTail
  <2>2. DOMAIN setup.given[l] \subseteq DOMAIN c
    BY <1>7 DEF BringInv, Visiting
  <2> QED BY <1>5, <1>6, <1>9, <2>1, <2>2 DEF BringInv, Visiting
<1>11. SwitchesOK'
  <2>1. \A a \in DOMAIN c \cap Switches : c[a] \in SwitchValues
    BY <1>2, <1>7, PassedSwitch DEF BringInv, SwitchesOK
  <2> QED BY <1>5, <1>9, <2>1 DEF BringInv, SwitchesOK
<1>12. ExitsOK' /\ FailuresOK' /\ OnlyGuiIsMissing'
  BY <1>2, <1>5, <1>6, <1>9 DEF BringInv, ExitsOK, FailuresOK, OnlyGuiIsMissing
<1> QED BY <1>8, <1>10, <1>11, <1>12 DEF BringInv

(* What the other visits leave alone; they take the entity off the list.     *)
LEMMA PlainVisitBringInv ==
  ASSUME BringInv, NEW l \in Launches, todo[l] # <<>>,
         Head(todo[l]).do \in {"start", "register"}, Visited(l),
         UNCHANGED <<setup, conf, exited, controllers, flows, failed>>,
         DOMAIN nodes' = Launches, DOMAIN handlers' = Launches,
         \A k \in Launches : k # l => nodes'[k] = nodes[k],
         \A k \in Launches : handlers'[k] \subseteq {Handler}
  PROVE  BringInv'
<1>1. l \notin failed
  BY NextEntity
<1>2. Launches' = Launches
  BY DEF Launches
<1>3. todo' = [todo EXCEPT ![l] = Tail(@)]
  BY DEF Visited
<1>4. Tables'
  BY <1>2, <1>3 DEF BringInv, Tables
<1>5. todo'[l] = Tail(todo[l]) /\ \A k \in Launches : k # l => todo'[k] = todo[k]
  BY <1>3 DEF BringInv, Tables
<1>6. InOrder(Tail(todo[l]), DOMAIN conf[l] \cup Granted(l))
  <2>1. \A a : ~Sets(Head(todo[l]), a)
    BY DEF Sets
  <2>2. InOrder(todo[l], DOMAIN conf[l] \cup Granted(l))
    BY DEF BringInv, Visiting
  <2> QED BY <2>1, <2>2, VisitingTail
<1>7. Visiting'
  BY <1>2, <1>5, <1>6 DEF BringInv, Visiting
<1>8. SwitchesOK' /\ ExitsOK' /\ FailuresOK' /\ OnlyGuiIsMissing'
  BY <1>1, <1>2, <1>5 DEF BringInv, SwitchesOK, ExitsOK, FailuresOK, OnlyGuiIsMissing
<1> QED BY <1>4, <1>7, <1>8 DEF BringInv

LEMMA StartNodeBringInv ==
  ASSUME BringInv, NEW l \in Launches, StartNode(l)
  PROVE  BringInv'
<1> DEFINE N == LET n == Head(todo[l]).name IN
                  IF Started(n, conf[l]) THEN nodes[l] \cup {Node(n, conf[l])} ELSE nodes[l]
<1>1. todo[l] # <<>> /\ Head(todo[l]).do = "start" /\ Visited(l)
  BY DEF StartNode, Next1
<1>2. nodes' = [nodes EXCEPT ![l] = N]
  BY DEF StartNode
<1> HIDE DEF N
<1>3. DOMAIN nodes' = Launches /\ \A k \in Launches : k # l => nodes'[k] = nodes[k]
  BY <1>2 DEF BringInv, Tables
<1>4. UNCHANGED <<setup, conf, handlers, exited, controllers, flows, failed>>
  BY DEF StartNode
<1>5. DOMAIN handlers' = Launches /\ \A k \in Launches : handlers'[k] \subseteq {Handler}
  BY <1>4 DEF BringInv, Tables, Visiting
<1> QED BY <1>1, <1>3, <1>4, <1>5, PlainVisitBringInv

LEMMA RegisterHandlerBringInv ==
  ASSUME BringInv, NEW l \in Launches, RegisterHandler(l)
  PROVE  BringInv'
<1> DEFINE e == Head(todo[l])
<1>1. todo[l] # <<>> /\ e.do = "register" /\ Visited(l)
  BY DEF RegisterHandler, Next1
<1>2. <<e.name, e.then>> = Handler
  BY <1>1, NextEntity, KnownKinds
<1>3. handlers' = [handlers EXCEPT ![l] = @ \cup {Handler}]
  BY <1>2 DEF RegisterHandler
<1>4. DOMAIN handlers' = Launches /\ \A k \in Launches : handlers'[k] \subseteq {Handler}
  BY <1>3 DEF BringInv, Tables, Visiting
<1>5. UNCHANGED <<setup, conf, nodes, exited, controllers, flows, failed>>
  BY DEF RegisterHandler
<1>6. DOMAIN nodes' = Launches /\ \A k \in Launches : k # l => nodes'[k] = nodes[k]
  BY <1>5 DEF BringInv, Tables
<1> HIDE DEF e
<1> QED BY <1>1, <1>4, <1>5, <1>6, PlainVisitBringInv DEF e

LEMMA IncludeFileBringInv ==
  ASSUME BringInv, NEW l \in Launches, IncludeFile(l)
  PROVE  BringInv'
<1> DEFINE e == Head(todo[l])
           F == Passed(e.name) \o Entities(e.name)
<1>1. todo[l] # <<>> /\ e.do = "include"
  BY DEF IncludeFile, Next1
<1>2. e \in Known /\ e.name \in Included /\ e = Include(e.name) /\ l \notin failed
  BY <1>1, NextEntity, KnownKinds
<1>3. InOrder(F, Needs(e))
  BY <1>2, IncludeServed
<1>4. todo' = [todo EXCEPT ![l] = F \o Tail(@)]
  BY DEF IncludeFile
<1>5. UNCHANGED <<setup, conf, nodes, handlers, exited, controllers, flows, failed>>
      /\ Launches' = Launches
  BY DEF IncludeFile, Launches
<1> HIDE DEF e, F
<1>6. todo'[l] = F \o Tail(todo[l]) /\ \A k \in Launches : k # l => todo'[k] = todo[k]
  BY <1>4 DEF BringInv, Tables
<1>7. InOrder(F \o Tail(todo[l]), DOMAIN conf[l] \cup Granted(l))
  <2>1. InOrder(todo[l], DOMAIN conf[l] \cup Granted(l))
    BY DEF BringInv, Visiting
  <2>2. Served(F \o Tail(todo[l]), DOMAIN conf[l] \cup Granted(l))
    BY <1>1, <1>3, <2>1, ServedInclude DEF InOrder, e
  <2>3. F \in Seq(Known) /\ Tail(todo[l]) \in Seq(Known)
    BY <1>1, <1>3, <2>1 DEF InOrder
  <2>4. F \o Tail(todo[l]) \in Seq(Known)
    BY <2>3
  <2> QED BY <2>2, <2>4 DEF InOrder
<1>8. Tables'
  BY <1>4, <1>5 DEF BringInv, Tables
<1>9. Visiting'
  BY <1>5, <1>6, <1>7 DEF BringInv, Visiting
<1>10. SwitchesOK' /\ ExitsOK' /\ FailuresOK' /\ OnlyGuiIsMissing'
  BY <1>2, <1>5, <1>6 DEF BringInv, SwitchesOK, ExitsOK, FailuresOK, OnlyGuiIsMissing
<1> QED BY <1>8, <1>9, <1>10 DEF BringInv

(* Only what Granted names can be missing: the launch that ends is "view".   *)
LEMMA EndWithErrorBringInv ==
  ASSUME BringInv, NEW l \in Launches, EndWithError(l)
  PROVE  BringInv'
<1>1. todo[l] # <<>> /\ ~(Reads(Head(todo[l])) \subseteq DOMAIN conf[l])
  BY DEF EndWithError
<1>2. /\ todo' = [todo EXCEPT ![l] = <<>>]
      /\ nodes' = [nodes EXCEPT ![l] = {}]
      /\ handlers' = [handlers EXCEPT ![l] = {}]
      /\ failed' = failed \cup {l}
      /\ UNCHANGED <<setup, conf, exited, controllers, flows>>
      /\ Launches' = Launches
  BY DEF EndWithError, Launches
<1>3. /\ todo'[l] = <<>> /\ nodes'[l] = {} /\ handlers'[l] = {}
      /\ \A k \in Launches : k # l =>
           todo'[k] = todo[k] /\ nodes'[k] = nodes[k] /\ handlers'[k] = handlers[k]
  BY <1>2 DEF BringInv, Tables
<1>4. l = "view" /\ "gui" \notin DOMAIN conf[l]
  <2>1. Head(todo[l]).do # "include"
    BY <1>1 DEF Reads
  <2>2. Reads(Head(todo[l])) \subseteq DOMAIN conf[l] \cup Granted(l)
    BY <1>1, <2>1, NextEntity DEF Needs
  <2> QED BY <1>1, <2>2 DEF Granted
<1>5. "gui" \notin DOMAIN setup.given[l]
  BY <1>4 DEF BringInv, Visiting
<1>6. InOrder(<<>>, DOMAIN conf[l] \cup Granted(l))
  BY DEF InOrder, Served
<1>7. Tables'
  BY <1>2 DEF BringInv, Tables
<1>8. Visiting'
  BY <1>2, <1>3, <1>6 DEF BringInv, Visiting
<1>9. SwitchesOK' /\ ExitsOK'
  BY <1>2 DEF BringInv, SwitchesOK, ExitsOK
<1>10. FailuresOK'
  BY <1>2, <1>3 DEF BringInv, FailuresOK
<1>11. OnlyGuiIsMissing'
  BY <1>2, <1>4, <1>5 DEF BringInv, OnlyGuiIsMissing
<1> QED BY <1>7, <1>8, <1>9, <1>10, <1>11 DEF BringInv

LEMMA PublishBringInv ==
  ASSUME BringInv, NEW l \in Launches, Publish(l)
  PROVE  BringInv'
<1>1. UNCHANGED <<setup, conf, todo, nodes, handlers, exited, controllers, failed>>
      /\ Launches' = Launches
  BY DEF Publish, Launches
<1> QED BY <1>1 DEF BringInv, Tables, Visiting, SwitchesOK, ExitsOK, FailuresOK, OnlyGuiIsMissing

(* The sequence of at most one entity.                                       *)
LEMMA HandledItems ==
  ASSUME NEW x, NEW S, S \subseteq {x}
  PROVE  SetToSeq(S) \in Seq(S) /\ \A i \in 1..Len(SetToSeq(S)) : SetToSeq(S)[i] = x
<1>0. Cardinality(S) \in Nat
  <2>1. CASE S = {}
    BY <2>1, FS_EmptySet
  <2>2. CASE S = {x}
    <3>1. Cardinality(S) = 1
      BY <2>2, FS_Singleton
    <3> QED BY <3>1
  <2> QED BY <2>1, <2>2
<1>1. \E f \in [1..Cardinality(S) -> S] : IsInjective(f)
  <2>1. CASE S = {}
    <3>1. Cardinality(S) = 0
      BY <2>1, FS_EmptySet
    <3>2. PICK f : f = [i \in 1..0 |-> x]
      OBVIOUS
    <3>3. f \in [1..0 -> {}] /\ IsInjective(f)
      BY <3>2 DEF IsInjective
    <3> QED BY <2>1, <3>1, <3>3
  <2>2. CASE S = {x}
    <3>1. Cardinality(S) = 1
      BY <2>2, FS_Singleton
    <3>2. PICK f : f = [i \in 1..1 |-> x]
      OBVIOUS
    <3>3. f \in [1..1 -> {x}] /\ IsInjective(f)
      BY <3>2 DEF IsInjective
    <3> QED BY <2>2, <3>1, <3>3
  <2> QED BY <2>1, <2>2
<1>2. SetToSeq(S) \in [1..Cardinality(S) -> S]
  BY <1>1 DEF SetToSeq
<1>3. PICK T : T = SetToSeq(S)
  OBVIOUS
<1>4. T \in Seq(S) /\ \A i \in 1..Len(T) : T[i] = x
  BY <1>0, <1>2, <1>3
<1> QED BY <1>3, <1>4

(* What is started after a process needs nothing.                            *)
LEMMA HandledSequence ==
  ASSUME NEW S, S \subseteq {Start("joint_state_broadcaster_spawner")}, NEW g
  PROVE  InOrder(SetToSeq(S), g)
<1> DEFINE x == Start("joint_state_broadcaster_spawner")
<1>1. x \in Known /\ Needs(x) = {}
  BY NodeNeeds, OtherNodesRead DEF Known, Processes, Spawned
<1> HIDE DEF x
<1>2. S \subseteq {x}
  BY DEF x
<1>3. PICK T : T = SetToSeq(S)
  OBVIOUS
<1>4. T \in Seq(S) /\ \A i \in 1..Len(T) : T[i] = x
  BY <1>2, <1>3, HandledItems
<1>5. T \in Seq(Known)
  BY <1>1, <1>2, <1>4
<1> QED BY <1>1, <1>3, <1>4, <1>5 DEF InOrder, Served

LEMMA SpawnerBringInv ==
  ASSUME BringInv, NEW l \in Launches, todo[l] = <<>>,
         NEW n \in nodes[l], n.name \in DOMAIN Spawned,
         exited' = exited \cup {n.name}, OnExit(l, n.name),
         controllers' \in {controllers, controllers \cup {Spawned[n.name]}},
         UNCHANGED <<setup, conf, nodes, handlers, flows, failed>>
  PROVE  BringInv'
<1> DEFINE S == {Start(h[2]) : h \in {g \in handlers[l] : g[1] = n.name}}
<1>1. l \notin failed
  BY DEF BringInv, FailuresOK
<1>2. S \subseteq {Start("joint_state_broadcaster_spawner")}
  <2>1. \A h \in handlers[l] : h = Handler
    BY DEF BringInv, Visiting
  <2>2. Handler[2] = "joint_state_broadcaster_spawner"
    BY DEF Handler
  <2> QED BY <2>1, <2>2
<1>3. todo' = [todo EXCEPT ![l] = SetToSeq(S)]
  BY DEF OnExit
<1> HIDE DEF S
<1>4. todo'[l] = SetToSeq(S) /\ \A k \in Launches : k # l => todo'[k] = todo[k]
  BY <1>3 DEF BringInv, Tables
<1>5. InOrder(SetToSeq(S), DOMAIN conf[l] \cup Granted(l))
  BY <1>2, HandledSequence
<1>6. Launches' = Launches
  BY DEF Launches
<1>7. Tables'
  BY <1>3, <1>6 DEF BringInv, Tables
<1>8. Visiting'
  BY <1>4, <1>5, <1>6 DEF BringInv, Visiting
<1>9. ExitsOK'
  BY DEF BringInv, ExitsOK
<1>10. SwitchesOK' /\ FailuresOK' /\ OnlyGuiIsMissing'
  BY <1>1, <1>4, <1>6 DEF BringInv, SwitchesOK, FailuresOK, OnlyGuiIsMissing
<1> QED BY <1>7, <1>8, <1>9, <1>10 DEF BringInv

LEMMA NextBringInv ==
  ASSUME BringInv, [Next]_vars
  PROVE  BringInv'
<1>1. CASE UNCHANGED vars
  BY <1>1 DEF vars, BringInv, Tables, Visiting, SwitchesOK, ExitsOK, FailuresOK,
              OnlyGuiIsMissing, Launches
<1>2. ASSUME NEW l \in Launches, Visit(l) PROVE BringInv'
  BY <1>2, DeclareArgumentBringInv, SetArgumentBringInv, IncludeFileBringInv,
     StartNodeBringInv, RegisterHandlerBringInv, EndWithErrorBringInv DEF Visit
<1>3. ASSUME NEW l \in Launches, SpawnerEnds(l) PROVE BringInv'
  BY <1>3, SpawnerBringInv DEF SpawnerEnds
<1>4. ASSUME NEW l \in Launches, SpawnerFails(l) PROVE BringInv'
  BY <1>4, SpawnerBringInv DEF SpawnerFails
<1> QED BY <1>1, <1>2, <1>3, <1>4, PublishBringInv DEF Next

THEOREM BringInvHolds == Spec => []BringInv
BY InitBringInv, NextBringInv, PTL DEF Spec

(* The tables of the launches hold one of the values for every switch, and   *)
(* what failed runs nothing, for any command lines.                          *)
THEOREM BringupTypeCorrect == Spec => []TypeOK
<1>1. BringInv => TypeOK
  BY TypeOKParts DEF BringInv
<1> QED BY <1>1, BringInvHolds, PTL

(* No file reads an argument that is not set, whatever it is started with    *)
(* and whatever includes it, but view_robot.launch.py its "gui".             *)
THEOREM OnlyGuiIsMissingHolds == Spec => []OnlyGuiIsMissing
<1>1. BringInv => OnlyGuiIsMissing
  BY DEF BringInv
<1> QED BY <1>1, BringInvHolds, PTL

------------------------------------------------------------------------------
(* One publisher.  Nobody names a topic or a frame on a command line, and no *)
(* launch is started beside another that consists of the same nodes.         *)
TopicArguments ==
  {"namespace", "frame_id", "map_frame_id", "map_topic", "rgb_topic", "depth_topic",
   "stereo_namespace", "left_image_topic", "right_image_topic", "rgbd_topic",
   "odom_topic", "vo_frame_id", "rgb_topic_relay", "depth_topic_relay",
   "left_image_topic_relay", "right_image_topic_relay", "rgbd_topic_relay"}

Ordinary ==
  /\ \A l \in Launches : DOMAIN setup.given[l] \cap TopicArguments = {}
  /\ ~({"rtabmap", "realsense"} \subseteq Launches)
  /\ ~({"truck", "view"} \subseteq Launches)

RtabmapNames == {RtabmapNodes[i] : i \in 1..Len(RtabmapNodes)}
Descriptions == {"robot_state_publisher", "view_state_publisher"}
Syncs == {"rgbd_sync", "stereo_sync", "rgbd_relay", "rgbd_relay_uncompress"}
Odometries == {"rgbd_odometry", "stereo_odometry", "icp_odometry"}

(* The word of a topic that tells who publishes it.                          *)
Word(t) ==
  IF t[2] = "camera" /\ (Len(t) = 3 \/ t[4] # "_relay") THEN "camera"
  ELSE IF t[2] \in {"rtabmap", "tf", "camera", "stereo_camera"} THEN t[3] ELSE t[2]

Words(n) ==
  CASE n = "control_node" -> {"controller_manager"}
    [] n \in Descriptions -> {"robot_description", "truck_origin"}
    [] n = "realsense2_camera" -> {"camera"}
    [] n = "imu_filter" -> {"imu"}
    [] n = "nav2" -> {"cmd_vel"}
    [] n = "republish_rgb" -> {"rgb", "color"}
    [] n = "republish_depth" -> {"depth", "aligned_depth"}
    [] n = "republish_left" -> {"left"}
    [] n = "republish_right" -> {"right"}
    [] n \in Syncs -> {"rgbd_image"}
    [] n \in Odometries -> {"odom", "odom_info"}
    [] n = "rtabmap" -> {"map", "local_grid_obstacle"}
    [] n = "point_cloud_xyzrgb" -> {"voxel_cloud"}
    [] OTHER -> {}

(* The nodes and files of a launch.                                          *)
Crew(l) ==
  CASE l = "truck" -> {"control_node", "robot_state_publisher"} \cup DOMAIN Spawned
    [] l = "view" -> {"joint_state_publisher_gui", "view_state_publisher"}
    [] l = "camera" -> {"realsense2_camera", "imu_filter"}
    [] l = "realsense" -> RtabmapNames \cup {"nav2", "nav2_rviz"}
    [] l = "rtabmap" -> RtabmapNames

Files(l) ==
  CASE l = "camera" -> {"rs_launch"}
    [] l = "realsense" -> {"nav2", "rtabmap", "nav2_rviz"}
    [] OTHER -> {}

Fits(l) ==
  {Declare(n) : n \in Declared} \cup PassedOn \cup {Include(f) : f \in Files(l)}
    \cup {Start(n) : n \in Crew(l)} \cup {e \in {SpawnedAfter} : l = "truck"}

(* The republished images: the arguments that follow "compressed".           *)
Republisher ==
  [rgb_topic_relay |-> "republish_rgb", depth_topic_relay |-> "republish_depth",
   left_image_topic_relay |-> "republish_left", right_image_topic_relay |-> "republish_right"]

(* No argument is set over once a node of rtabmap.launch.py has been started *)
(* or a republished topic been named after the switches.                     *)
Relies(e) ==
  \/ e.do = "start" /\ e.name \in RtabmapNames
  \/ e.do = "declare" /\ e.name \in DOMAIN Republisher
  \/ e.do = "include" /\ e.name = "rtabmap"

SetsOver(e) == e.do = "set" \/ (e.do = "include" /\ e.name = "rtabmap")

NothingSetOver(T) == \A i \in 1..Len(T) : ~SetsOver(T[i])

Settled(T) ==
  \A i, j \in 1..Len(T) : i < j /\ Relies(T[i]) => ~SetsOver(T[j])

Late(N, c) == (\E n \in N : n.name \in RtabmapNames) \/ DOMAIN c \cap DOMAIN Republisher # {}

Ahead(l, T, N, c) ==
  /\ T \in Seq(Fits(l))
  /\ Settled(T)
  /\ Late(N, c) => NothingSetOver(T)

(* The values the arguments for topics and frames can have.                  *)
Named ==
  [namespace |-> {<<>>, <<"rtabmap">>},
   frame_id |-> {<<"base_link">>, <<"truck_origin">>},
   map_frame_id |-> {<<"map">>}, map_topic |-> {<<"map">>},
   rgb_topic |-> {<<"/", "camera", "rgb">>, <<"/", "camera", "color">>},
   depth_topic |-> {<<"/", "camera", "depth">>, <<"/", "camera", "aligned_depth">>},
   stereo_namespace |-> {<<"/", "stereo_camera">>},
   left_image_topic |-> {<<"/", "stereo_camera", "left", "image">>},
   right_image_topic |-> {<<"/", "stereo_camera", "right", "image">>},
   rgbd_topic |-> {<<"rgbd_image">>}, odom_topic |-> {<<"odom">>},
   vo_frame_id |-> {<<"odom">>},
   rgbd_topic_relay |-> {<<"rgbd_image">>, <<"rgbd_image", "_relay">>}]

Republishes(t, n) == Absolute(t) /\ Word(t) \in Words(n)

Table(c) ==
  /\ \A a \in DOMAIN c \cap DOMAIN Named : c[a] \in Named[a]
  /\ \A a \in DOMAIN c \cap DOMAIN Republisher :
       /\ "compressed" \in DOMAIN c
       /\ TakenAsTrue(c.compressed) => Republishes(c[a], Republisher[a])

Plain(c) == \A a \in DOMAIN c \cap Switches : c[a] # "True"

Running(l, N, c) ==
  \A n \in N :
    /\ n.name \in Crew(l)
    /\ \A t \in n.out : Word(t) \in Words(n.name)
    /\ n.name \in RtabmapNames => FileArguments \subseteq DOMAIN c /\ Condition(n.name, c)

Fine(l, T, N, c, H) ==
  /\ Ahead(l, T, N, c)
  /\ Table(c)
  /\ Running(l, N, c)
  /\ H # {} => l = "truck"

PubInv ==
  /\ Ordinary
  /\ PlainlyWritten => \A l \in Launches : Plain(conf[l])
  /\ \A l \in Launches : Fine(l, todo[l], nodes[l], conf[l], handlers[l])

(* Topics *)

LEMMA RtabmapNamesAre ==
  RtabmapNames =
    {"republish_rgb", "republish_depth", "rgbd_sync", "republish_left", "republish_right",
     "stereo_sync", "rgbd_relay", "rgbd_relay_uncompress", "rgbd_odometry",
     "stereo_odometry", "icp_odometry", "rtabmap", "rtabmap_viz", "point_cloud_xyzrgb"}
  /\ Range(RtabmapNodes) = RtabmapNames
<1>1. Len(RtabmapNodes) = 14 /\ DOMAIN RtabmapNodes = 1..14
  BY DEF RtabmapNodes
<1>2. Range(RtabmapNodes) = RtabmapNames
  BY <1>1 DEF Range, RtabmapNames
<1>3. RtabmapNames =
        {"republish_rgb", "republish_depth", "rgbd_sync", "republish_left", "republish_right",
         "stereo_sync", "rgbd_relay", "rgbd_relay_uncompress", "rgbd_odometry",
         "stereo_odometry", "icp_odometry", "rtabmap", "rtabmap_viz", "point_cloud_xyzrgb"}
  BY DEF RtabmapNames, RtabmapNodes
<1> QED BY <1>2, <1>3

(* A relative topic, in no namespace or in that of rtabmap.                  *)
LEMMA RelativeWord ==
  ASSUME NEW ns \in {<<>>, <<"rtabmap">>}, NEW w, NEW S, NEW t \in Seq(S), t # <<>>, t[1] = w,
         w \notin {"/", "camera", "rtabmap", "tf", "stereo_camera"}
  PROVE  Word(Topic(ns, t)) = w
<1> DEFINE Z == S \cup {"/", "rtabmap"}
           X == <<"/">> \o ns
           Y == X \o t
<1>1. <<"/">> \in Seq(Z) /\ ns \in Seq(Z) /\ t \in Seq(Z) /\ Len(<<"/">>) = 1 /\ <<"/">>[1] = "/"
  <2>1. ns \in Seq(Z)
    <3>1. "rtabmap" \in Z
      OBVIOUS
    <3> HIDE DEF Z
    <3>2. <<"rtabmap">> \in Seq(Z)
      BY <3>1
    <3>3. <<>> \in Seq(Z)
      OBVIOUS
    <3> QED BY <3>2, <3>3
  <2>2. t \in Seq(Z)
    OBVIOUS
  <2> QED BY <2>1, <2>2
<1> HIDE DEF Z
<1>2. /\ X \in Seq(Z) /\ Len(X) = 1 + Len(ns) /\ Len(ns) \in Nat
      /\ \A i \in 1..Len(ns) : X[1 + i] = ns[i]
  <2>1. /\ X \in Seq(Z) /\ Len(X) = Len(<<"/">>) + Len(ns) /\ Len(ns) \in Nat
        /\ \A i \in 1..Len(ns) : X[Len(<<"/">>) + i] = ns[i]
    BY ONLY <1>1, JoinItems
  <2> QED BY <1>1, <2>1
<1> HIDE DEF X
<1>3. /\ Len(Y) = Len(X) + Len(t) /\ Len(t) \in Nat \ {0}
      /\ \A i \in 1..Len(X) : Y[i] = X[i]
      /\ \A i \in 1..Len(t) : Y[Len(X) + i] = t[i]
  <2>1. /\ Len(Y) = Len(X) + Len(t) /\ Len(t) \in Nat
        /\ \A i \in 1..Len(X) : Y[i] = X[i]
        /\ \A i \in 1..Len(t) : Y[Len(X) + i] = t[i]
    BY ONLY <1>1, <1>2, JoinItems
  <2>2. Len(t) # 0
    OBVIOUS
  <2> QED BY <2>1, <2>2
<1> HIDE DEF Y
<1>4. Word(Y) = w
  <2>1. CASE ns = <<>>
    <3>1. Len(ns) = 0
      BY <2>1
    <3>2. Len(X) = 1
      BY <1>2, <3>1
    <3>3. Y[1 + 1] = t[1]
      BY <1>3, <3>2
    <3> QED BY <3>3 DEF Word
  <2>2. CASE ns = <<"rtabmap">>
    <3>1. Len(ns) = 1 /\ ns[1] = "rtabmap"
      BY <2>2
    <3>2. Len(X) = 2 /\ X[1 + 1] = "rtabmap"
      BY <1>2, <3>1
    <3>3. Y[2 + 1] = t[1] /\ Y[2] = "rtabmap"
      BY <1>3, <3>2
    <3> QED BY <3>3 DEF Word
  <2> QED BY <2>1, <2>2
<1>5. Topic(ns, t) = Y
  BY DEF Topic, Absolute, Y, X
<1> QED BY <1>4, <1>5

(* A transform, which is absolute.                                           *)
LEMMA TfWord ==
  ASSUME NEW ns, NEW w, NEW v, w # "camera"
  PROVE  Word(Topic(ns, Tf(<<w>>, <<v>>))) = w
<1> DEFINE Z == {"/", "tf", w, v}
           A == <<"/", "tf">>
           X == A \o <<w>>
           Y == X \o <<v>>
<1>1. A \in Seq(Z) /\ Len(A) = 2 /\ A[1] = "/" /\ A[2] = "tf"
      /\ <<w>> \in Seq(Z) /\ Len(<<w>>) = 1 /\ <<w>>[1] = w
      /\ <<v>> \in Seq(Z) /\ Len(<<v>>) = 1
  OBVIOUS
<1> HIDE DEF A, Z
<1>2. /\ X \in Seq(Z) /\ Len(X) = 3
      /\ X[1] = "/" /\ X[2] = "tf" /\ X[3] = w
  <2>1. /\ X \in Seq(Z) /\ Len(X) = Len(A) + Len(<<w>>)
        /\ \A i \in 1..Len(A) : X[i] = A[i]
        /\ \A i \in 1..Len(<<w>>) : X[Len(A) + i] = <<w>>[i]
    BY ONLY <1>1, JoinItems
  <2>2. X[2 + 1] = <<w>>[1]
    BY <1>1, <2>1
  <2> QED BY <1>1, <2>1, <2>2
<1> HIDE DEF X
<1>3. Y[1] = "/" /\ Y[2] = "tf" /\ Y[3] = w
  <2>1. X \in Seq(Z) /\ <<v>> \in Seq(Z)
    BY <1>1, <1>2
  <2>2. \A i \in 1..Len(X) : Y[i] = X[i]
    BY ONLY <2>1, JoinItems
  <2>3. 1 \in 1..Len(X) /\ 2 \in 1..Len(X) /\ 3 \in 1..Len(X)
    BY <1>2
  <2> QED BY <1>2, <2>2, <2>3
<1>4. Tf(<<w>>, <<v>>) = Y
  BY DEF Tf, Y, X, A
<1> HIDE DEF Y
<1> QED BY <1>3, <1>4 DEF Topic, Absolute, Word

LEMMA AbsoluteWord ==
  ASSUME NEW ns, NEW t, Absolute(t)
  PROVE  Topic(ns, t) = t
BY DEF Topic

LEMMA RelayItems ==
  ASSUME NEW S, NEW t \in Seq(S)
  PROVE  /\ Len(Relay(t)) = Len(t) + 1
         /\ \A i \in 1..Len(t) : Relay(t)[i] = t[i]
         /\ Relay(t)[Len(t) + 1] = "_relay"
BY DEF Relay

LEMMA RelayOfThree ==
  ASSUME NEW a, NEW b
  PROVE  /\ Len(Relay(<<"/", a, b>>)) = 4
         /\ Relay(<<"/", a, b>>)[1] = "/" /\ Relay(<<"/", a, b>>)[2] = a
         /\ Relay(<<"/", a, b>>)[3] = b /\ Relay(<<"/", a, b>>)[4] = "_relay"
<1>1. PICK t : t = <<"/", a, b>>
  OBVIOUS
<1>2. t \in Seq({"/", a, b}) /\ Len(t) = 3 /\ t[1] = "/" /\ t[2] = a /\ t[3] = b
  BY <1>1
<1>3. /\ Len(Relay(t)) = Len(t) + 1 /\ \A i \in 1..Len(t) : Relay(t)[i] = t[i]
      /\ Relay(t)[Len(t) + 1] = "_relay"
  BY ONLY <1>2, RelayItems
<1> QED BY <1>1, <1>2, <1>3

LEMMA RelayOfFour ==
  ASSUME NEW a, NEW b, NEW d
  PROVE  /\ Relay(<<"/", a, b, d>>)[1] = "/" /\ Relay(<<"/", a, b, d>>)[2] = a
         /\ Relay(<<"/", a, b, d>>)[3] = b
<1>1. PICK t : t = <<"/", a, b, d>>
  OBVIOUS
<1>2. t \in Seq({"/", a, b, d}) /\ Len(t) = 4 /\ t[1] = "/" /\ t[2] = a /\ t[3] = b
  BY <1>1
<1>3. \A i \in 1..Len(t) : Relay(t)[i] = t[i]
  BY ONLY <1>2, RelayItems
<1> QED BY <1>1, <1>2, <1>3

(* The republished images.                                                   *)
LEMMA RelayWords ==
  /\ \A t \in Named.rgb_topic : Republishes(Relay(t), "republish_rgb")
  /\ \A t \in Named.depth_topic : Republishes(Relay(t), "republish_depth")
  /\ \A t \in Named.left_image_topic : Republishes(Relay(t), "republish_left")
  /\ \A t \in Named.right_image_topic : Republishes(Relay(t), "republish_right")
<1>1. /\ Words("republish_rgb") = {"rgb", "color"} /\ Words("republish_depth") = {"depth", "aligned_depth"}
      /\ Words("republish_left") = {"left"} /\ Words("republish_right") = {"right"}
  BY DEF Words, Descriptions, Syncs, Odometries
<1>2. \A b : Absolute(Relay(<<"/", "camera", b>>)) /\ Word(Relay(<<"/", "camera", b>>)) = b
  BY RelayOfThree DEF Absolute, Word
<1>3. \A b, d : /\ Absolute(Relay(<<"/", "stereo_camera", b, d>>))
                /\ Word(Relay(<<"/", "stereo_camera", b, d>>)) = b
  BY RelayOfFour DEF Absolute, Word
<1>4. \A t \in Named.rgb_topic : Republishes(Relay(t), "republish_rgb")
  BY <1>1, <1>2 DEF Republishes, Named
<1>5. \A t \in Named.depth_topic : Republishes(Relay(t), "republish_depth")
  BY <1>1, <1>2 DEF Republishes, Named
<1>6. \A t \in Named.left_image_topic : Republishes(Relay(t), "republish_left")
  BY <1>1, <1>3 DEF Republishes, Named
<1>7. \A t \in Named.right_image_topic : Republishes(Relay(t), "republish_right")
  BY <1>1, <1>3 DEF Republishes, Named
<1> QED BY <1>4, <1>5, <1>6, <1>7

(* Every topic a node publishes has the node's word.                         *)
LEMMA RelativeWords ==
  ASSUME NEW ns \in Named.namespace, NEW w, w \notin {"/", "camera", "rtabmap", "tf", "stereo_camera"}
  PROVE  Word(Topic(ns, <<w>>)) = w /\ Word(Topic(ns, <<w, "_relay">>)) = w
<1>1. ns \in {<<>>, <<"rtabmap">>}
  BY DEF Named
<1>2. <<w>> \in Seq({w}) /\ <<w>> # <<>> /\ <<w>>[1] = w
  OBVIOUS
<1>3. <<w, "_relay">> \in Seq({w, "_relay"}) /\ <<w, "_relay">> # <<>> /\ <<w, "_relay">>[1] = w
  OBVIOUS
<1>4. Word(Topic(ns, <<w>>)) = w
  BY ONLY <1>1, <1>2, w \notin {"/", "camera", "rtabmap", "tf", "stereo_camera"}, RelativeWord
<1>5. Word(Topic(ns, <<w, "_relay">>)) = w
  BY ONLY <1>1, <1>3, w \notin {"/", "camera", "rtabmap", "tf", "stereo_camera"}, RelativeWord
<1> QED BY <1>4, <1>5

Published(n, c) == Topics(NodeNamespace(n, c), Outputs(n, c))

LEMMA PublishedWords ==
  ASSUME NEW n \in RtabmapNames, NEW c, Table(c), FileArguments \subseteq DOMAIN c, Condition(n, c)
  PROVE  \A t \in Published(n, c) : Word(t) \in Words(n)
<1> DEFINE ns == NodeNamespace(n, c)
<1>0. /\ {"namespace", "frame_id", "map_frame_id", "map_topic", "rgbd_topic_relay", "odom_topic",
          "vo_frame_id"} \subseteq DOMAIN c
      /\ DOMAIN Republisher \subseteq DOMAIN c
  BY DEF FileArguments, DeclaredArguments, SetupArguments, Republisher
<1>1. /\ c.namespace \in Named.namespace /\ c.frame_id \in {<<"base_link">>, <<"truck_origin">>}
      /\ c.map_frame_id = <<"map">> /\ c.map_topic = <<"map">>
      /\ c.odom_topic = <<"odom">> /\ c.vo_frame_id = <<"odom">>
      /\ c.rgbd_topic_relay \in {<<"rgbd_image">>, <<"rgbd_image", "_relay">>}
  BY <1>0 DEF Table, Named
<1>2. ns \in Named.namespace
  BY <1>1 DEF NodeNamespace, Named
<1> HIDE DEF ns
<1>3. Published(n, c) = {Topic(ns, t) : t \in Outputs(n, c)}
  BY DEF Published, Topics, ns
<1>4. SUFFICES ASSUME NEW t \in Outputs(n, c)
               PROVE  Word(Topic(ns, t)) \in Words(n)
  BY <1>3
<1>5. ASSUME NEW a \in DOMAIN Republisher, n = Republisher[a], t = c[a], TakenAsTrue(c.compressed)
      PROVE  Word(Topic(ns, t)) \in Words(n)
  <2>1. Absolute(t) /\ Word(t) \in Words(n)
    BY <1>0, <1>5 DEF Table, Republishes
  <2> QED BY <2>1, AbsoluteWord
<1>6. CASE n = "republish_rgb"
  <2>1. t = c["rgb_topic_relay"] /\ TakenAsTrue(c.compressed)
    BY <1>6 DEF Outputs, Condition, Republished, IsTrue, TakenAsTrue
  <2>2. "rgb_topic_relay" \in DOMAIN Republisher /\ n = Republisher["rgb_topic_relay"]
    BY <1>6 DEF Republisher
  <2> QED BY <1>5, <2>1, <2>2
<1>7. CASE n = "republish_depth"
  <2>1. t = c["depth_topic_relay"] /\ TakenAsTrue(c.compressed)
    BY <1>7 DEF Outputs, Condition, Republished, IsTrue, TakenAsTrue
  <2>2. "depth_topic_relay" \in DOMAIN Republisher /\ n = Republisher["depth_topic_relay"]
    BY <1>7 DEF Republisher
  <2> QED BY <1>5, <2>1, <2>2
<1>8. CASE n = "republish_left"
  <2>1. t = c["left_image_topic_relay"] /\ TakenAsTrue(c.compressed)
    BY <1>8 DEF Outputs, Condition, Republished, IsTrue, TakenAsTrue
  <2>2. "left_image_topic_relay" \in DOMAIN Republisher /\ n = Republisher["left_image_topic_relay"]
    BY <1>8 DEF Republisher
  <2> QED BY <1>5, <2>1, <2>2
<1>9. CASE n = "republish_right"
  <2>1. t = c["right_image_topic_relay"] /\ TakenAsTrue(c.compressed)
    BY <1>9 DEF Outputs, Condition, Republished, IsTrue, TakenAsTrue
  <2>2. "right_image_topic_relay" \in DOMAIN Republisher /\ n = Republisher["right_image_topic_relay"]
    BY <1>9 DEF Republisher
  <2> QED BY <1>5, <2>1, <2>2
<1>10. CASE n \in Syncs
  <2>1. t \in {<<"rgbd_image">>, <<"rgbd_image", "_relay">>}
    BY <1>1, <1>10 DEF Syncs, Outputs
  <2>2. Word(Topic(ns, t)) = "rgbd_image"
    <3>1. Word(Topic(ns, <<"rgbd_image">>)) = "rgbd_image"
          /\ Word(Topic(ns, <<"rgbd_image", "_relay">>)) = "rgbd_image"
      BY <1>2, RelativeWords
    <3> QED BY <2>1, <3>1
  <2>3. Words(n) = {"rgbd_image"}
    BY <1>10 DEF Words, Syncs, Descriptions, Odometries
  <2> QED BY <2>2, <2>3
<1>11. CASE n \in Odometries
  <2>1. Words(n) = {"odom", "odom_info"}
    BY <1>11 DEF Words, Syncs, Descriptions, Odometries
  <2>2. t \in {<<"odom">>, <<"odom_info">>, Tf(<<"odom">>, c.frame_id)}
    BY <1>1, <1>11 DEF Odometries, Outputs, Odometry
  <2>3. CASE t \in {<<"odom">>, <<"odom_info">>}
    BY <1>2, <2>1, <2>3, RelativeWords
  <2>4. CASE t = Tf(<<"odom">>, c.frame_id)
    BY <1>1, <2>1, <2>4, TfWord
  <2> QED BY <2>2, <2>3, <2>4
<1>12. CASE n = "rtabmap"
  <2>1. Words(n) = {"map", "local_grid_obstacle"}
    BY <1>12 DEF Words, Syncs, Descriptions, Odometries
  <2>2. t \in {<<"map">>, <<"local_grid_obstacle">>, Tf(<<"map">>, <<"odom">>)}
    BY <1>1, <1>12 DEF Outputs
  <2>3. CASE t \in {<<"map">>, <<"local_grid_obstacle">>}
    BY <1>2, <2>1, <2>3, RelativeWords
  <2>4. CASE t = Tf(<<"map">>, <<"odom">>)
    BY <2>1, <2>4, TfWord
  <2> QED BY <2>2, <2>3, <2>4
<1>13. CASE n = "point_cloud_xyzrgb"
  <2>1. Words(n) = {"voxel_cloud"}
    BY <1>13 DEF Words, Syncs, Descriptions, Odometries
  <2>2. t = <<"voxel_cloud">>
    BY <1>13 DEF Outputs
  <2> QED BY <1>2, <2>1, <2>2, RelativeWords
<1>14. CASE n = "rtabmap_viz"
  BY <1>14 DEF Outputs
<1> QED BY <1>6, <1>7, <1>8, <1>9, <1>10, <1>11, <1>12, <1>13, <1>14, RtabmapNamesAre DEF Syncs, Odometries

LEMMA OtherWordsAre ==
  /\ Words("control_node") = {"controller_manager"}
  /\ \A n \in Descriptions : Words(n) = {"robot_description", "truck_origin"}
  /\ Words("realsense2_camera") = {"camera"}
  /\ Words("imu_filter") = {"imu"}
  /\ Words("nav2") = {"cmd_vel"}
<1>1. Words("control_node") = {"controller_manager"}
  BY DEF Words, Descriptions, Syncs, Odometries
<1>2. \A n \in Descriptions : Words(n) = {"robot_description", "truck_origin"}
  BY DEF Words, Descriptions, Syncs, Odometries
<1>3. Words("realsense2_camera") = {"camera"}
  BY DEF Words, Descriptions, Syncs, Odometries
<1>4. Words("imu_filter") = {"imu"}
  BY DEF Words, Descriptions, Syncs, Odometries
<1>5. Words("nav2") = {"cmd_vel"}
  BY DEF Words, Descriptions, Syncs, Odometries
<1> QED BY <1>1, <1>2, <1>3, <1>4, <1>5

LEMMA OtherWords ==
  ASSUME NEW n \in Processes \ RtabmapNames, NEW c, Table(c), n = "nav2" => "namespace" \in DOMAIN c
  PROVE  \A t \in NodeOutputs(n, c) : Word(t) \in Words(n)
<1> SUFFICES ASSUME NEW t \in NodeOutputs(n, c)
             PROVE  Word(t) \in Words(n)
  OBVIOUS
<1>1. CASE n = "control_node"
  <2>1. t = <<"/", "controller_manager">>
    BY <1>1 DEF NodeOutputs, ControllerManager
  <2>2. Word(t) = "controller_manager"
    BY <2>1 DEF Word
  <2> QED BY <1>1, <2>2, OtherWordsAre
<1>2. CASE n \in Descriptions
  <2>1. Words(n) = {"robot_description", "truck_origin"}
    BY <1>2, OtherWordsAre
  <2>2. t \in {RobotDescription, Tf(<<"truck_origin">>, <<"camera_link">>)}
    BY <1>2 DEF NodeOutputs, Descriptions
  <2>3. CASE t = RobotDescription
    BY <2>1, <2>3 DEF Word, RobotDescription
  <2>4. CASE t = Tf(<<"truck_origin">>, <<"camera_link">>)
    <3>1. Absolute(t)
      <4>1. <<"/", "tf">> \o <<"truck_origin">> \o <<"camera_link">> = t
        BY <2>4 DEF Tf
      <4> QED BY <4>1 DEF Absolute
    <3>2. Topic(<<>>, t) = t
      BY <3>1, AbsoluteWord
    <3>3. Word(Topic(<<>>, t)) = "truck_origin"
      BY <2>4, TfWord
    <3> QED BY <2>1, <3>2, <3>3
  <2> QED BY <2>2, <2>3, <2>4
<1>3. CASE n = "realsense2_camera"
  <2>1. t \in CameraImages \cup {ImuRaw}
    BY <1>3 DEF NodeOutputs
  <2>2. Word(t) = "camera"
    BY <2>1 DEF CameraImages, ImuRaw, Word
  <2> QED BY <1>3, <2>2, OtherWordsAre
<1>4. CASE n = "imu_filter"
  <2>1. t = <<"/", "imu", "data">>
    BY <1>4 DEF NodeOutputs
  <2>2. Word(t) = "imu"
    BY <2>1 DEF Word
  <2> QED BY <1>4, <2>2, OtherWordsAre
<1>5. CASE n = "nav2"
  <2>1. t = Topic(c.namespace, <<"cmd_vel">>)
    BY <1>5 DEF NodeOutputs
  <2>2. c.namespace \in Named.namespace
    BY <1>5 DEF Table, Named
  <2>3. Word(t) = "cmd_vel"
    <3>1. \A ns \in Named.namespace : Word(Topic(ns, <<"cmd_vel">>)) = "cmd_vel"
      <4>1. "cmd_vel" \notin {"/", "camera", "rtabmap", "tf", "stereo_camera"}
        OBVIOUS
      <4> QED BY <4>1, RelativeWords
    <3> QED BY <2>1, <2>2, <3>1
  <2> QED BY <1>5, <2>3, OtherWordsAre
<1>6. CASE n \in DOMAIN Spawned \cup {"joint_state_publisher_gui", "nav2_rviz"}
  BY <1>6 DEF NodeOutputs, Spawned
<1> QED BY <1>1, <1>2, <1>3, <1>4, <1>5, <1>6 DEF Processes, RtabmapNames, Descriptions

LEMMA SameItems ==
  ASSUME NEW S, NEW T \in Seq(S), NEW U \in Seq(S), Len(T) = Len(U),
         \A i \in 1..Len(T) : T[i] = U[i]
  PROVE  T = U
OBVIOUS

LEMMA JoinPairs ==
  ASSUME NEW a, NEW b, NEW d, NEW e
  PROVE  <<a, b>> \o <<d, e>> = <<a, b, d, e>>
<1>1. PICK S, T, U, V : S = {a, b, d, e} /\ T = <<a, b>> /\ U = <<d, e>> /\ V = <<a, b, d, e>>
  OBVIOUS
<1>2. /\ T \in Seq(S) /\ Len(T) = 2 /\ T[1] = a /\ T[2] = b
      /\ U \in Seq(S) /\ Len(U) = 2 /\ U[1] = d /\ U[2] = e
      /\ V \in Seq(S) /\ Len(V) = 4 /\ V[1] = a /\ V[2] = b /\ V[3] = d /\ V[4] = e
  BY <1>1
<1>3. /\ T \o U \in Seq(S) /\ Len(T \o U) = 4
      /\ (T \o U)[1] = a /\ (T \o U)[2] = b /\ (T \o U)[3] = d /\ (T \o U)[4] = e
  <2>1. T \in Seq(S) /\ U \in Seq(S)
    BY <1>2
  <2>2. /\ T \o U \in Seq(S) /\ Len(T \o U) = Len(T) + Len(U)
        /\ \A i \in 1..Len(T) : (T \o U)[i] = T[i]
        /\ \A i \in 1..Len(U) : (T \o U)[Len(T) + i] = U[i]
    BY ONLY <2>1, JoinItems
  <2>3. (T \o U)[2 + 1] = U[1] /\ (T \o U)[2 + 2] = U[2]
    BY ONLY <1>2, <2>2
  <2> QED BY ONLY <1>2, <2>2, <2>3
<1>4. \A i \in 1..4 : (T \o U)[i] = V[i]
  BY ONLY <1>2, <1>3
<1>5. T \o U = V
  BY ONLY <1>2, <1>3, <1>4, SameItems
<1> QED BY <1>1, <1>5

LEMMA AppendItems ==
  ASSUME NEW S, NEW T \in Seq(S), NEW x \in S, Len(T) = 1
  PROVE  /\ Append(T, x) \in Seq(S) /\ Len(Append(T, x)) = 2
         /\ Append(T, x)[1] = T[1] /\ Append(T, x)[2] = x
<1>1. /\ Append(T, x) \in Seq(S) /\ Len(Append(T, x)) = Len(T) + 1
      /\ \A i \in 1..Len(T) : Append(T, x)[i] = T[i]
      /\ Append(T, x)[Len(T) + 1] = x
  BY ONLY T \in Seq(S), x \in S, AppendProperties
<1> QED BY <1>1

LEMMA RelayOfOne ==
  ASSUME NEW a
  PROVE  Relay(<<a>>) = <<a, "_relay">>
<1>1. PICK S, T, V : S = {a, "_relay"} /\ T = <<a>> /\ V = <<a, "_relay">>
  OBVIOUS
<1>2. /\ T \in Seq(S) /\ Len(T) = 1 /\ T[1] = a /\ "_relay" \in S
      /\ V \in Seq(S) /\ Len(V) = 2 /\ V[1] = a /\ V[2] = "_relay"
  BY <1>1
<1>3. /\ Append(T, "_relay") \in Seq(S) /\ Len(Append(T, "_relay")) = 2
      /\ Append(T, "_relay")[1] = a /\ Append(T, "_relay")[2] = "_relay"
  BY ONLY <1>2, AppendItems
<1>4. \A i \in 1..2 : Append(T, "_relay")[i] = V[i]
  BY ONLY <1>2, <1>3
<1>5. Append(T, "_relay") = V
  BY ONLY <1>2, <1>3, <1>4, SameItems
<1> QED BY <1>1, <1>5 DEF Relay

(* The tables. *)

(* A topic or frame that is declared gets one of its values.                 *)
LEMMA DefaultOfTopic ==
  ASSUME NEW n \in Declared, NEW c, Table(c), Argument(n) \in DOMAIN Named,
         n \in DOMAIN Refers => Refers[n] \subseteq DOMAIN c
  PROVE  Default(n, c) \in Named[Argument(n)]
<1>1. n \in {"nav2_namespace", "namespace", "frame_id", "map_frame_id", "map_topic", "rgb_topic", "depth_topic",
             "stereo_namespace", "left_image_topic", "right_image_topic", "rgbd_topic",
             "odom_topic", "vo_frame_id", "rgbd_topic_relay"}
  BY DEF Argument, Named
<1>2. CASE n = "nav2_namespace"
  BY <1>2 DEF Default, Argument, Named, TruckDefault, LiteralDefault, Refers
<1>3. CASE n \in {"namespace", "frame_id", "map_frame_id", "map_topic", "rgb_topic", "depth_topic",
                  "stereo_namespace", "rgbd_topic", "odom_topic"}
  <2>1. n \in DOMAIN LiteralDefault /\ LiteralDefault[n] \in Named[n]
    BY <1>3 DEF LiteralDefault, Named
  <2>2. n \notin DOMAIN TruckDefault /\ n \notin DOMAIN Refers
        /\ n # "nav2_namespace" /\ n # "unite_imu_method"
    BY <1>3 DEF TruckDefault, Refers
  <2> QED BY <2>1, <2>2 DEF Default, Argument
<1>4. CASE n \in {"left_image_topic", "right_image_topic", "vo_frame_id", "rgbd_topic_relay"}
  <2>1. n \in DOMAIN Refers /\ n \notin DOMAIN TruckDefault /\ n \notin DOMAIN LiteralDefault
        /\ n # "nav2_namespace" /\ n # "unite_imu_method"
    BY <1>4 DEF TruckDefault, LiteralDefault, Refers
  <2>2. Default(n, c) = Derived(n, c) /\ Argument(n) = n
    BY <2>1 DEF Default, Argument
  <2>3. CASE n = "left_image_topic"
    <3>1. c.stereo_namespace = <<"/", "stereo_camera">>
      BY <2>1, <2>3 DEF Refers, Table, Named
    <3>2. Derived(n, c) = <<"/", "stereo_camera">> \o <<"left", "image">>
      BY <2>3, <3>1 DEF Derived
    <3>3. <<"/", "stereo_camera">> \o <<"left", "image">> = <<"/", "stereo_camera", "left", "image">>
      BY JoinPairs
    <3> QED BY <2>2, <2>3, <3>2, <3>3 DEF Named
  <2>4. CASE n = "right_image_topic"
    <3>1. c.stereo_namespace = <<"/", "stereo_camera">>
      BY <2>1, <2>4 DEF Refers, Table, Named
    <3>2. Derived(n, c) = <<"/", "stereo_camera">> \o <<"right", "image">>
      BY <2>4, <3>1 DEF Derived
    <3>3. <<"/", "stereo_camera">> \o <<"right", "image">> = <<"/", "stereo_camera", "right", "image">>
      BY JoinPairs
    <3> QED BY <2>2, <2>4, <3>2, <3>3 DEF Named
  <2>5. CASE n = "vo_frame_id"
    <3>1. c.odom_topic = <<"odom">>
      BY <2>1, <2>5 DEF Refers, Table, Named
    <3> QED BY <2>2, <2>5, <3>1 DEF Derived, Named
  <2>6. CASE n = "rgbd_topic_relay"
    <3>1. c.rgbd_topic = <<"rgbd_image">>
      BY <2>1, <2>6 DEF Refers, Table, Named
    <3>2. Relay(<<"rgbd_image">>) = <<"rgbd_image", "_relay">>
      BY RelayOfOne
    <3>3. Derived(n, c) \in {<<"rgbd_image">>, <<"rgbd_image", "_relay">>}
      BY <2>6, <3>1, <3>2 DEF Derived, ConditionalText
    <3> QED BY <2>2, <2>6, <3>3 DEF Named
  <2> QED BY <1>4, <2>3, <2>4, <2>5, <2>6
<1> QED BY <1>1, <1>2, <1>3, <1>4

(* A republished topic is declared after the switch it follows.              *)
LEMMA DefaultOfRelay ==
  ASSUME NEW n \in DOMAIN Republisher, NEW c, Table(c), Refers[n] \subseteq DOMAIN c
  PROVE  /\ "compressed" \in DOMAIN c
         /\ TakenAsTrue(c.compressed) => Republishes(Default(n, c), Republisher[n])
<1>1. /\ n \in DOMAIN Refers /\ n \notin DOMAIN TruckDefault /\ n \notin DOMAIN LiteralDefault
      /\ n # "nav2_namespace" /\ n # "unite_imu_method" /\ "compressed" \in DOMAIN c
  BY DEF Republisher, TruckDefault, LiteralDefault, Refers
<1>2. Default(n, c) = Derived(n, c)
  BY <1>1 DEF Default
<1>3. SUFFICES ASSUME TakenAsTrue(c.compressed)
               PROVE  Republishes(Derived(n, c), Republisher[n])
  BY <1>1, <1>2
<1>4. CASE n = "rgb_topic_relay"
  <2>1. c.rgb_topic \in Named.rgb_topic
    BY <1>4 DEF Refers, Table, Named
  <2>2. Derived(n, c) = Relay(c.rgb_topic) /\ Republisher[n] = "republish_rgb"
    BY <1>3, <1>4 DEF Derived, ConditionalText, Republisher
  <2> QED BY <2>1, <2>2, RelayWords
<1>5. CASE n = "depth_topic_relay"
  <2>1. c.depth_topic \in Named.depth_topic
    BY <1>5 DEF Refers, Table, Named
  <2>2. Derived(n, c) = Relay(c.depth_topic) /\ Republisher[n] = "republish_depth"
    BY <1>3, <1>5 DEF Derived, ConditionalText, Republisher
  <2> QED BY <2>1, <2>2, RelayWords
<1>6. CASE n = "left_image_topic_relay"
  <2>1. c.left_image_topic \in Named.left_image_topic
    BY <1>6 DEF Refers, Table, Named
  <2>2. Derived(n, c) = Relay(c.left_image_topic) /\ Republisher[n] = "republish_left"
    BY <1>3, <1>6 DEF Derived, ConditionalText, Republisher
  <2> QED BY <2>1, <2>2, RelayWords
<1>7. CASE n = "right_image_topic_relay"
  <2>1. c.right_image_topic \in Named.right_image_topic
    BY <1>7 DEF Refers, Table, Named
  <2>2. Derived(n, c) = Relay(c.right_image_topic) /\ Republisher[n] = "republish_right"
    BY <1>3, <1>7 DEF Derived, ConditionalText, Republisher
  <2> QED BY <2>1, <2>2, RelayWords
<1> QED BY <1>4, <1>5, <1>6, <1>7 DEF Republisher

LEMMA DeclareTable ==
  ASSUME NEW n \in Declared, NEW c, Table(c), n \in DOMAIN Refers => Refers[n] \subseteq DOMAIN c
  PROVE  Table(Defaulted(c, Argument(n), Default(n, c)))
<1> DEFINE a == Argument(n)
           v == Default(n, c)
           d == Defaulted(c, a, v)
<1>1. a \in DOMAIN Named => v \in Named[a]
  BY DefaultOfTopic
<1>2. a \in DOMAIN Republisher =>
        /\ "compressed" \in DOMAIN c
        /\ TakenAsTrue(c.compressed) => Republishes(v, Republisher[a])
  <2> SUFFICES ASSUME a \in DOMAIN Republisher
               PROVE  /\ "compressed" \in DOMAIN c
                      /\ TakenAsTrue(c.compressed) => Republishes(v, Republisher[a])
    OBVIOUS
  <2>1. n = a /\ n \in DOMAIN Refers
    BY DEF Argument, Republisher, Refers
  <2> QED BY <2>1, DefaultOfRelay
<1>3. /\ DOMAIN d = DOMAIN c \cup {a}
      /\ \A b \in DOMAIN c : d[b] = c[b]
      /\ a \notin DOMAIN c => d[a] = v
  BY DEF Defaulted
<1> HIDE DEF a, v, d
<1>4. \A b \in DOMAIN d \cap DOMAIN Named : d[b] \in Named[b]
  <2> SUFFICES ASSUME NEW b \in DOMAIN d \cap DOMAIN Named PROVE d[b] \in Named[b]
    OBVIOUS
  <2>1. CASE b \in DOMAIN c
    BY <1>3, <2>1 DEF Table
  <2>2. CASE b \notin DOMAIN c
    BY <1>1, <1>3, <2>2
  <2> QED BY <2>1, <2>2
<1>5. \A b \in DOMAIN d \cap DOMAIN Republisher :
        /\ "compressed" \in DOMAIN d
        /\ TakenAsTrue(d.compressed) => Republishes(d[b], Republisher[b])
  <2> SUFFICES ASSUME NEW b \in DOMAIN d \cap DOMAIN Republisher
               PROVE  /\ "compressed" \in DOMAIN d
                      /\ TakenAsTrue(d.compressed) => Republishes(d[b], Republisher[b])
    OBVIOUS
  <2>1. CASE b \in DOMAIN c
    <3>1. "compressed" \in DOMAIN c /\ (TakenAsTrue(c.compressed) => Republishes(c[b], Republisher[b]))
      BY <2>1 DEF Table
    <3>2. "compressed" \in DOMAIN d /\ d.compressed = c.compressed /\ d[b] = c[b]
      BY <1>3, <2>1, <3>1
    <3> QED BY <3>1, <3>2
  <2>2. CASE b \notin DOMAIN c
    <3>1. b = a /\ d[b] = v
      BY <1>3, <2>2
    <3>2. "compressed" \in DOMAIN c /\ (TakenAsTrue(c.compressed) => Republishes(v, Republisher[b]))
      BY <1>2, <3>1
    <3>3. "compressed" \in DOMAIN d /\ d.compressed = c.compressed
      BY <1>3, <3>2
    <3> QED BY <3>1, <3>2, <3>3
  <2> QED BY <2>1, <2>2
<1> QED BY <1>4, <1>5 DEF Table, d, a, v

LEMMA PassedTable ==
  ASSUME NEW e \in PassedOn, NEW c, Table(c), DOMAIN c \cap DOMAIN Republisher = {}
  PROVE  Table(Assigned(c, e.name, e.value))
<1>1. /\ e.name \in DOMAIN Named => e.value \in Named[e.name]
      /\ e.name \notin DOMAIN Republisher
  <2>1. \A i \in 1..Len(RealsenseArguments) :
          /\ RealsenseArguments[i].name \in DOMAIN Named =>
               RealsenseArguments[i].value \in Named[RealsenseArguments[i].name]
          /\ RealsenseArguments[i].name \notin DOMAIN Republisher
    BY DEF RealsenseArguments, Named, Republisher
  <2>2. PICK i \in 1..Len(RealsenseArguments) : e = Put(RealsenseArguments[i])
    BY DEF PassedOn
  <2>3. e.name = RealsenseArguments[i].name /\ e.value = RealsenseArguments[i].value
    BY <2>2 DEF Put
  <2> QED BY <2>1, <2>3
<1>2. PICK n, v : n = e.name /\ v = e.value
  OBVIOUS
<1> DEFINE d == Assigned(c, n, v)
<1>3. /\ DOMAIN d = DOMAIN c \cup {n} /\ d[n] = v
      /\ \A b \in DOMAIN c : b # n => d[b] = c[b]
  BY DEF Assigned
<1> HIDE DEF d
<1>4. Table(d)
  BY <1>1, <1>2, <1>3 DEF Table
<1> QED BY <1>2, <1>4 DEF d

(* Nothing in the files is written 'True'.                                   *)
LEMMA DeclarePlain ==
  ASSUME NEW n \in Declared, NEW c, Plain(c), n \in DOMAIN Refers => Refers[n] \subseteq DOMAIN c
  PROVE  Plain(Defaulted(c, Argument(n), Default(n, c)))
<1>1. Argument(n) \in Switches => Default(n, c) # "True"
  <2> SUFFICES ASSUME Argument(n) \in Switches PROVE Default(n, c) # "True"
    OBVIOUS
  <2>1. n \in Switches /\ Argument(n) = n
    BY DEF Argument, Switches
  <2>2. n \in {"remap_odometry_tf", "stereo", "rviz", "rtabmap_viz", "rgbd_sync", "subscribe_rgbd",
               "compressed", "visual_odometry", "icp_odometry", "wait_imu_to_init", "depth"}
    BY <2>1 DEF Declared, Switches, TruckDefault, LiteralDefault, Refers
  <2>3. CASE n = "remap_odometry_tf"
    BY <2>3 DEF Default, TruckDefault, LiteralDefault, Refers
  <2>4. CASE n \in {"stereo", "rviz", "rtabmap_viz", "rgbd_sync",
                    "compressed", "visual_odometry", "icp_odometry", "wait_imu_to_init"}
    <3>1. n \in DOMAIN LiteralDefault /\ LiteralDefault[n] \in {"true", "false"}
      BY <2>4 DEF LiteralDefault
    <3>2. n \notin DOMAIN TruckDefault /\ n \notin DOMAIN Refers
          /\ n # "nav2_namespace" /\ n # "unite_imu_method"
      BY <2>4 DEF TruckDefault, Refers
    <3> QED BY <3>1, <3>2 DEF Default
  <2>5. CASE n = "subscribe_rgbd"
    <3>1. "rgbd_sync" \in DOMAIN c \cap Switches
      BY <2>5 DEF Refers, Switches
    <3>2. c.rgbd_sync # "True"
      BY <3>1 DEF Plain
    <3>3. Default(n, c) = c.rgbd_sync
      BY <2>5 DEF Default, TruckDefault, LiteralDefault, Refers, Derived
    <3> QED BY <3>2, <3>3
  <2>6. CASE n = "depth"
    <3>1. Default(n, c) = IF IsTrue(c.stereo) THEN "false" ELSE "true"
      BY <2>6 DEF Default, TruckDefault, LiteralDefault, Refers, Derived
    <3> QED BY <3>1
  <2> QED BY <2>2, <2>3, <2>4, <2>5, <2>6
<1>2. PICK a, v : a = Argument(n) /\ v = Default(n, c)
  OBVIOUS
<1>3. Plain(Defaulted(c, a, v))
  BY <1>1, <1>2 DEF Plain, Defaulted
<1> QED BY <1>2, <1>3

LEMMA PassedPlain ==
  ASSUME NEW e \in PassedOn, NEW c, Plain(c)
  PROVE  Plain(Assigned(c, e.name, e.value))
<1>1. e.name \in Switches => e.value # "True"
  BY DEF PassedOn, Put, RealsenseArguments, Switches
<1> QED BY <1>1 DEF Plain, Assigned

(* What is ahead. *)

LEMMA FitsKinds ==
  ASSUME NEW l, NEW e \in Fits(l)
  PROVE  /\ e.do = "declare" => e.name \in Declared
         /\ e.do = "set" => e \in PassedOn
         /\ e.do = "include" => e.name \in Files(l)
         /\ e.do = "start" => e.name \in Crew(l)
         /\ e.do = "register" => l = "truck"
<1>1. \A p \in PassedOn : p.do = "set"
  BY DEF PassedOn, Put
<1>2. CASE e \in {Declare(n) : n \in Declared}
  BY <1>2 DEF Declare
<1>3. CASE e \in {Include(f) : f \in Files(l)}
  BY <1>3 DEF Include
<1>4. CASE e \in {Start(n) : n \in Crew(l)}
  BY <1>4 DEF Start
<1>5. CASE e = SpawnedAfter /\ l = "truck"
  BY <1>5 DEF SpawnedAfter, OnProcessExit
<1>6. CASE e \in PassedOn
  BY <1>1, <1>6
<1> QED BY <1>2, <1>3, <1>4, <1>5, <1>6 DEF Fits

LEMMA SettledTail ==
  ASSUME NEW S, NEW T \in Seq(S), T # <<>>, Settled(T)
  PROVE  /\ Settled(Tail(T))
         /\ Relies(Head(T)) => NothingSetOver(Tail(T))
         /\ NothingSetOver(T) => NothingSetOver(Tail(T))
<1>1. /\ Len(Tail(T)) = Len(T) - 1 /\ Len(T) \in Nat \ {0}
      /\ \A i \in 1..Len(Tail(T)) : Tail(T)[i] = T[i + 1]
      /\ Head(T) = T[1]
  BY TailItems
<1>2. \A i \in 1..Len(Tail(T)) : i + 1 \in 1..Len(T) /\ 1 < i + 1 /\ 1 \in 1..Len(T)
  BY <1>1
<1>3. \A i, j \in 1..Len(Tail(T)) : i < j => i + 1 < j + 1
  OBVIOUS
<1> QED BY <1>1, <1>2, <1>3 DEF Settled, NothingSetOver

Idle(T) == \A i \in 1..Len(T) : ~Relies(T[i])

LEMMA SettledInclude ==
  ASSUME NEW S, NEW T \in Seq(S), T # <<>>, Settled(T), NEW F \in Seq(S), Settled(F),
         Head(T).do = "include",
         Head(T).name = "rtabmap" \/ (Idle(F) /\ NothingSetOver(F))
  PROVE  /\ Settled(F \o Tail(T))
         /\ NothingSetOver(T) => NothingSetOver(F \o Tail(T))
<1> DEFINE U == Tail(T)
<1>1. U \in Seq(S) /\ Head(T) = T[1] /\ Len(T) \in Nat \ {0}
  BY TailItems
<1>2. /\ Settled(U) /\ (Relies(Head(T)) => NothingSetOver(U))
      /\ NothingSetOver(T) => NothingSetOver(U)
  BY SettledTail
<1> HIDE DEF U
<1>3. /\ Len(F \o U) = Len(F) + Len(U) /\ Len(F) \in Nat /\ Len(U) \in Nat
      /\ \A i \in 1..Len(F) : (F \o U)[i] = F[i]
      /\ \A i \in 1..Len(U) : (F \o U)[Len(F) + i] = U[i]
  BY ONLY <1>1, F \in Seq(S), JoinItems
<1>4. \A i \in 1..Len(F \o U) :
        \/ i \in 1..Len(F) /\ (F \o U)[i] = F[i]
        \/ i > Len(F) /\ \E k \in 1..Len(U) : i = Len(F) + k /\ (F \o U)[i] = U[k]
  <2> SUFFICES ASSUME NEW i \in 1..Len(F \o U), i \notin 1..Len(F)
               PROVE  i > Len(F) /\ \E k \in 1..Len(U) : i = Len(F) + k /\ (F \o U)[i] = U[k]
    BY <1>3
  <2>1. i > Len(F) /\ i - Len(F) \in 1..Len(U) /\ i = Len(F) + (i - Len(F))
    BY <1>3
  <2> QED BY <1>3, <2>1
<1>5. Settled(F \o U)
  <2> SUFFICES ASSUME NEW i \in 1..Len(F \o U), NEW j \in 1..Len(F \o U), i < j,
                      Relies((F \o U)[i])
               PROVE  ~SetsOver((F \o U)[j])
    BY DEF Settled
  <2>1. CASE i \in 1..Len(F) /\ j \in 1..Len(F)
    BY <1>3, <2>1 DEF Settled
  <2>2. CASE i \in 1..Len(F) /\ j \notin 1..Len(F)
    <3>1. PICK k \in 1..Len(U) : (F \o U)[j] = U[k]
      BY <1>4, <2>2
    <3>2. Relies(F[i])
      BY <1>3, <2>2
    <3>3. Relies(Head(T))
      BY <2>2, <3>2 DEF Idle, Relies
    <3> QED BY <1>2, <3>1, <3>3 DEF NothingSetOver
  <2>3. CASE i \notin 1..Len(F)
    <3>1. PICK k \in 1..Len(U) : i = Len(F) + k /\ (F \o U)[i] = U[k]
      BY <1>4, <2>3
    <3>2. PICK m \in 1..Len(U) : j = Len(F) + m /\ (F \o U)[j] = U[m]
      <4>1. j \notin 1..Len(F)
        BY <1>3, <2>3
      <4> QED BY <1>4, <4>1
    <3>3. k < m
      BY <1>3, <3>1, <3>2
    <3> QED BY <1>2, <3>1, <3>2, <3>3 DEF Settled
  <2> QED BY <2>1, <2>2, <2>3
<1>6. ASSUME NothingSetOver(T) PROVE NothingSetOver(F \o U)
  <2>1. ~SetsOver(Head(T))
    BY <1>1, <1>6 DEF NothingSetOver
  <2>2. NothingSetOver(F)
    BY <2>1 DEF SetsOver
  <2> SUFFICES ASSUME NEW i \in 1..Len(F \o U) PROVE ~SetsOver((F \o U)[i])
    BY DEF NothingSetOver
  <2> QED BY <1>2, <1>4, <1>6, <2>2 DEF NothingSetOver
<1> QED BY <1>5, <1>6 DEF U

(* The content of the files.                                                 *)
LEMMA DeclareList ==
  ASSUME NEW T \in Seq(Declared), NEW S, {Declare(n) : n \in Declared} \subseteq S
  PROVE  Each(Declare, T) \in Seq(S)
<1>1. PICK D : D = Each(Declare, T)
  OBVIOUS
<1>2. D = [i \in 1..Len(T) |-> Declare(T[i])]
  BY <1>1 DEF Each
<1>3. \A i \in 1..Len(T) : Declare(T[i]) \in S
  OBVIOUS
<1>4. D \in Seq(S)
  BY <1>2, <1>3
<1> QED BY <1>1, <1>4

LEMMA StartList ==
  ASSUME NEW N, NEW T \in Seq(N), NEW S, {Start(n) : n \in N} \subseteq S
  PROVE  Each(Start, T) \in Seq(S)
<1>1. PICK D : D = Each(Start, T)
  OBVIOUS
<1>2. D = [i \in 1..Len(T) |-> Start(T[i])]
  BY <1>1 DEF Each
<1>3. \A i \in 1..Len(T) : Start(T[i]) \in S
  OBVIOUS
<1>4. D \in Seq(S)
  BY <1>2, <1>3
<1> QED BY <1>1, <1>4

Calm == {e \in Known : ~SetsOver(e)}

LEMMA CalmList ==
  ASSUME NEW T \in Seq(Calm)
  PROVE  NothingSetOver(T) /\ Settled(T)
BY DEF Calm, NothingSetOver, Settled

LEMMA CalmItems ==
  /\ {Declare(n) : n \in Declared} \subseteq Calm
  /\ {Start(n) : n \in Processes} \subseteq Calm
  /\ SpawnedAfter \in Calm
  /\ \A f \in Included \ {"rtabmap"} : Include(f) \in Calm
<1>1. {Declare(n) : n \in Declared} \subseteq Calm
  BY DEF Calm, Known, SetsOver, Declare
<1>2. {Start(n) : n \in Processes} \subseteq Calm
  BY DEF Calm, Known, SetsOver, Start
<1>3. SpawnedAfter \in Calm
  <2>1. SpawnedAfter \in Known
    BY DEF Known
  <2>2. ~SetsOver(SpawnedAfter)
    BY DEF SetsOver, SpawnedAfter, OnProcessExit
  <2> QED BY <2>1, <2>2 DEF Calm
<1>4. \A f \in Included \ {"rtabmap"} : Include(f) \in Calm
  BY DEF Calm, Known, SetsOver, Include
<1> QED BY <1>1, <1>2, <1>3, <1>4

LEMMA RtabmapList ==
  ASSUME NEW S, {Declare(n) : n \in Declared} \subseteq S, {Start(n) : n \in RtabmapNames} \subseteq S
  PROVE  Entities("rtabmap") \in Seq(S)
<1> DEFINE A == Each(Declare, DeclaredArguments)
           B == Each(Declare, SetupArguments)
           C == Each(Start, RtabmapNodes)
<1>1. DeclaredArguments \in Seq(Declared) /\ SetupArguments \in Seq(Declared)
  <2>1. DeclaredArguments \in Seq(Declared)
    BY DeclaredBefore DEF DeclaredArguments
  <2>2. SetupArguments \in Seq(Declared)
    BY SetupAfter DEF SetupArguments
  <2> QED BY <2>1, <2>2
<1>2. RtabmapNodes \in Seq(RtabmapNames)
  <2>1. DOMAIN RtabmapNodes = 1..Len(RtabmapNodes) /\ Len(RtabmapNodes) = 14
        /\ RtabmapNodes = [i \in 1..14 |-> RtabmapNodes[i]]
    BY DEF RtabmapNodes
  <2>2. \A i \in 1..14 : RtabmapNodes[i] \in RtabmapNames
    BY <2>1 DEF RtabmapNames
  <2> QED BY <2>1, <2>2
<1>3. A \in Seq(S) /\ B \in Seq(S)
  BY <1>1, DeclareList
<1>4. C \in Seq(S)
  BY <1>2, StartList
<1> HIDE DEF A, B, C
<1>5. (A \o B) \o C \in Seq(S)
  BY <1>3, <1>4
<1>6. Entities("rtabmap") = (A \o B) \o C
  BY DEF Entities, A, B, C
<1> QED BY <1>5, <1>6

LEMMA TruckList ==
  ASSUME NEW S, {Declare(n) : n \in Declared} \subseteq S,
         {Start(n) : n \in Crew("truck")} \subseteq S, SpawnedAfter \in S
  PROVE  Entities("truck") \in Seq(S)
<1> DEFINE A == Each(Declare, TruckArguments)
           U == <<Start("control_node"), Start("robot_state_publisher"),
                  Start("robot_controller_spawner"), Start("gpio_controller_spawner"),
                  SpawnedAfter, Start("velocity_controller_spawner")>>
<1>1. TruckArguments \in Seq(Declared)
  BY DEF TruckArguments, Declared, TruckDefault
<1>2. A \in Seq(S)
  BY <1>1, DeclareList
<1>3. U \in Seq(S)
  <2>1. Crew("truck") = {"control_node", "robot_state_publisher"} \cup DOMAIN Spawned
    BY DEF Crew
  <2>2. /\ Start("control_node") \in S /\ Start("robot_state_publisher") \in S
        /\ Start("robot_controller_spawner") \in S /\ Start("gpio_controller_spawner") \in S
        /\ Start("velocity_controller_spawner") \in S
    BY <2>1 DEF Spawned
  <2> QED BY <2>2
<1>4. Entities("truck") = A \o U
  BY DEF Entities, TruckFile, SpawnedAfter
<1> HIDE DEF A, U
<1>5. A \o U \in Seq(S)
  BY ONLY <1>2, <1>3, JoinItems
<1> QED BY <1>4, <1>5

LEMMA ViewList ==
  ASSUME NEW S, {Declare(n) : n \in Declared} \subseteq S, {Start(n) : n \in Crew("view")} \subseteq S
  PROVE  Entities("view") \in Seq(S)
<1> DEFINE A == Each(Declare, ViewArguments)
           U == <<Start("joint_state_publisher_gui"), Start("view_state_publisher")>>
<1>1. ViewArguments \in Seq(Declared)
  BY DEF ViewArguments, Declared, TruckDefault
<1>2. A \in Seq(S)
  BY <1>1, DeclareList
<1>3. U \in Seq(S)
  BY DEF Crew
<1>4. Entities("view") = A \o U
  BY DEF Entities, ViewFile
<1> HIDE DEF A, U
<1>5. A \o U \in Seq(S)
  BY ONLY <1>2, <1>3, JoinItems
<1> QED BY <1>4, <1>5

LEMMA CameraList ==
  ASSUME NEW S, {Declare(n) : n \in Declared} \subseteq S, {Start(n) : n \in Crew("camera")} \subseteq S,
         Include("rs_launch") \in S
  PROVE  Entities("camera") \in Seq(S)
<1>1. Entities("camera") = <<Declare("unite_imu_method"), Include("rs_launch"), Start("imu_filter")>>
  BY DEF Entities, CameraFile
<1>2. Declare("unite_imu_method") \in S /\ Start("imu_filter") \in S
  BY DEF Declared, Crew
<1>3. \A p, q, r \in S : <<p, q, r>> \in Seq(S)
  OBVIOUS
<1> QED BY <1>1, <1>2, <1>3

LEMMA OtherItems ==
  ASSUME NEW K, NEW T \in Seq(K), NEW S, \A i \in 1..Len(T) : T[i] \in S
  PROVE  T \in Seq(S)
OBVIOUS

LEMMA RealsenseList ==
  /\ Entities("realsense") \in Seq(Fits("realsense"))
  /\ Settled(Entities("realsense"))
<1> DEFINE D == <<Declare("unite_imu_method")>>
           U == Each(Include, IncludedFiles)
           S == Fits("realsense")
           T == D \o U
<1>0. /\ Declare("unite_imu_method") \in S /\ Include("nav2") \in S /\ Include("rtabmap") \in S
      /\ Include("nav2_rviz") \in S
  <2>1. Files("realsense") = {"nav2", "rtabmap", "nav2_rviz"}
    BY DEF Files
  <2> QED BY <2>1 DEF Fits, Declared
<1> HIDE DEF S
<1>1. D \in Seq(S) /\ Len(D) = 1 /\ D[1] = Declare("unite_imu_method")
  BY <1>0
<1>2. U \in Seq(S) /\ Len(U) = 3
      /\ U[1] = Include("nav2") /\ U[2] = Include("rtabmap") /\ U[3] = Include("nav2_rviz")
  <2>1. IncludedFiles \in Seq(Included) /\ Len(IncludedFiles) = 3
        /\ IncludedFiles[1] = "nav2" /\ IncludedFiles[2] = "rtabmap" /\ IncludedFiles[3] = "nav2_rviz"
    BY DEF IncludedFiles, Included
  <2> HIDE DEF U
  <2>2. U \in Seq(Known) /\ Len(U) = 3 /\ \A i \in 1..3 : U[i] = Include(IncludedFiles[i])
    BY <2>1, IncludeItems DEF U, Include
  <2>3. U[1] = Include("nav2") /\ U[2] = Include("rtabmap") /\ U[3] = Include("nav2_rviz")
    BY <2>1, <2>2
  <2>4. \A i \in 1..Len(U) : U[i] \in S
    BY <1>0, <2>2, <2>3
  <2>5. U \in Seq(S)
    BY ONLY <2>2, <2>4, OtherItems
  <2> QED BY <2>2, <2>3, <2>5
<1> HIDE DEF D, U
<1>3. T \in Seq(S) /\ Len(T) = 4 /\ T[1] = D[1]
      /\ T[2] = U[1] /\ T[3] = U[2] /\ T[4] = U[3]
  <2>1. /\ T \in Seq(S) /\ Len(T) = Len(D) + Len(U)
        /\ \A i \in 1..Len(D) : T[i] = D[i]
        /\ \A i \in 1..Len(U) : T[Len(D) + i] = U[i]
    <3>1. D \in Seq(S) /\ U \in Seq(S)
      BY <1>1, <1>2
    <3> QED BY ONLY <3>1, JoinItems
  <2> HIDE DEF T
  <2>2. T[1 + 1] = U[1] /\ T[1 + 2] = U[2] /\ T[1 + 3] = U[3] /\ T[1] = D[1]
    BY <1>1, <1>2, <2>1
  <2> QED BY <1>1, <1>2, <2>1, <2>2
<1>4. Entities("realsense") = T
  BY DEF Entities, RealsenseFile, D, U
<1> HIDE DEF T
<1>5. Settled(T)
  <2>1. /\ ~Relies(Declare("unite_imu_method")) /\ ~Relies(Include("nav2"))
        /\ ~SetsOver(Include("nav2_rviz"))
    BY DEF Relies, SetsOver, Declare, Include, Republisher
  <2> SUFFICES ASSUME NEW i \in 1..Len(T), NEW j \in 1..Len(T), i < j, Relies(T[i])
               PROVE  ~SetsOver(T[j])
    BY DEF Settled
  <2>2. i # 1 /\ i # 2
    BY <1>1, <1>2, <1>3, <2>1
  <2>3. j = 4
    BY <1>3, <2>2
  <2> QED BY <1>2, <1>3, <2>1, <2>3
<1> QED BY <1>3, <1>4, <1>5 DEF S

LEMMA CrewsAre ==
  /\ \A l \in LaunchFiles : Crew(l) \subseteq Processes
  /\ Crew("rtabmap") = RtabmapNames /\ Crew("realsense") = RtabmapNames \cup {"nav2", "nav2_rviz"}
  /\ Crew("camera") = {"realsense2_camera", "imu_filter"}
  /\ Crew("truck") = {"control_node", "robot_state_publisher"} \cup DOMAIN Spawned
  /\ Crew("view") = {"joint_state_publisher_gui", "view_state_publisher"}
<1>1. /\ Crew("rtabmap") = RtabmapNames /\ Crew("realsense") = RtabmapNames \cup {"nav2", "nav2_rviz"}
      /\ Crew("camera") = {"realsense2_camera", "imu_filter"}
      /\ Crew("truck") = {"control_node", "robot_state_publisher"} \cup DOMAIN Spawned
      /\ Crew("view") = {"joint_state_publisher_gui", "view_state_publisher"}
  BY DEF Crew
<1> QED BY <1>1 DEF Processes, RtabmapNames, LaunchFiles

(* What ros2 launch is started with.                                         *)
LEMMA LaunchAhead ==
  ASSUME NEW l \in LaunchFiles
  PROVE  Entities(l) \in Seq(Fits(l)) /\ Settled(Entities(l))
<1>1. {Declare(n) : n \in Declared} \subseteq Fits(l) /\ {Start(n) : n \in Crew(l)} \subseteq Fits(l)
  BY DEF Fits
<1>2. {Declare(n) : n \in Declared} \subseteq Calm /\ {Start(n) : n \in Crew(l)} \subseteq Calm
  BY CalmItems, CrewsAre
<1>3. CASE l = "rtabmap"
  BY <1>1, <1>2, <1>3, RtabmapList, CalmList, CrewsAre
<1>4. CASE l = "truck"
  <2>1. SpawnedAfter \in Fits(l)
    BY <1>4 DEF Fits
  <2> QED BY <1>1, <1>2, <1>4, <2>1, TruckList, CalmList, CalmItems
<1>5. CASE l = "view"
  BY <1>1, <1>2, <1>5, ViewList, CalmList
<1>6. CASE l = "camera"
  <2>1. Include("rs_launch") \in Fits(l) /\ Include("rs_launch") \in Calm
    BY <1>6, CalmItems DEF Fits, Files, Included
  <2> QED BY <1>1, <1>2, <1>6, <2>1, CameraList, CalmList
<1>7. CASE l = "realsense"
  BY <1>7, RealsenseList
<1> QED BY <1>3, <1>4, <1>5, <1>6, <1>7 DEF LaunchFiles

(* What is included.                                                         *)
LEMMA IncludeAhead ==
  ASSUME NEW l \in LaunchFiles, NEW f \in Files(l), NEW F, F = Passed(f) \o Entities(f)
  PROVE  /\ F \in Seq(Fits(l)) /\ Settled(F)
         /\ f = "rtabmap" \/ (Idle(F) /\ NothingSetOver(F))
<1>1. /\ {Declare(n) : n \in Declared} \subseteq Fits(l) /\ {Start(n) : n \in Crew(l)} \subseteq Fits(l)
      /\ PassedOn \subseteq Fits(l)
  BY DEF Fits
<1>2. CASE f = "rtabmap"
  <2> DEFINE P == Each(Put, RealsenseArguments)
             U == Entities("rtabmap")
  <2>1. F = P \o U
    BY <1>2 DEF Passed
  <2>2. RtabmapNames \subseteq Crew(l)
    BY <1>2, CrewsAre DEF Files, LaunchFiles
  <2>3. U \in Seq(Fits(l))
    BY <1>1, <2>2, RtabmapList
  <2>4. U \in Seq(Calm)
    <3>1. {Start(n) : n \in RtabmapNames} \subseteq Calm
      BY CalmItems DEF Processes, RtabmapNames
    <3> QED BY <3>1, CalmItems, RtabmapList
  <2> HIDE DEF U
  <2>5. P \in Seq(PassedOn) /\ Idle(P)
    <3>1. DOMAIN RealsenseArguments = 1..9 /\ Len(RealsenseArguments) = 9
      BY DEF RealsenseArguments
    <3>2. PICK D : D = P
      OBVIOUS
    <3>3. D = [i \in 1..Len(RealsenseArguments) |-> Put(RealsenseArguments[i])]
      BY <3>1, <3>2 DEF Each
    <3>4. \A i \in 1..Len(RealsenseArguments) : Put(RealsenseArguments[i]) \in PassedOn
      BY DEF PassedOn
    <3>5. D \in Seq(PassedOn) /\ Len(D) = Len(RealsenseArguments)
      BY <3>1, <3>3, <3>4
    <3>6. \A i \in 1..Len(RealsenseArguments) : D[i].do = "set"
      BY <3>3 DEF Put
    <3>7. Idle(D)
      BY <3>5, <3>6 DEF Idle, Relies
    <3> HIDE DEF P
    <3> QED BY <3>2, <3>5, <3>7
  <2> HIDE DEF P
  <2>6. F \in Seq(Fits(l))
    <3>1. P \in Seq(Fits(l))
      BY <1>1, <2>5
    <3> QED BY <2>1, <2>3, <3>1
  <2>7. /\ Len(P \o U) = Len(P) + Len(U) /\ Len(P) \in Nat /\ Len(U) \in Nat
        /\ \A i \in 1..Len(P) : (P \o U)[i] = P[i]
        /\ \A i \in 1..Len(U) : (P \o U)[Len(P) + i] = U[i]
    <3>1. P \in Seq(Known \cup PassedOn) /\ U \in Seq(Known \cup PassedOn)
      BY <2>4, <2>5 DEF Calm
    <3> QED BY ONLY <3>1, JoinItems
  <2>8. Settled(P \o U)
    <3> SUFFICES ASSUME NEW i \in 1..Len(P \o U), NEW j \in 1..Len(P \o U), i < j,
                        Relies((P \o U)[i])
                 PROVE  ~SetsOver((P \o U)[j])
      BY DEF Settled
    <3>1. i \notin 1..Len(P)
      BY <2>5, <2>7 DEF Idle
    <3>2. j - Len(P) \in 1..Len(U) /\ j = Len(P) + (j - Len(P))
      BY <2>7, <3>1
    <3>3. (P \o U)[j] = U[j - Len(P)]
      BY <2>7, <3>2
    <3> QED BY <2>4, <3>2, <3>3, CalmList DEF NothingSetOver
  <2> QED BY <1>2, <2>1, <2>6, <2>8
<1>3. CASE f # "rtabmap"
  <2> DEFINE U == Entities(f)
  <2>1. F = <<>> \o U
    BY <1>3 DEF Passed
  <2>2. U \in Seq({e \in Fits(l) \cap Calm : ~Relies(e)})
    <3> DEFINE Z == {e \in Fits(l) \cap Calm : ~Relies(e)}
    <3>1. CASE f = "nav2"
      <4>1. U = <<Declare("nav2_namespace"), Start("nav2")>>
        BY <3>1 DEF Entities
      <4>2. "nav2" \in Crew(l) /\ "nav2" \in Processes /\ "nav2_namespace" \in Declared
        BY <3>1, CrewsAre DEF Files, LaunchFiles, Processes, Declared
      <4>3. ~Relies(Declare("nav2_namespace")) /\ ~Relies(Start("nav2"))
        BY RtabmapNamesAre DEF Relies, Declare, Start, Republisher
      <4>4. Declare("nav2_namespace") \in Z /\ Start("nav2") \in Z
        BY <1>1, <4>2, <4>3, CalmItems
      <4> HIDE DEF U, Z
      <4> QED BY <4>1, <4>4 DEF Z
    <3>2. CASE f = "nav2_rviz"
      <4>1. U = <<Start("nav2_rviz")>>
        BY <3>2 DEF Entities
      <4>2. "nav2_rviz" \in Crew(l) /\ "nav2_rviz" \in Processes
        BY <3>2, CrewsAre DEF Files, LaunchFiles, Processes
      <4>3. ~Relies(Start("nav2_rviz"))
        BY RtabmapNamesAre DEF Relies, Start
      <4>4. Start("nav2_rviz") \in Z
        BY <1>1, <4>2, <4>3, CalmItems
      <4> HIDE DEF U, Z
      <4> QED BY <4>1, <4>4 DEF Z
    <3>3. CASE f = "rs_launch"
      <4>1. U = <<Start("realsense2_camera")>>
        BY <3>3 DEF Entities
      <4>2. "realsense2_camera" \in Crew(l) /\ "realsense2_camera" \in Processes
        BY <3>3, CrewsAre DEF Files, LaunchFiles, Processes
      <4>3. ~Relies(Start("realsense2_camera"))
        BY RtabmapNamesAre DEF Relies, Start
      <4>4. Start("realsense2_camera") \in Z
        BY <1>1, <4>2, <4>3, CalmItems
      <4> HIDE DEF U, Z
      <4> QED BY <4>1, <4>4 DEF Z
    <3> QED BY <1>3, <3>1, <3>2, <3>3 DEF Files, LaunchFiles
  <2> HIDE DEF U
  <2>3. F = U
    BY <2>1, <2>2
  <2>4. U \in Seq(Fits(l)) /\ U \in Seq(Calm) /\ Idle(U)
    BY <2>2 DEF Idle
  <2> QED BY <2>3, <2>4, CalmList
<1> QED BY <1>2, <1>3

------------------------------------------------------------------------------
(* The steps, one launch at a time. *)

LEMMA InitPubInv ==
  ASSUME Init, Ordinary
  PROVE  PubInv
<1>1. Launches \subseteq LaunchFiles
  BY SetupsAssumption DEF Init, Launches
<1>2. PlainlyWritten => \A l \in Launches : Plain(conf[l])
  BY DEF Init, PlainlyWritten, Plain
<1>3. ASSUME NEW l \in Launches
      PROVE  Fine(l, todo[l], nodes[l], conf[l], handlers[l])
  <2>1. todo[l] = Entities(l) /\ nodes[l] = {} /\ handlers[l] = {} /\ conf[l] = setup.given[l]
    BY <1>3 DEF Init
  <2>2. DOMAIN conf[l] \cap TopicArguments = {}
    BY <1>3, <2>1 DEF Ordinary
  <2>3. DOMAIN Named \subseteq TopicArguments /\ DOMAIN Republisher \subseteq TopicArguments
    BY DEF Named, Republisher, TopicArguments
  <2>4. Table(conf[l]) /\ ~Late(nodes[l], conf[l])
    BY <2>1, <2>2, <2>3 DEF Table, Late
  <2>5. Running(l, nodes[l], conf[l])
    BY <2>1 DEF Running
  <2>6. Ahead(l, todo[l], nodes[l], conf[l])
    BY <1>1, <1>3, <2>1, <2>4, LaunchAhead DEF Ahead
  <2> QED BY <2>1, <2>4, <2>5, <2>6 DEF Fine
<1> QED BY <1>2, <1>3 DEF PubInv

LEMMA OneLaunch ==
  ASSUME PubInv, NEW l \in Launches, UNCHANGED setup,
         \A k \in Launches : k # l =>
           todo'[k] = todo[k] /\ nodes'[k] = nodes[k] /\ conf'[k] = conf[k] /\ handlers'[k] = handlers[k],
         PlainlyWritten => Plain(conf'[l]),
         Fine(l, todo'[l], nodes'[l], conf'[l], handlers'[l])
  PROVE  PubInv'
<1>1. Launches' = Launches /\ (Ordinary' <=> Ordinary) /\ (PlainlyWritten' <=> PlainlyWritten)
  BY DEF Launches, Ordinary, PlainlyWritten
<1>2. Ordinary'
  BY <1>1 DEF PubInv
<1>3. ASSUME NEW k \in Launches
      PROVE  Fine(k, todo'[k], nodes'[k], conf'[k], handlers'[k])
  BY <1>3 DEF PubInv
<1>4. PlainlyWritten => \A k \in Launches : Plain(conf'[k])
  BY DEF PubInv
<1> QED BY <1>1, <1>2, <1>3, <1>4 DEF PubInv

(* A table that keeps what it has keeps the conditions.                      *)
LEMMA RunningKept ==
  ASSUME NEW l, NEW N, NEW c, NEW d, Running(l, N, c),
         \A a \in DOMAIN c : a \in DOMAIN d /\ d[a] = c[a]
  PROVE  Running(l, N, d)
<1> SUFFICES ASSUME NEW n \in N, n.name \in RtabmapNames
             PROVE  FileArguments \subseteq DOMAIN d /\ Condition(n.name, d)
  BY DEF Running
<1>1. FileArguments \subseteq DOMAIN c /\ Condition(n.name, c)
  BY DEF Running
<1>2. {"stereo", "rgbd_sync", "subscribe_rgbd", "compressed", "icp_odometry", "visual_odometry",
       "rtabmap_viz", "rviz"} \subseteq FileArguments
  BY DEF FileArguments, DeclaredArguments
<1>3. /\ d.stereo = c.stereo /\ d.rgbd_sync = c.rgbd_sync /\ d.subscribe_rgbd = c.subscribe_rgbd
      /\ d.compressed = c.compressed /\ d.icp_odometry = c.icp_odometry
      /\ d.visual_odometry = c.visual_odometry /\ d.rtabmap_viz = c.rtabmap_viz /\ d.rviz = c.rviz
  BY <1>1, <1>2
<1>4. /\ Republished(d) <=> Republished(c)
      /\ Synchronised(d) <=> Synchronised(c)
      /\ VisualOdometry(d) <=> VisualOdometry(c)
  BY <1>3 DEF Republished, Synchronised, VisualOdometry
<1>5. Condition(n.name, d) <=> Condition(n.name, c)
  BY <1>3, <1>4, RtabmapNamesAre DEF Condition
<1> QED BY <1>1, <1>5

LEMMA DeclareArgumentPubInv ==
  ASSUME BringInv, PubInv, NEW l \in Launches, DeclareArgument(l)
  PROVE  PubInv'
<1> DEFINE e == Head(todo[l])
           n == e.name
           c == conf[l]
           d == Defaulted(c, Argument(n), Default(n, c))
<1>1. todo[l] # <<>> /\ e.do = "declare" /\ Reads(e) \subseteq DOMAIN c
  BY DEF DeclareArgument, Next1
<1>2. n \in Declared
  BY <1>1, NextEntity, KnownKinds
<1>3. n \in DOMAIN Refers => Refers[n] \subseteq DOMAIN c
  BY <1>1 DEF Reads
<1>4. /\ conf' = [conf EXCEPT ![l] = d]
      /\ todo' = [todo EXCEPT ![l] = Tail(@)]
      /\ UNCHANGED <<setup, nodes, handlers>>
  BY DEF DeclareArgument, Visited
<1>5. Fine(l, todo[l], nodes[l], c, handlers[l])
  BY DEF PubInv
<1>6. Table(d)
  BY <1>2, <1>3, <1>5, DeclareTable DEF Fine
<1>7. PlainlyWritten => Plain(d)
  BY <1>2, <1>3, DeclarePlain DEF PubInv
<1>8. /\ DOMAIN d = DOMAIN c \cup {Argument(n)}
      /\ \A a \in DOMAIN c : d[a] = c[a]
  BY DEF Defaulted
<1> HIDE DEF d
<1>9. Running(l, nodes[l], d)
  BY <1>5, <1>8, RunningKept DEF Fine
<1>10. Ahead(l, Tail(todo[l]), nodes[l], d)
  <2>1. todo[l] \in Seq(Fits(l)) /\ Settled(todo[l])
    BY <1>5 DEF Fine, Ahead
  <2>2. Tail(todo[l]) \in Seq(Fits(l))
    BY <1>1, <2>1
  <2>3. /\ Settled(Tail(todo[l]))
        /\ Relies(e) => NothingSetOver(Tail(todo[l]))
        /\ NothingSetOver(todo[l]) => NothingSetOver(Tail(todo[l]))
    BY <1>1, <2>1, SettledTail
  <2>4. ASSUME Late(nodes[l], d) PROVE NothingSetOver(Tail(todo[l]))
    <3>1. CASE Late(nodes[l], c)
      BY <1>5, <2>3, <3>1 DEF Fine, Ahead
    <3>2. CASE ~Late(nodes[l], c)
      <4>1. Argument(n) \in DOMAIN Republisher
        BY <1>8, <2>4, <3>2 DEF Late
      <4>2. n \in DOMAIN Republisher
        BY <4>1 DEF Argument, Republisher
      <4>3. Relies(e)
        BY <1>1, <4>2 DEF Relies
      <4> QED BY <2>3, <4>3
    <3> QED BY <3>1, <3>2
  <2> QED BY <2>2, <2>3, <2>4 DEF Ahead
<1>11. Fine(l, Tail(todo[l]), nodes[l], d, handlers[l])
  BY <1>5, <1>6, <1>9, <1>10 DEF Fine
<1>12. /\ conf'[l] = d /\ todo'[l] = Tail(todo[l]) /\ nodes'[l] = nodes[l] /\ handlers'[l] = handlers[l]
       /\ \A k \in Launches : k # l =>
            todo'[k] = todo[k] /\ nodes'[k] = nodes[k] /\ conf'[k] = conf[k] /\ handlers'[k] = handlers[k]
  BY <1>4 DEF BringInv, Tables
<1> QED BY <1>4, <1>7, <1>11, <1>12, OneLaunch

LEMMA SetArgumentPubInv ==
  ASSUME BringInv, PubInv, NEW l \in Launches, SetArgument(l)
  PROVE  PubInv'
<1> DEFINE e == Head(todo[l])
           c == conf[l]
           d == Assigned(c, e.name, e.value)
<1>1. todo[l] # <<>> /\ e.do = "set"
  BY DEF SetArgument, Next1
<1>2. e \in PassedOn
  BY <1>1, NextEntity, KnownKinds
<1>3. /\ conf' = [conf EXCEPT ![l] = d]
      /\ todo' = [todo EXCEPT ![l] = Tail(@)]
      /\ UNCHANGED <<setup, nodes, handlers>>
  BY DEF SetArgument, Visited
<1>4. Fine(l, todo[l], nodes[l], c, handlers[l])
  BY DEF PubInv
<1>5. todo[l] \in Seq(Fits(l)) /\ Settled(todo[l]) /\ (Late(nodes[l], c) => NothingSetOver(todo[l]))
  BY <1>4 DEF Fine, Ahead
<1>6. ~Late(nodes[l], c)
  <2>1. e = todo[l][1] /\ Len(todo[l]) \in Nat \ {0}
    BY <1>1, <1>5, TailItems
  <2>2. SetsOver(todo[l][1])
    BY <1>1, <2>1 DEF SetsOver
  <2> QED BY <1>5, <2>1, <2>2 DEF NothingSetOver
<1>7. DOMAIN c \cap DOMAIN Republisher = {} /\ \A n \in nodes[l] : n.name \notin RtabmapNames
  BY <1>6 DEF Late
<1>8. Table(d)
  BY <1>2, <1>4, <1>7, PassedTable DEF Fine
<1>9. PlainlyWritten => Plain(d)
  BY <1>2, PassedPlain DEF PubInv
<1>10. ~Late(nodes[l], d)
  <2>1. e.name \notin DOMAIN Republisher
    BY <1>2 DEF PassedOn, Put, RealsenseArguments, Republisher
  <2> QED BY <1>7, <2>1 DEF Late, Assigned
<1> HIDE DEF d
<1>11. Running(l, nodes[l], d)
  BY <1>4, <1>7 DEF Fine, Running
<1>12. Ahead(l, Tail(todo[l]), nodes[l], d)
  <2>1. Tail(todo[l]) \in Seq(Fits(l))
    BY <1>1, <1>5
  <2>2. Settled(Tail(todo[l]))
    BY <1>1, <1>5, SettledTail
  <2> QED BY <1>10, <2>1, <2>2 DEF Ahead
<1>13. Fine(l, Tail(todo[l]), nodes[l], d, handlers[l])
  BY <1>4, <1>8, <1>11, <1>12 DEF Fine
<1>14. /\ conf'[l] = d /\ todo'[l] = Tail(todo[l]) /\ nodes'[l] = nodes[l] /\ handlers'[l] = handlers[l]
       /\ \A k \in Launches : k # l =>
            todo'[k] = todo[k] /\ nodes'[k] = nodes[k] /\ conf'[k] = conf[k] /\ handlers'[k] = handlers[k]
  BY <1>3 DEF BringInv, Tables
<1> QED BY <1>3, <1>9, <1>13, <1>14, OneLaunch

(* The launches are files ros2 launch is started with.                       *)
LEMMA LaunchesAre ==
  ASSUME BringInv
  PROVE  Launches \subseteq LaunchFiles
BY SetupsAssumption DEF BringInv, Tables, Launches

LEMMA IncludeFilePubInv ==
  ASSUME BringInv, PubInv, NEW l \in Launches, IncludeFile(l)
  PROVE  PubInv'
<1> DEFINE e == Head(todo[l])
           F == Passed(e.name) \o Entities(e.name)
           T == todo[l]
<1>1. T # <<>> /\ e.do = "include"
  BY DEF IncludeFile, Next1
<1>2. Fine(l, T, nodes[l], conf[l], handlers[l])
  BY DEF PubInv
<1>3. T \in Seq(Fits(l)) /\ Settled(T) /\ (Late(nodes[l], conf[l]) => NothingSetOver(T))
  BY <1>2 DEF Fine, Ahead
<1>4. e.name \in Files(l)
  <2>1. e \in Fits(l)
    BY <1>1, <1>3, TailItems
  <2> QED BY <1>1, <2>1, FitsKinds
<1>5. todo' = [todo EXCEPT ![l] = F \o Tail(@)] /\ UNCHANGED <<setup, conf, nodes, handlers>>
  BY DEF IncludeFile
<1>6. /\ F \in Seq(Fits(l)) /\ Settled(F)
      /\ e.name = "rtabmap" \/ (Idle(F) /\ NothingSetOver(F))
  BY <1>4, LaunchesAre, IncludeAhead
<1> HIDE DEF F
<1>7. /\ Settled(F \o Tail(T))
      /\ NothingSetOver(T) => NothingSetOver(F \o Tail(T))
  BY <1>1, <1>3, <1>6, SettledInclude
<1>8. F \o Tail(T) \in Seq(Fits(l))
  <2>1. Tail(T) \in Seq(Fits(l))
    BY <1>1, <1>3, TailItems
  <2> QED BY ONLY <1>6, <2>1, JoinItems
<1>9. Fine(l, F \o Tail(T), nodes[l], conf[l], handlers[l])
  BY <1>2, <1>3, <1>7, <1>8 DEF Fine, Ahead
<1>10. /\ todo'[l] = F \o Tail(T)
       /\ conf'[l] = conf[l] /\ nodes'[l] = nodes[l] /\ handlers'[l] = handlers[l]
       /\ \A k \in Launches : k # l =>
            todo'[k] = todo[k] /\ nodes'[k] = nodes[k] /\ conf'[k] = conf[k] /\ handlers'[k] = handlers[k]
  BY <1>5 DEF BringInv, Tables
<1>11. PlainlyWritten => Plain(conf'[l])
  BY <1>10 DEF PubInv
<1> QED BY <1>5, <1>9, <1>10, <1>11, OneLaunch

(* What a node that is started publishes, and why it may be there.           *)
LEMMA StartedNode ==
  ASSUME NEW n \in Processes, NEW c, Table(c), NodeReads(n) \subseteq DOMAIN c, Started(n, c)
  PROVE  /\ Node(n, c).name = n
         /\ \A t \in Node(n, c).out : Word(t) \in Words(n)
         /\ n \in RtabmapNames => FileArguments \subseteq DOMAIN c /\ Condition(n, c)
<1>1. CASE n \in RtabmapNames
  <2>1. n \in Range(RtabmapNodes)
    BY <1>1, RtabmapNamesAre
  <2>2. Condition(n, c)
    BY <1>1, <2>1, RtabmapNamesAre DEF Started
  <2>3. FileArguments \subseteq DOMAIN c
    <3>1. PICK i \in 1..Len(RtabmapNodes) : n = RtabmapNodes[i]
      BY <1>1 DEF RtabmapNames
    <3>2. Reads(Start(n)) = NodeReads(n)
      BY DEF Reads, Start
    <3> QED BY <3>1, <3>2, NodesReadArguments
  <2>4. Node(n, c).name = n /\ Node(n, c).out = Published(n, c)
    BY <2>1 DEF Node, Published
  <2> QED BY <1>1, <2>2, <2>3, <2>4, PublishedWords
<1>2. CASE n \notin RtabmapNames
  <2>1. n \notin Range(RtabmapNodes)
    BY <1>2, RtabmapNamesAre
  <2>2. Node(n, c).name = n /\ Node(n, c).out = NodeOutputs(n, c)
    BY <2>1 DEF Node
  <2>3. n = "nav2" => "namespace" \in DOMAIN c
    BY OtherNodesRead
  <2> QED BY <1>2, <2>2, <2>3, OtherWords
<1> QED BY <1>1, <1>2

LEMMA StartNodePubInv ==
  ASSUME BringInv, PubInv, NEW l \in Launches, StartNode(l)
  PROVE  PubInv'
<1> DEFINE e == Head(todo[l])
           n == e.name
           c == conf[l]
           T == todo[l]
           N == IF Started(n, c) THEN nodes[l] \cup {Node(n, c)} ELSE nodes[l]
<1>1. T # <<>> /\ e.do = "start" /\ Reads(e) \subseteq DOMAIN c
  BY DEF StartNode, Next1
<1>2. Fine(l, T, nodes[l], c, handlers[l])
  BY DEF PubInv
<1>3. T \in Seq(Fits(l)) /\ Settled(T) /\ (Late(nodes[l], c) => NothingSetOver(T))
  BY <1>2 DEF Fine, Ahead
<1>4. n \in Crew(l) /\ n \in Processes
  <2>1. e \in Fits(l)
    BY <1>1, <1>3, TailItems
  <2>2. n \in Crew(l)
    BY <1>1, <2>1, FitsKinds
  <2> QED BY <2>2, LaunchesAre, CrewsAre
<1>5. NodeReads(n) \subseteq DOMAIN c
  BY <1>1 DEF Reads
<1>6. /\ nodes' = [nodes EXCEPT ![l] = N]
      /\ todo' = [todo EXCEPT ![l] = Tail(@)]
      /\ UNCHANGED <<setup, conf, handlers>>
  BY DEF StartNode, Visited
<1>7. \A m \in N : m \in nodes[l] \/ (m = Node(n, c) /\ Started(n, c))
  OBVIOUS
<1> HIDE DEF N
<1>8. Running(l, N, c)
  <2> SUFFICES ASSUME NEW m \in N
               PROVE  /\ m.name \in Crew(l)
                      /\ \A t \in m.out : Word(t) \in Words(m.name)
                      /\ m.name \in RtabmapNames =>
                           FileArguments \subseteq DOMAIN c /\ Condition(m.name, c)
    BY DEF Running
  <2>1. CASE m \in nodes[l]
    BY <1>2, <2>1 DEF Fine, Running
  <2>2. CASE m = Node(n, c) /\ Started(n, c)
    <3>1. /\ Node(n, c).name = n
          /\ \A t \in Node(n, c).out : Word(t) \in Words(n)
          /\ n \in RtabmapNames => FileArguments \subseteq DOMAIN c /\ Condition(n, c)
      BY <1>2, <1>4, <1>5, <2>2, StartedNode DEF Fine
    <3> QED BY <1>4, <2>2, <3>1
  <2> QED BY <1>7, <2>1, <2>2
<1>9. Ahead(l, Tail(T), N, c)
  <2>1. Tail(T) \in Seq(Fits(l))
    BY <1>1, <1>3, TailItems
  <2>2. /\ Settled(Tail(T))
        /\ Relies(e) => NothingSetOver(Tail(T))
        /\ NothingSetOver(T) => NothingSetOver(Tail(T))
    BY <1>1, <1>3, SettledTail
  <2>3. ASSUME Late(N, c) PROVE NothingSetOver(Tail(T))
    <3>1. CASE Late(nodes[l], c)
      BY <1>3, <2>2, <3>1
    <3>2. CASE ~Late(nodes[l], c)
      <4>1. PICK m \in N : m.name \in RtabmapNames /\ m \notin nodes[l]
        BY <2>3, <3>2 DEF Late
      <4>2. m.name = n
        BY <1>2, <1>4, <1>5, <1>7, <4>1, StartedNode DEF Fine
      <4>3. Relies(e)
        BY <1>1, <4>1, <4>2 DEF Relies
      <4> QED BY <2>2, <4>3
    <3> QED BY <3>1, <3>2
  <2> QED BY <2>1, <2>2, <2>3 DEF Ahead
<1>10. Fine(l, Tail(T), N, c, handlers[l])
  BY <1>2, <1>8, <1>9 DEF Fine
<1>11. /\ conf'[l] = c /\ todo'[l] = Tail(T) /\ nodes'[l] = N /\ handlers'[l] = handlers[l]
       /\ \A k \in Launches : k # l =>
            todo'[k] = todo[k] /\ nodes'[k] = nodes[k] /\ conf'[k] = conf[k] /\ handlers'[k] = handlers[k]
  BY <1>6 DEF BringInv, Tables
<1>12. PlainlyWritten => Plain(conf'[l])
  BY <1>11 DEF PubInv
<1> QED BY <1>6, <1>10, <1>11, <1>12, OneLaunch

LEMMA RegisterHandlerPubInv ==
  ASSUME BringInv, PubInv, NEW l \in Launches, RegisterHandler(l)
  PROVE  PubInv'
<1> DEFINE e == Head(todo[l])
           T == todo[l]
           H == handlers[l] \cup {<<e.name, e.then>>}
<1>1. T # <<>> /\ e.do = "register"
  BY DEF RegisterHandler, Next1
<1>2. Fine(l, T, nodes[l], conf[l], handlers[l])
  BY DEF PubInv
<1>3. T \in Seq(Fits(l)) /\ Settled(T) /\ (Late(nodes[l], conf[l]) => NothingSetOver(T))
  BY <1>2 DEF Fine, Ahead
<1>4. l = "truck"
  <2>1. e \in Fits(l)
    BY <1>1, <1>3, TailItems
  <2> QED BY <1>1, <2>1, FitsKinds
<1>5. /\ handlers' = [handlers EXCEPT ![l] = H]
      /\ todo' = [todo EXCEPT ![l] = Tail(@)]
      /\ UNCHANGED <<setup, conf, nodes>>
  BY DEF RegisterHandler, Visited
<1> HIDE DEF H
<1>6. Ahead(l, Tail(T), nodes[l], conf[l])
  BY <1>1, <1>3, TailItems, SettledTail DEF Ahead
<1>7. Fine(l, Tail(T), nodes[l], conf[l], H)
  BY <1>2, <1>4, <1>6 DEF Fine
<1>8. /\ conf'[l] = conf[l] /\ todo'[l] = Tail(T) /\ nodes'[l] = nodes[l] /\ handlers'[l] = H
      /\ \A k \in Launches : k # l =>
           todo'[k] = todo[k] /\ nodes'[k] = nodes[k] /\ conf'[k] = conf[k] /\ handlers'[k] = handlers[k]
  BY <1>5 DEF BringInv, Tables
<1>9. PlainlyWritten => Plain(conf'[l])
  BY <1>8 DEF PubInv
<1> QED BY <1>5, <1>7, <1>8, <1>9, OneLaunch

LEMMA EndWithErrorPubInv ==
  ASSUME BringInv, PubInv, NEW l \in Launches, EndWithError(l)
  PROVE  PubInv'
<1>1. /\ todo' = [todo EXCEPT ![l] = <<>>]
      /\ nodes' = [nodes EXCEPT ![l] = {}]
      /\ handlers' = [handlers EXCEPT ![l] = {}]
      /\ UNCHANGED <<setup, conf>>
  BY DEF EndWithError
<1>2. Ahead(l, <<>>, {}, conf[l])
  BY DEF Ahead, Settled, NothingSetOver
<1>3. Fine(l, <<>>, {}, conf[l], {})
  BY <1>2 DEF PubInv, Fine, Running
<1>4. /\ conf'[l] = conf[l] /\ todo'[l] = <<>> /\ nodes'[l] = {} /\ handlers'[l] = {}
      /\ \A k \in Launches : k # l =>
           todo'[k] = todo[k] /\ nodes'[k] = nodes[k] /\ conf'[k] = conf[k] /\ handlers'[k] = handlers[k]
  BY <1>1 DEF BringInv, Tables
<1>5. PlainlyWritten => Plain(conf'[l])
  BY <1>4 DEF PubInv
<1> QED BY <1>1, <1>3, <1>4, <1>5, OneLaunch

LEMMA SpawnerPubInv ==
  ASSUME BringInv, PubInv, NEW l \in Launches, NEW p, OnExit(l, p),
         UNCHANGED <<setup, conf, nodes, handlers>>
  PROVE  PubInv'
<1> DEFINE S == {Start(h[2]) : h \in {g \in handlers[l] : g[1] = p}}
           x == Start("joint_state_broadcaster_spawner")
           T == SetToSeq(S)
<1>1. Fine(l, todo[l], nodes[l], conf[l], handlers[l])
  BY DEF PubInv
<1>2. S \subseteq {x}
  <2>1. \A h \in handlers[l] : h = Handler
    BY DEF BringInv, Visiting
  <2>2. Handler[2] = "joint_state_broadcaster_spawner"
    BY DEF Handler
  <2> QED BY <2>1, <2>2
<1>3. S # {} => l = "truck"
  BY <1>1 DEF Fine
<1>4. todo' = [todo EXCEPT ![l] = T]
  BY DEF OnExit
<1> HIDE DEF S
<1>5. T \in Seq(S) /\ \A i \in 1..Len(T) : T[i] = x
  BY <1>2, HandledItems
<1>6. S \subseteq Fits(l)
  <2>1. x \in Fits("truck")
    BY CrewsAre DEF Fits, Spawned
  <2> QED BY <1>2, <1>3, <2>1
<1>7. ~Relies(x) /\ ~SetsOver(x)
  BY RtabmapNamesAre DEF Relies, SetsOver, Start
<1> HIDE DEF T, x
<1>8. Ahead(l, T, nodes[l], conf[l])
  BY <1>5, <1>6, <1>7 DEF Ahead, Settled, NothingSetOver
<1>9. Fine(l, T, nodes[l], conf[l], handlers[l])
  BY <1>1, <1>8 DEF Fine
<1>10. /\ conf'[l] = conf[l] /\ todo'[l] = T /\ nodes'[l] = nodes[l] /\ handlers'[l] = handlers[l]
       /\ \A k \in Launches : k # l =>
            todo'[k] = todo[k] /\ nodes'[k] = nodes[k] /\ conf'[k] = conf[k] /\ handlers'[k] = handlers[k]
  BY <1>4 DEF BringInv, Tables
<1>11. PlainlyWritten => Plain(conf'[l])
  BY <1>10 DEF PubInv
<1> QED BY <1>9, <1>10, <1>11, OneLaunch

LEMMA UnchangedPubInv ==
  ASSUME PubInv, UNCHANGED <<setup, conf, todo, nodes, handlers>>
  PROVE  PubInv'
BY DEF PubInv, Ordinary, PlainlyWritten, Launches

LEMMA NextPubInv ==
  ASSUME BringInv, PubInv, [Next]_vars
  PROVE  PubInv'
<1>1. CASE UNCHANGED vars
  BY <1>1, UnchangedPubInv DEF vars
<1>2. ASSUME NEW l \in Launches, Visit(l) PROVE PubInv'
  BY <1>2, DeclareArgumentPubInv, SetArgumentPubInv, IncludeFilePubInv,
     StartNodePubInv, RegisterHandlerPubInv, EndWithErrorPubInv DEF Visit
<1>3. ASSUME NEW l \in Launches, Publish(l) PROVE PubInv'
  BY <1>3, UnchangedPubInv DEF Publish
<1>4. ASSUME NEW l \in Launches, SpawnerEnds(l) PROVE PubInv'
  BY <1>4, SpawnerPubInv DEF SpawnerEnds
<1>5. ASSUME NEW l \in Launches, SpawnerFails(l) PROVE PubInv'
  BY <1>5, SpawnerPubInv DEF SpawnerFails
<1> QED BY <1>1, <1>2, <1>3, <1>4, <1>5 DEF Next

THEOREM PubInvHolds == Spec /\ Ordinary => []PubInv
<1>1. Init /\ Ordinary => PubInv
  BY InitPubInv
<1>2. BringInv /\ PubInv /\ [Next]_vars => PubInv'
  BY NextPubInv
<1> QED BY <1>1, <1>2, BringInvHolds, PTL DEF Spec

------------------------------------------------------------------------------
(* Two publishers of one topic are one node. *)

(* Nodes that publish under the same word take the same place.               *)
Alike(n, m) ==
  \/ n = m
  \/ n \in Syncs /\ m \in Syncs
  \/ n \in Odometries /\ m \in Odometries
  \/ n \in Descriptions /\ m \in Descriptions

LEMMA WordsDisjoint ==
  ASSUME NEW n, NEW m, NEW w, w \in Words(n), w \in Words(m)
  PROVE  Alike(n, m)
<1> DEFINE Owner(k, v) ==
      \/ k = "control_node" /\ v = "controller_manager"
      \/ k \in Descriptions /\ v \in {"robot_description", "truck_origin"}
      \/ k = "realsense2_camera" /\ v = "camera"
      \/ k = "imu_filter" /\ v = "imu"
      \/ k = "nav2" /\ v = "cmd_vel"
      \/ k = "republish_rgb" /\ v \in {"rgb", "color"}
      \/ k = "republish_depth" /\ v \in {"depth", "aligned_depth"}
      \/ k = "republish_left" /\ v = "left"
      \/ k = "republish_right" /\ v = "right"
      \/ k \in Syncs /\ v = "rgbd_image"
      \/ k \in Odometries /\ v \in {"odom", "odom_info"}
      \/ k = "rtabmap" /\ v \in {"map", "local_grid_obstacle"}
      \/ k = "point_cloud_xyzrgb" /\ v = "voxel_cloud"
<1>1. ASSUME NEW k, NEW v, v \in Words(k) PROVE Owner(k, v)
  BY <1>1 DEF Words
<1>2. Owner(n, w) /\ Owner(m, w)
  BY <1>1
<1> QED BY <1>2 DEF Alike

(* The crews of launches that run beside each other have nobody in common,   *)
(* nobody who takes the same place in another.                               *)
LEMMA CrewsApart ==
  ASSUME NEW l \in LaunchFiles, NEW k \in LaunchFiles, NEW n \in Crew(l), NEW m \in Crew(k), Alike(n, m)
  PROVE  l = k \/ {l, k} = {"rtabmap", "realsense"} \/ {l, k} = {"truck", "view"}
BY CrewsAre, RtabmapNamesAre DEF LaunchFiles, Alike, Spawned, Syncs, Odometries, Descriptions

(* At most one of each kind is started, by the same table.                   *)
LEMMA OneOfAKind ==
  ASSUME NEW n \in RtabmapNames, NEW m \in RtabmapNames, Alike(n, m), NEW c,
         Condition(n, c), Condition(m, c), ~(c.icp_odometry = "True")
  PROVE  n = m
<1>1. CASE n \in Syncs /\ m \in Syncs
  <2>1. ASSUME NEW k \in Syncs, Condition(k, c)
        PROVE  /\ k = "rgbd_sync" => IsTrue(c.rgbd_sync) /\ ~IsTrue(c.stereo)
               /\ k = "stereo_sync" => IsTrue(c.rgbd_sync) /\ IsTrue(c.stereo)
               /\ k = "rgbd_relay" => ~IsTrue(c.rgbd_sync) /\ ~IsTrue(c.compressed)
               /\ k = "rgbd_relay_uncompress" => ~IsTrue(c.rgbd_sync) /\ IsTrue(c.compressed)
    BY <2>1 DEF Syncs, Condition, Synchronised
  <2> QED BY <1>1, <2>1 DEF Syncs
<1>2. CASE n \in Odometries /\ m \in Odometries
  <2>1. ASSUME NEW k \in Odometries, Condition(k, c)
        PROVE  /\ k = "rgbd_odometry" => ~IsTrue(c.icp_odometry) /\ ~IsTrue(c.stereo)
               /\ k = "stereo_odometry" => ~IsTrue(c.icp_odometry) /\ IsTrue(c.stereo)
               /\ k = "icp_odometry" => IsTrue(c.icp_odometry)
    BY <2>1 DEF Odometries, Condition, VisualOdometry, TakenAsTrue, IsTrue
  <2> QED BY <1>2, <2>1 DEF Odometries
<1> QED BY <1>1, <1>2, RtabmapNamesAre DEF Alike, Descriptions

(* A topic and a frame have one publisher, for every command line that       *)
(* leaves their names alone: the word of a topic tells the place of its      *)
(* publisher, a place is taken in one launch, and there by one node.         *)
THEOREM OnePublisherHolds == Spec /\ Ordinary => []OnePublisher
<1>1. BringInv /\ PubInv => OnePublisher
  <2> SUFFICES ASSUME BringInv, PubInv, PlainlyWritten, NEW l \in Launches, NEW k \in Launches,
                      NEW n \in nodes[l], NEW m \in nodes[k], n.out \cap m.out # {}
               PROVE  l = k /\ n.name = m.name
    BY DEF OnePublisher
  <2>1. Running(l, nodes[l], conf[l]) /\ Running(k, nodes[k], conf[k])
    BY DEF PubInv, Fine
  <2>2. Alike(n.name, m.name)
    <3>1. PICK t : t \in n.out /\ t \in m.out
      OBVIOUS
    <3>2. Word(t) \in Words(n.name) /\ Word(t) \in Words(m.name)
      BY <2>1, <3>1 DEF Running
    <3> QED BY <3>2, WordsDisjoint
  <2>3. l = k
    <3>1. n.name \in Crew(l) /\ m.name \in Crew(k) /\ l \in LaunchFiles /\ k \in LaunchFiles
      BY <2>1, LaunchesAre DEF Running
    <3>2. l = k \/ {l, k} = {"rtabmap", "realsense"} \/ {l, k} = {"truck", "view"}
      BY <2>2, <3>1, CrewsApart
    <3>3. {l, k} # {"rtabmap", "realsense"} /\ {l, k} # {"truck", "view"}
      BY DEF PubInv, Ordinary
    <3> QED BY <3>2, <3>3
  <2>4. n.name = m.name
    <3>1. CASE n.name \in RtabmapNames /\ m.name \in RtabmapNames
      <4>1. /\ Condition(n.name, conf[l]) /\ Condition(m.name, conf[l])
            /\ FileArguments \subseteq DOMAIN conf[l]
        BY <2>1, <2>3, <3>1 DEF Running
      <4>2. conf[l].icp_odometry # "True"
        <5>1. "icp_odometry" \in FileArguments /\ "icp_odometry" \in Switches
          BY DEF FileArguments, DeclaredArguments, Switches
        <5> QED BY <4>1, <5>1 DEF PubInv, Plain
      <4> QED BY <2>2, <3>1, <4>1, <4>2, OneOfAKind
    <3>2. CASE ~(n.name \in RtabmapNames /\ m.name \in RtabmapNames)
      <4>1. n.name \notin Syncs \cup Odometries \/ m.name \notin Syncs \cup Odometries
        BY <3>2, RtabmapNamesAre DEF Syncs, Odometries
      <4>2. ~(n.name \in Descriptions /\ m.name \in Descriptions) \/ n.name = m.name
        <5>1. n.name \in Crew(l) /\ m.name \in Crew(l) /\ l \in LaunchFiles
          BY <2>1, <2>3, LaunchesAre DEF Running
        <5> QED BY <5>1, CrewsAre, RtabmapNamesAre DEF LaunchFiles, Descriptions, Spawned
      <4> QED BY <2>2, <4>1, <4>2 DEF Alike, Syncs, Odometries
    <3> QED BY <3>1, <3>2
  <2> QED BY <2>3, <2>4
<1> QED BY <1>1, BringInvHolds, PubInvHolds, PTL

------------------------------------------------------------------------------
(* Order between the processes of the vehicle. *)

Delayed == "joint_state_broadcaster_spawner"
StartsDelayed(T) == \E i \in 1..Len(T) : T[i] = Start(Delayed)

(* The joint states are spawned when the spawner of the drive controller has *)
(* ended, and not before (the handler at truck.launch.py:161-168).           *)
JointStatesWait ==
  \A l \in Launches : \A n \in nodes[l] : n.name = Delayed => "robot_controller_spawner" \in exited

WaitInv ==
  /\ JointStatesWait
  /\ \A l \in Launches : StartsDelayed(todo[l]) => "robot_controller_spawner" \in exited

LEMMA OnlyTruckStartsThem ==
  ASSUME NEW l \in LaunchFiles \ {"truck"}, NEW T \in Seq(Fits(l))
  PROVE  ~StartsDelayed(T)
<1> SUFFICES ASSUME NEW i \in 1..Len(T), T[i] = Start(Delayed)
             PROVE  FALSE
  BY DEF StartsDelayed
<1>1. T[i] \in Fits(l)
  OBVIOUS
<1>2. Delayed \in Crew(l)
  <2>1. T[i].do = "start" /\ T[i].name = Delayed
    BY DEF Start
  <2> QED BY <1>1, <2>1, FitsKinds
<1> QED BY <1>2, CrewsAre, RtabmapNamesAre DEF LaunchFiles, Delayed

(* No file starts them by itself.                                            *)
LEMMA LaunchWithout ==
  ASSUME NEW l \in LaunchFiles
  PROVE  ~StartsDelayed(Entities(l))
<1>1. CASE l # "truck"
  BY <1>1, LaunchAhead, OnlyTruckStartsThem
<1>2. CASE l = "truck"
  <2> DEFINE D == Each(Declare, TruckArguments)
             U == <<Start("control_node"), Start("robot_state_publisher"),
                    Start("robot_controller_spawner"), Start("gpio_controller_spawner"),
                    SpawnedAfter, Start("velocity_controller_spawner")>>
             S == Known \ {Start(Delayed)}
  <2>1. D \in Seq(S)
    <3>1. TruckArguments \in Seq(Declared)
      BY DEF TruckArguments, Declared, TruckDefault
    <3>2. {Declare(n) : n \in Declared} \subseteq S
      BY DEF Known, Declare, Start
    <3> HIDE DEF S
    <3> QED BY <3>1, <3>2, DeclareList
  <2>2. U \in Seq(S)
    <3>1. /\ Start("control_node") \in Known /\ Start("robot_state_publisher") \in Known
          /\ Start("robot_controller_spawner") \in Known /\ Start("gpio_controller_spawner") \in Known
          /\ SpawnedAfter \in Known /\ Start("velocity_controller_spawner") \in Known
      BY DEF Known, Processes, Spawned
    <3>2. /\ Start("control_node") # Start(Delayed) /\ Start("robot_state_publisher") # Start(Delayed)
          /\ Start("robot_controller_spawner") # Start(Delayed)
          /\ Start("gpio_controller_spawner") # Start(Delayed)
          /\ SpawnedAfter # Start(Delayed) /\ Start("velocity_controller_spawner") # Start(Delayed)
      BY DEF Start, Delayed, SpawnedAfter, OnProcessExit
    <3>3. /\ Start("control_node") \in S /\ Start("robot_state_publisher") \in S
          /\ Start("robot_controller_spawner") \in S /\ Start("gpio_controller_spawner") \in S
          /\ SpawnedAfter \in S /\ Start("velocity_controller_spawner") \in S
      BY <3>1, <3>2
    <3> HIDE DEF S
    <3> QED BY <3>3
  <2>3. Entities(l) = D \o U
    BY <1>2 DEF Entities, TruckFile, SpawnedAfter
  <2>4. Start(Delayed) \notin S
    OBVIOUS
  <2> HIDE DEF D, U, S
  <2>5. D \o U \in Seq(S)
    BY ONLY <2>1, <2>2, JoinItems
  <2> QED BY <2>3, <2>4, <2>5 DEF StartsDelayed
<1> QED BY <1>1, <1>2

LEMMA IncludeWithout ==
  ASSUME NEW f \in Included
  PROVE  ~StartsDelayed(Passed(f) \o Entities(f))
<1>1. f \in Files("realsense") \/ f \in Files("camera")
  BY DEF Included, Files
<1>2. "realsense" \in LaunchFiles \ {"truck"} /\ "camera" \in LaunchFiles \ {"truck"}
  BY DEF LaunchFiles
<1> QED BY <1>1, <1>2, IncludeAhead, OnlyTruckStartsThem

LEMMA WithoutTail ==
  ASSUME NEW S, NEW T \in Seq(S), T # <<>>
  PROVE  /\ StartsDelayed(Tail(T)) => StartsDelayed(T)
         /\ Head(T) = Start(Delayed) => StartsDelayed(T)
<1>1. /\ Len(Tail(T)) = Len(T) - 1 /\ Len(T) \in Nat \ {0}
      /\ \A i \in 1..Len(Tail(T)) : Tail(T)[i] = T[i + 1]
      /\ Head(T) = T[1]
  BY TailItems
<1>2. \A i \in 1..Len(Tail(T)) : i + 1 \in 1..Len(T)
  BY <1>1
<1> QED BY <1>1, <1>2 DEF StartsDelayed

LEMMA WithoutJoin ==
  ASSUME NEW S, NEW F \in Seq(S), NEW T \in Seq(S), StartsDelayed(F \o T)
  PROVE  StartsDelayed(F) \/ StartsDelayed(T)
<1>1. /\ Len(F \o T) = Len(F) + Len(T) /\ Len(F) \in Nat /\ Len(T) \in Nat
      /\ \A i \in 1..Len(F) : (F \o T)[i] = F[i]
      /\ \A i \in 1..Len(T) : (F \o T)[Len(F) + i] = T[i]
  BY JoinItems
<1>2. PICK i \in 1..Len(F \o T) : (F \o T)[i] = Start(Delayed)
  BY DEF StartsDelayed
<1>3. CASE i \in 1..Len(F)
  BY <1>1, <1>2, <1>3 DEF StartsDelayed
<1>4. CASE i \notin 1..Len(F)
  <2>1. i - Len(F) \in 1..Len(T) /\ i = Len(F) + (i - Len(F))
    BY <1>1, <1>4
  <2>2. T[i - Len(F)] = Start(Delayed)
    BY <1>1, <1>2, <2>1
  <2> QED BY <2>1, <2>2 DEF StartsDelayed
<1> QED BY <1>3, <1>4

(* The visits.                                                               *)
LEMMA VisitWaitInv ==
  ASSUME BringInv, WaitInv, NEW l \in Launches, Visit(l)
  PROVE  WaitInv'
<1> DEFINE T == todo[l]
           F == Passed(Head(T).name) \o Entities(Head(T).name)
<1>1. Launches' = Launches /\ exited' = exited
  BY DEF Visit, DeclareArgument, SetArgument, IncludeFile, StartNode, RegisterHandler, EndWithError,
         Launches
<1>2. T # <<>> /\ T \in Seq(Known)
  BY DEF Visit, DeclareArgument, SetArgument, IncludeFile, StartNode, RegisterHandler, EndWithError,
         Next1, BringInv, Visiting, InOrder
<1>3. /\ \A k \in Launches : k # l => todo'[k] = todo[k] /\ nodes'[k] = nodes[k]
      /\ \/ todo'[l] \in {Tail(T), <<>>}
         \/ Head(T).do = "include" /\ todo'[l] = F \o Tail(T)
      /\ \A n \in nodes'[l] :
           n \in nodes[l] \/ (Head(T).do = "start" /\ n = Node(Head(T).name, conf[l]))
  <2>1. CASE DeclareArgument(l) \/ SetArgument(l) \/ RegisterHandler(l)
    BY <2>1 DEF DeclareArgument, SetArgument, RegisterHandler, Visited, BringInv, Tables
  <2>2. CASE IncludeFile(l)
    BY <2>2 DEF IncludeFile, Next1, BringInv, Tables
  <2>3. CASE StartNode(l)
    BY <2>3 DEF StartNode, Next1, Visited, BringInv, Tables
  <2>4. CASE EndWithError(l)
    BY <2>4 DEF EndWithError, BringInv, Tables
  <2> QED BY <2>1, <2>2, <2>3, <2>4 DEF Visit
<1>4. StartsDelayed(todo'[l]) => StartsDelayed(T)
  <2>1. CASE todo'[l] = Tail(T)
    BY <1>2, <2>1, WithoutTail
  <2>2. CASE todo'[l] = <<>>
    BY <2>2 DEF StartsDelayed
  <2>3. CASE Head(T).do = "include" /\ todo'[l] = F \o Tail(T)
    <3>1. Head(T).name \in Included
      <4>1. Head(T) \in Known
        BY <1>2, TailItems
      <4> QED BY <2>3, <4>1, KnownKinds
    <3>2. ~StartsDelayed(F) /\ F \in Seq(Known)
      BY <3>1, IncludeWithout, IncludeServed DEF InOrder
    <3>3. Tail(T) \in Seq(Known) /\ (StartsDelayed(Tail(T)) => StartsDelayed(T))
      BY <1>2, TailItems, WithoutTail
    <3> HIDE DEF F
    <3> QED BY <2>3, <3>2, <3>3, WithoutJoin
  <2> QED BY <1>3, <2>1, <2>2, <2>3
<1>5. ASSUME NEW n \in nodes'[l], n.name = Delayed PROVE "robot_controller_spawner" \in exited
  <2>1. CASE n \in nodes[l]
    BY <1>5, <2>1 DEF WaitInv, JointStatesWait
  <2>2. CASE Head(T).do = "start" /\ n = Node(Head(T).name, conf[l])
    <3>1. Head(T).name = Delayed
      BY <1>5, <2>2 DEF Node
    <3>2. Head(T) = Start(Delayed)
      <4>1. Head(T) \in Known
        BY <1>2, TailItems
      <4>2. Head(T) = Start(Head(T).name)
        BY <2>2, <4>1 DEF Known, PassedOn, Put, Declare, Include, Start, SpawnedAfter, OnProcessExit
      <4> QED BY <3>1, <4>2
    <3> QED BY <1>2, <3>2, WithoutTail DEF WaitInv
  <2> QED BY <1>3, <2>1, <2>2
<1> QED BY <1>1, <1>3, <1>4, <1>5 DEF WaitInv, JointStatesWait

LEMMA SpawnerWaitInv ==
  ASSUME BringInv, WaitInv, NEW l \in Launches, NEW p, OnExit(l, p), exited' = exited \cup {p},
         UNCHANGED <<setup, conf, nodes, handlers>>
  PROVE  WaitInv'
<1> DEFINE S == {Start(h[2]) : h \in {g \in handlers[l] : g[1] = p}}
           x == Start(Delayed)
<1>1. S \subseteq {x} /\ (S # {} => p = "robot_controller_spawner")
  <2>1. \A h \in handlers[l] : h = Handler
    BY DEF BringInv, Visiting
  <2>2. Handler[1] = "robot_controller_spawner" /\ Handler[2] = Delayed
    BY DEF Handler, Delayed
  <2> QED BY <2>1, <2>2
<1>2. todo' = [todo EXCEPT ![l] = SetToSeq(S)]
  BY DEF OnExit
<1> HIDE DEF S
<1>3. todo'[l] = SetToSeq(S) /\ \A k \in Launches : k # l => todo'[k] = todo[k]
  BY <1>2 DEF BringInv, Tables
<1>4. StartsDelayed(todo'[l]) => p = "robot_controller_spawner"
  <2>1. SetToSeq(S) \in Seq(S)
    BY <1>1, HandledItems
  <2>2. S = {} => Len(SetToSeq(S)) = 0
    BY <2>1
  <2> QED BY <1>1, <1>3, <2>2 DEF StartsDelayed
<1>5. Launches' = Launches
  BY DEF Launches
<1> QED BY <1>3, <1>4, <1>5 DEF WaitInv, JointStatesWait

(* In any interleaving of the launches, and whichever spawners fail, nothing *)
(* spawns the joint states before the drive controller's spawner has ended.  *)
THEOREM JointStatesWaitHolds == Spec => []JointStatesWait
<1>1. Init => WaitInv
  <2> SUFFICES ASSUME Init, NEW l \in Launches
               PROVE  ~StartsDelayed(todo[l]) /\ nodes[l] = {}
    BY DEF WaitInv, JointStatesWait
  <2>1. l \in LaunchFiles
    BY InitBringInv, LaunchesAre
  <2>2. todo[l] = Entities(l) /\ nodes[l] = {}
    BY DEF Init
  <2> QED BY <2>1, <2>2, LaunchWithout
<1>2. BringInv /\ WaitInv /\ [Next]_vars => WaitInv'
  <2> SUFFICES ASSUME BringInv, WaitInv, [Next]_vars
               PROVE  WaitInv'
    OBVIOUS
  <2>1. CASE UNCHANGED vars
    BY <2>1 DEF vars, WaitInv, JointStatesWait, Launches
  <2>2. ASSUME NEW l \in Launches, Publish(l) PROVE WaitInv'
    BY <2>2 DEF Publish, WaitInv, JointStatesWait, Launches
  <2>3. ASSUME NEW l \in Launches, SpawnerEnds(l) PROVE WaitInv'
    BY <2>3, SpawnerWaitInv DEF SpawnerEnds
  <2>4. ASSUME NEW l \in Launches, SpawnerFails(l) PROVE WaitInv'
    BY <2>4, SpawnerWaitInv DEF SpawnerFails
  <2> QED BY <2>1, <2>2, <2>3, <2>4, VisitWaitInv DEF Next
<1>3. WaitInv => JointStatesWait
  BY DEF WaitInv
<1> QED BY <1>1, <1>2, <1>3, BringInvHolds, PTL DEF Spec

------------------------------------------------------------------------------
(* The mapping and the navigation, which one launch includes side by side,   *)
(* agree about names: nav2's file, included first, sets the namespace for    *)
(* both, and the frame is passed before anything uses it.                    *)

SetsNamespace(e) ==
  (e.do = "declare" /\ e.name = "namespace") \/ (e.do = "include" /\ e.name = "rtabmap")
SetsRoot(e) ==
  (e.do = "declare" /\ e.name = "nav2_namespace") \/ (e.do = "include" /\ e.name = "nav2")

NavigationFirst(T) ==
  \A i \in 1..Len(T) : SetsNamespace(T[i]) => \E j \in 1..(i - 1) : SetsRoot(T[j])

TruckOrigin == <<"truck_origin">>
PutsFrame(e) ==
  \/ e.do = "set" /\ e.name = "frame_id" /\ e.value = TruckOrigin
  \/ e.do = "include" /\ e.name = "rtabmap"

FrameAhead(T) ==
  \E j \in 1..Len(T) : PutsFrame(T[j]) /\ \A i \in 1..(j - 1) : ~Relies(T[i])

FromMapping == {<<"/", "map">>, <<"/", "local_grid_obstacle">>, Tf(<<"map">>, <<"odom">>)}
FromOdometry == {<<"/", "odom">>, Tf(<<"odom">>, TruckOrigin)}

Linked(n) ==
  /\ n.name = "nav2" => n.in = {FromMapping \cup FromOdometry} /\ n.out = {CmdVel}
  /\ n.name = "rtabmap" => n.out = FromMapping
  /\ n.name \in Odometries => FromOdometry \subseteq n.out

Connected(T, N, c) ==
  /\ "namespace" \in DOMAIN c => c.namespace = <<>>
  /\ "namespace" \notin DOMAIN c => NavigationFirst(T)
  /\ FrameAhead(T) \/ ("frame_id" \in DOMAIN c /\ c.frame_id = TruckOrigin)
  /\ \A n \in N : Linked(n)

ConnInv ==
  "realsense" \in Launches => Connected(todo["realsense"], nodes["realsense"], conf["realsense"])

(* What the navigation takes, it gets from the mapping and the odometry      *)
(* started beside it, and its velocity goes to the topic the drive           *)
(* controller is remapped to.                                                *)
NavigationIsConnected ==
  "realsense" \in Launches =>
    \A n, m, o \in nodes["realsense"] :
      n.name = "nav2" /\ m.name = "rtabmap" /\ o.name \in Odometries =>
        (\A s \in n.in : s \subseteq m.out \cup o.out) /\ n.out = {CmdVel}

(* Topics and frames in no namespace.                                        *)
LEMMA RootTopic ==
  ASSUME NEW w, w # "/"
  PROVE  Topic(<<>>, <<w>>) = <<"/", w>>
<1> DEFINE Z == {"/", w}
           A == <<"/">>
           B == <<w>>
           C == <<"/", w>>
<1>1. /\ A \in Seq(Z) /\ Len(A) = 1 /\ A[1] = "/" /\ B \in Seq(Z) /\ Len(B) = 1 /\ B[1] = w
      /\ C \in Seq(Z) /\ Len(C) = 2 /\ C[1] = "/" /\ C[2] = w
  OBVIOUS
<1>2. Topic(<<>>, B) = (A \o <<>>) \o B
  BY DEF Topic, Absolute
<1> HIDE DEF A, B, C, Z
<1>3. A \o <<>> = A
  BY <1>1
<1>4. A \o B \in Seq(Z) /\ Len(A \o B) = 2 /\ (A \o B)[1] = "/" /\ (A \o B)[2] = w
  <2>1. /\ A \o B \in Seq(Z) /\ Len(A \o B) = Len(A) + Len(B)
        /\ \A i \in 1..Len(A) : (A \o B)[i] = A[i]
        /\ \A i \in 1..Len(B) : (A \o B)[Len(A) + i] = B[i]
    BY ONLY <1>1, JoinItems
  <2>2. (A \o B)[1 + 1] = w
    BY <1>1, <2>1
  <2> QED BY <1>1, <2>1, <2>2
<1>5. A \o B = C
  BY <1>1, <1>4, SameItems
<1> QED BY <1>2, <1>3, <1>5 DEF B, C

LEMMA TfAnywhere ==
  ASSUME NEW ns, NEW w, NEW v
  PROVE  Topic(ns, Tf(<<w>>, <<v>>)) = Tf(<<w>>, <<v>>)
<1> DEFINE Z == {"/", "tf", w, v}
           A == <<"/", "tf">>
           X == A \o <<w>>
           Y == X \o <<v>>
<1>1. A \in Seq(Z) /\ Len(A) = 2 /\ A[1] = "/"
      /\ <<w>> \in Seq(Z) /\ Len(<<w>>) = 1 /\ <<v>> \in Seq(Z) /\ Len(<<v>>) = 1
  OBVIOUS
<1> HIDE DEF A, Z
<1>2. X \in Seq(Z) /\ Len(X) = 3 /\ X[1] = "/"
  <2>1. X \in Seq(Z) /\ Len(X) = Len(A) + Len(<<w>>) /\ \A i \in 1..Len(A) : X[i] = A[i]
    BY ONLY <1>1, JoinItems
  <2> QED BY <1>1, <2>1
<1> HIDE DEF X
<1>3. Y[1] = "/"
  <2>1. X \in Seq(Z) /\ <<v>> \in Seq(Z)
    BY <1>1, <1>2
  <2>2. \A i \in 1..Len(X) : Y[i] = X[i]
    BY ONLY <2>1, JoinItems
  <2> QED BY <1>2, <2>2
<1>4. Tf(<<w>>, <<v>>) = Y
  BY DEF Tf, Y, X, A
<1> HIDE DEF Y
<1> QED BY <1>3, <1>4, AbsoluteWord DEF Absolute

(* The list ahead. *)

LEMMA NavigationTail ==
  ASSUME NEW S, NEW T \in Seq(S), T # <<>>, NavigationFirst(T)
  PROVE  /\ ~SetsNamespace(Head(T))
         /\ ~SetsRoot(Head(T)) => NavigationFirst(Tail(T))
<1>1. /\ Len(Tail(T)) = Len(T) - 1 /\ Len(T) \in Nat \ {0}
      /\ \A i \in 1..Len(Tail(T)) : Tail(T)[i] = T[i + 1]
      /\ Head(T) = T[1]
  BY TailItems
<1>2. ~SetsNamespace(Head(T))
  <2>1. SetsNamespace(T[1]) => \E j \in 1..(1 - 1) : SetsRoot(T[j])
    BY <1>1 DEF NavigationFirst
  <2> QED BY <1>1, <2>1
<1>3. ASSUME ~SetsRoot(Head(T)), NEW i \in 1..Len(Tail(T)), SetsNamespace(Tail(T)[i])
      PROVE  \E j \in 1..(i - 1) : SetsRoot(Tail(T)[j])
  <2>1. i + 1 \in 1..Len(T) /\ SetsNamespace(T[i + 1])
    BY <1>1, <1>3
  <2>2. PICK j \in 1..((i + 1) - 1) : SetsRoot(T[j])
    BY <2>1 DEF NavigationFirst
  <2>3. j # 1
    BY <1>1, <1>3, <2>2
  <2>4. j - 1 \in 1..(i - 1) /\ Tail(T)[j - 1] = T[j]
    BY <1>1, <2>2, <2>3
  <2> QED BY <2>2, <2>4
<1> QED BY <1>2, <1>3 DEF NavigationFirst

(* A file without a word about the namespace, or one that begins with it.    *)
LEMMA NavigationJoin ==
  ASSUME NEW S, NEW F \in Seq(S), NEW T \in Seq(S), \A i \in 1..Len(F) : ~SetsNamespace(F[i]),
         NavigationFirst(T) \/ (F # <<>> /\ SetsRoot(F[1]))
  PROVE  NavigationFirst(F \o T)
<1>1. /\ Len(F \o T) = Len(F) + Len(T) /\ Len(F) \in Nat /\ Len(T) \in Nat
      /\ \A i \in 1..Len(F) : (F \o T)[i] = F[i]
      /\ \A i \in 1..Len(T) : (F \o T)[Len(F) + i] = T[i]
  BY JoinItems
<1> SUFFICES ASSUME NEW i \in 1..Len(F \o T), SetsNamespace((F \o T)[i])
             PROVE  \E j \in 1..(i - 1) : SetsRoot((F \o T)[j])
  BY DEF NavigationFirst
<1>2. i \notin 1..Len(F)
  BY <1>1
<1>3. PICK k \in 1..Len(T) : i = Len(F) + k
  <2>1. i - Len(F) \in 1..Len(T) /\ i = Len(F) + (i - Len(F))
    BY <1>1, <1>2
  <2> QED BY <2>1
<1>4. CASE F # <<>> /\ SetsRoot(F[1])
  <2>1. Len(F) # 0
    BY <1>4
  <2>2. 1 \in 1..Len(F) /\ 1 \in 1..(i - 1)
    BY <1>1, <1>3, <2>1
  <2> QED BY <1>1, <1>4, <2>2
<1>5. CASE NavigationFirst(T)
  <2>1. SetsNamespace(T[k])
    BY <1>1, <1>3
  <2>2. PICK j \in 1..(k - 1) : SetsRoot(T[j])
    BY <1>5, <2>1 DEF NavigationFirst
  <2>3. j \in 1..Len(T) /\ Len(F) + j \in 1..(i - 1)
    BY <1>1, <1>3, <2>2
  <2> QED BY <1>1, <2>2, <2>3
<1> QED BY <1>4, <1>5

LEMMA FrameTail ==
  ASSUME NEW S, NEW T \in Seq(S), T # <<>>, FrameAhead(T), ~PutsFrame(Head(T))
  PROVE  ~Relies(Head(T)) /\ FrameAhead(Tail(T))
<1>1. /\ Len(Tail(T)) = Len(T) - 1 /\ Len(T) \in Nat \ {0}
      /\ \A i \in 1..Len(Tail(T)) : Tail(T)[i] = T[i + 1]
      /\ Head(T) = T[1]
  BY TailItems
<1>2. PICK j \in 1..Len(T) : PutsFrame(T[j]) /\ \A i \in 1..(j - 1) : ~Relies(T[i])
  BY DEF FrameAhead
<1>3. j # 1
  BY <1>1, <1>2
<1>4. 1 \in 1..(j - 1) /\ j - 1 \in 1..Len(Tail(T))
  BY <1>1, <1>2, <1>3
<1>5. PutsFrame(Tail(T)[j - 1])
  BY <1>1, <1>2, <1>4
<1>6. ASSUME NEW i \in 1..((j - 1) - 1) PROVE ~Relies(Tail(T)[i])
  <2>1. i \in 1..Len(Tail(T)) /\ i + 1 \in 1..(j - 1)
    BY <1>1, <1>4
  <2> QED BY <1>1, <1>2, <2>1
<1> QED BY <1>1, <1>2, <1>4, <1>5, <1>6 DEF FrameAhead

LEMMA FrameJoin ==
  ASSUME NEW S, NEW F \in Seq(S), NEW T \in Seq(S), FrameAhead(F) \/ (Idle(F) /\ FrameAhead(T))
  PROVE  FrameAhead(F \o T)
<1>1. /\ Len(F \o T) = Len(F) + Len(T) /\ Len(F) \in Nat /\ Len(T) \in Nat
      /\ \A i \in 1..Len(F) : (F \o T)[i] = F[i]
      /\ \A i \in 1..Len(T) : (F \o T)[Len(F) + i] = T[i]
  BY JoinItems
<1>2. CASE FrameAhead(F)
  <2>1. PICK j \in 1..Len(F) : PutsFrame(F[j]) /\ \A i \in 1..(j - 1) : ~Relies(F[i])
    BY <1>2 DEF FrameAhead
  <2>2. j \in 1..Len(F \o T) /\ \A i \in 1..(j - 1) : i \in 1..Len(F)
    BY <1>1
  <2> QED BY <1>1, <2>1, <2>2 DEF FrameAhead
<1>3. CASE Idle(F) /\ FrameAhead(T)
  <2>1. PICK j \in 1..Len(T) : PutsFrame(T[j]) /\ \A i \in 1..(j - 1) : ~Relies(T[i])
    BY <1>3 DEF FrameAhead
  <2>2. Len(F) + j \in 1..Len(F \o T) /\ PutsFrame((F \o T)[Len(F) + j])
    BY <1>1, <2>1
  <2>3. ASSUME NEW i \in 1..((Len(F) + j) - 1) PROVE ~Relies((F \o T)[i])
    <3>1. CASE i \in 1..Len(F)
      BY <1>1, <1>3, <3>1 DEF Idle
    <3>2. CASE i \notin 1..Len(F)
      <4>1. i - Len(F) \in 1..(j - 1) /\ i - Len(F) \in 1..Len(T) /\ i = Len(F) + (i - Len(F))
        BY <1>1, <3>2
      <4> QED BY <1>1, <2>1, <4>1
    <3> QED BY <3>1, <3>2
  <2> QED BY <2>2, <2>3 DEF FrameAhead
<1> QED BY <1>2, <1>3

LEMMA RealsenseConnects ==
  NavigationFirst(Entities("realsense")) /\ FrameAhead(Entities("realsense"))
<1> DEFINE D == <<Declare("unite_imu_method")>>
           U == Each(Include, IncludedFiles)
           T == D \o U
<1>1. D \in Seq(Known) /\ Len(D) = 1 /\ D[1] = Declare("unite_imu_method")
  BY DEF Known, Declared
<1>2. U \in Seq(Known) /\ Len(U) = 3
      /\ U[1] = Include("nav2") /\ U[2] = Include("rtabmap") /\ U[3] = Include("nav2_rviz")
  <2>1. IncludedFiles \in Seq(Included) /\ Len(IncludedFiles) = 3
        /\ IncludedFiles[1] = "nav2" /\ IncludedFiles[2] = "rtabmap" /\ IncludedFiles[3] = "nav2_rviz"
    BY DEF IncludedFiles, Included
  <2> HIDE DEF U
  <2>2. U \in Seq(Known) /\ Len(U) = 3 /\ \A i \in 1..3 : U[i] = Include(IncludedFiles[i])
    BY <2>1, IncludeItems DEF U, Include
  <2> QED BY <2>1, <2>2
<1>3. Entities("realsense") = T
  BY DEF Entities, RealsenseFile
<1> HIDE DEF D, U
<1>4. NavigationFirst(T)
  <2>1. \A i \in 1..Len(D) : ~SetsNamespace(D[i])
    BY <1>1 DEF SetsNamespace, Declare
  <2>2. NavigationFirst(U)
    <3> SUFFICES ASSUME NEW i \in 1..Len(U), SetsNamespace(U[i])
                 PROVE  \E j \in 1..(i - 1) : SetsRoot(U[j])
      BY DEF NavigationFirst
    <3>1. i # 1
      BY <1>2 DEF SetsNamespace, Include
    <3>2. SetsRoot(U[1])
      BY <1>2 DEF SetsRoot, Include
    <3>3. 1 \in 1..(i - 1)
      BY <1>2, <3>1
    <3> QED BY <3>2, <3>3
  <2> QED BY <1>1, <1>2, <2>1, <2>2, NavigationJoin
<1>5. FrameAhead(T)
  <2>1. Idle(D)
    BY <1>1 DEF Idle, Relies, Declare, Republisher
  <2>2. FrameAhead(U)
    <3>1. PutsFrame(U[2]) /\ ~Relies(U[1]) /\ 2 \in 1..Len(U)
      BY <1>2 DEF PutsFrame, Relies, Include
    <3>2. \A i \in 1..(2 - 1) : i = 1
      OBVIOUS
    <3> QED BY <3>1, <3>2 DEF FrameAhead
  <2> QED BY <1>1, <1>2, <2>1, <2>2, FrameJoin
<1> QED BY <1>3, <1>4, <1>5

(* What is included: the navigation first, then the mapping.                 *)
LEMMA IncludeConnects ==
  ASSUME NEW f \in Included, NEW F, F = Passed(f) \o Entities(f)
  PROVE  /\ f = "nav2" => F # <<>> /\ SetsRoot(F[1])
         /\ f # "rtabmap" => \A i \in 1..Len(F) : ~SetsNamespace(F[i])
         /\ f = "rtabmap" => FrameAhead(F)
<1>1. CASE f = "nav2"
  <2>1. F = <<>> \o <<Declare("nav2_namespace"), Start("nav2")>>
    BY <1>1 DEF Passed, Entities
  <2>2. F = <<Declare("nav2_namespace"), Start("nav2")>>
    BY <2>1
  <2>3. Len(F) = 2 /\ F[1] = Declare("nav2_namespace") /\ F[2] = Start("nav2") /\ F # <<>>
    BY <2>2
  <2> QED BY <1>1, <2>3 DEF SetsRoot, SetsNamespace, Declare, Start
<1>2. CASE f = "nav2_rviz" \/ f = "rs_launch"
  <2>1. PICK x : F = <<Start(x)>>
    <3>1. CASE f = "nav2_rviz"
      <4>1. F = <<>> \o <<Start("nav2_rviz")>>
        BY <3>1 DEF Passed, Entities
      <4> QED BY <4>1
    <3>2. CASE f = "rs_launch"
      <4>1. F = <<>> \o <<Start("realsense2_camera")>>
        BY <3>2 DEF Passed, Entities
      <4> QED BY <4>1
    <3> QED BY <1>2, <3>1, <3>2
  <2>2. Len(F) = 1 /\ F[1] = Start(x)
    BY <2>1
  <2> QED BY <1>2, <2>2 DEF SetsNamespace, Start
<1>3. CASE f = "rtabmap"
  <2> DEFINE P == Each(Put, RealsenseArguments)
             U == Entities("rtabmap")
  <2>1. F = P \o U
    BY <1>3 DEF Passed
  <2>2. U \in Seq(Known)
    BY RtabmapServed DEF InOrder
  <2>3. P \in Seq(Known) /\ Len(P) = 9 /\ \A i \in 1..9 : P[i].do = "set"
    <3>1. Len(RealsenseArguments) = 9
      BY DEF RealsenseArguments
    <3> QED BY <3>1, PutItems
  <2>4. PutsFrame(P[7])
    <3>1. P[7] = Put(RealsenseArguments[7])
      BY DEF Each, RealsenseArguments
    <3>2. RealsenseArguments[7].name = "frame_id" /\ RealsenseArguments[7].value = TruckOrigin
      BY DEF RealsenseArguments, TruckOrigin
    <3>3. PICK a : a = RealsenseArguments[7]
      OBVIOUS
    <3>4. P[7] = [do |-> "set", name |-> a.name, value |-> a.value]
      BY <3>1, <3>3 DEF Put
    <3>5. a.name = "frame_id" /\ a.value = TruckOrigin
      BY <3>2, <3>3
    <3> HIDE DEF P
    <3> QED BY <3>4, <3>5 DEF PutsFrame
  <2> HIDE DEF P, U
  <2>5. FrameAhead(P)
    <3>1. 7 \in 1..Len(P) /\ \A i \in 1..(7 - 1) : ~Relies(P[i])
      BY <2>3 DEF Relies
    <3> QED BY <2>4, <3>1 DEF FrameAhead
  <2> QED BY <1>3, <2>1, <2>2, <2>3, <2>5, FrameJoin
<1> QED BY <1>1, <1>2, <1>3 DEF Included

(* What is started is linked, when the table is as it has to be.             *)
LEMMA StartedLinked ==
  ASSUME NEW n \in Processes, NEW c, Table(c), NodeReads(n) \subseteq DOMAIN c,
         "namespace" \in DOMAIN c => c.namespace = <<>>,
         n \in RtabmapNames /\ "frame_id" \in DOMAIN c => c.frame_id = TruckOrigin
  PROVE  Linked(Node(n, c))
<1> DEFINE N == Node(n, c)
<1>1. CASE n = "nav2"
  <2>1. c.namespace = <<>>
    BY <1>1, OtherNodesRead
  <2>2. n \notin Range(RtabmapNodes)
    BY <1>1, RtabmapNamesAre
  <2>3. N.name = n /\ N.in = NodeInputs(n, c) /\ N.out = NodeOutputs(n, c)
    BY <2>2 DEF Node
  <2>4. NodeInputs(n, c) =
          {{Topic(<<>>, <<"map">>), <<"/", "odom">>, <<"/", "local_grid_obstacle">>,
            Tf(<<"map">>, <<"odom">>), Tf(<<"odom">>, <<"truck_origin">>)}}
    BY <1>1, <2>1 DEF NodeInputs, Spawned
  <2>5. NodeOutputs(n, c) = {Topic(<<>>, <<"cmd_vel">>)}
    BY <1>1, <2>1 DEF NodeOutputs
  <2>6. Topic(<<>>, <<"map">>) = <<"/", "map">> /\ Topic(<<>>, <<"cmd_vel">>) = CmdVel
    BY RootTopic DEF CmdVel
  <2>7. N.in = {FromMapping \cup FromOdometry} /\ N.out = {CmdVel}
    BY <2>3, <2>4, <2>5, <2>6 DEF FromMapping, FromOdometry, TruckOrigin
  <2> QED BY <1>1, <2>3, <2>7 DEF Linked, Odometries
<1>2. CASE n \in RtabmapNames
  <2>1. n \in Range(RtabmapNodes) /\ n # "nav2"
    BY <1>2, RtabmapNamesAre
  <2>2. N.name = n /\ N.out = Published(n, c)
    BY <2>1 DEF Node, Published
  <2>3. FileArguments \subseteq DOMAIN c
    <3>1. PICK i \in 1..Len(RtabmapNodes) : n = RtabmapNodes[i]
      BY <1>2 DEF RtabmapNames
    <3>2. Reads(Start(n)) = NodeReads(n)
      BY DEF Reads, Start
    <3> QED BY <3>1, <3>2, NodesReadArguments
  <2>4. {"namespace", "frame_id", "map_frame_id", "map_topic", "odom_topic", "vo_frame_id"}
          \subseteq DOMAIN c
    BY <2>3 DEF FileArguments, DeclaredArguments
  <2>5. /\ c.namespace = <<>> /\ c.frame_id = TruckOrigin
        /\ c.map_frame_id = <<"map">> /\ c.map_topic = <<"map">>
        /\ c.odom_topic = <<"odom">> /\ c.vo_frame_id = <<"odom">>
    BY <1>2, <2>4 DEF Table, Named
  <2>6. CASE n = "rtabmap"
    <3>1. Published(n, c) = {Topic(<<>>, t) : t \in
                              {<<"map">>, <<"local_grid_obstacle">>, Tf(<<"map">>, <<"odom">>)}}
      BY <2>5, <2>6 DEF Published, Topics, NodeNamespace, Outputs
    <3>2. /\ Topic(<<>>, <<"map">>) = <<"/", "map">>
          /\ Topic(<<>>, <<"local_grid_obstacle">>) = <<"/", "local_grid_obstacle">>
          /\ Topic(<<>>, Tf(<<"map">>, <<"odom">>)) = Tf(<<"map">>, <<"odom">>)
      BY RootTopic, TfAnywhere
    <3>3. Published(n, c) = FromMapping
      BY <3>1, <3>2 DEF FromMapping
    <3> QED BY <2>1, <2>2, <2>6, <3>3 DEF Linked, Odometries
  <2>7. CASE n \in Odometries
    <3>1. n # "point_cloud_xyzrgb" /\ n # "rtabmap"
      BY <2>7 DEF Odometries
    <3>2. Outputs(n, c) = {<<"odom">>, <<"odom_info">>, Tf(<<"odom">>, TruckOrigin)}
      BY <2>5, <2>7 DEF Odometries, Outputs, Odometry
    <3>3. Published(n, c) = {Topic(<<>>, t) : t \in
                              {<<"odom">>, <<"odom_info">>, Tf(<<"odom">>, TruckOrigin)}}
      BY <2>5, <3>1, <3>2 DEF Published, Topics, NodeNamespace
    <3>4. /\ Topic(<<>>, <<"odom">>) = <<"/", "odom">>
          /\ Topic(<<>>, Tf(<<"odom">>, TruckOrigin)) = Tf(<<"odom">>, TruckOrigin)
      BY RootTopic, TfAnywhere DEF TruckOrigin
    <3>5. FromOdometry \subseteq Published(n, c)
      BY <3>3, <3>4 DEF FromOdometry
    <3> QED BY <2>1, <2>2, <3>1, <3>5 DEF Linked
  <2>8. CASE n # "rtabmap" /\ n \notin Odometries
    BY <2>1, <2>2, <2>8 DEF Linked
  <2> QED BY <2>6, <2>7, <2>8
<1>3. CASE n # "nav2" /\ n \notin RtabmapNames
  <2>1. N.name = n
    BY DEF Node
  <2> QED BY <1>3, <2>1, RtabmapNamesAre DEF Linked, Odometries
<1> QED BY <1>1, <1>2, <1>3

(* The steps of the launch that includes both. *)

LEMMA OneConnects ==
  ASSUME ConnInv, NEW l \in Launches, UNCHANGED setup,
         \A k \in Launches : k # l =>
           todo'[k] = todo[k] /\ nodes'[k] = nodes[k] /\ conf'[k] = conf[k],
         l = "realsense" /\ Connected(todo[l], nodes[l], conf[l]) =>
           Connected(todo'[l], nodes'[l], conf'[l])
  PROVE  ConnInv'
<1>1. Launches' = Launches
  BY DEF Launches
<1>2. CASE l = "realsense"
  BY <1>1, <1>2 DEF ConnInv
<1>3. CASE l # "realsense"
  BY <1>1, <1>3 DEF ConnInv
<1> QED BY <1>2, <1>3

LEMMA OthersSame ==
  ASSUME BringInv, PubInv, NEW l \in Launches, Visit(l)
  PROVE  /\ UNCHANGED setup
         /\ \A k \in Launches : k # l =>
              todo'[k] = todo[k] /\ nodes'[k] = nodes[k] /\ conf'[k] = conf[k]
         /\ todo[l] # <<>> /\ todo[l] \in Seq(Known) /\ Head(todo[l]) \in Known
<1>7. /\ UNCHANGED setup
      /\ \A k \in Launches : k # l =>
           todo'[k] = todo[k] /\ nodes'[k] = nodes[k] /\ conf'[k] = conf[k]
  <2>1. CASE DeclareArgument(l)
    BY   <2>1 DEF DeclareArgument, Next1, Visited, BringInv, Tables
  <2>2. CASE SetArgument(l)
    BY   <2>2 DEF SetArgument, Next1, Visited, BringInv, Tables
  <2>3. CASE IncludeFile(l)
    BY   <2>3 DEF IncludeFile, Next1, BringInv, Tables
  <2>4. CASE StartNode(l)
    BY   <2>4 DEF StartNode, Next1, Visited, BringInv, Tables
  <2>5. CASE RegisterHandler(l)
    BY   <2>5 DEF RegisterHandler, Next1, Visited, BringInv, Tables
  <2>6. CASE EndWithError(l)
    BY   <2>6 DEF EndWithError, BringInv, Tables
  <2> QED BY <2>1, <2>2, <2>3, <2>4, <2>5, <2>6 DEF Visit
<1>8. todo[l] # <<>>
  BY DEF Visit, DeclareArgument, SetArgument, IncludeFile, StartNode, RegisterHandler, EndWithError, Next1
<1>9. todo[l] \in Seq(Known)
  BY DEF BringInv, Visiting, InOrder
<1> QED BY <1>7, <1>8, <1>9, TailItems

LEMMA DeclareConnects ==
  ASSUME BringInv, PubInv, NEW l \in Launches, DeclareArgument(l),
         Connected(todo[l], nodes[l], conf[l])
  PROVE  Connected(todo'[l], nodes'[l], conf'[l])
<1> DEFINE T == todo[l]
           e == Head(T)
           c == conf[l]
           v == Default(e.name, c)
           d == Defaulted(c, Argument(e.name), v)
<1>1. e.do = "declare" /\ T # <<>> /\ T \in Seq(Known)
  BY OthersSame DEF Visit, DeclareArgument, Next1
<1>2. todo'[l] = Tail(T) /\ nodes'[l] = nodes[l] /\ conf'[l] = d
  BY DEF DeclareArgument, Visited, BringInv, Tables
<1>3. /\ DOMAIN d = DOMAIN c \cup {Argument(e.name)}
      /\ \A a \in DOMAIN c : d[a] = c[a]
      /\ Argument(e.name) \notin DOMAIN c => d[Argument(e.name)] = v
  BY DEF Defaulted
<1>4. e.name = "nav2_namespace" => v = <<>>
  BY DEF Default, TruckDefault, LiteralDefault, Refers
<1> HIDE DEF d, v
<1>5. "namespace" \in DOMAIN d => d.namespace = <<>>
  <2>1. CASE "namespace" \in DOMAIN c
    BY <1>3, <2>1 DEF Connected
  <2>2. CASE "namespace" \notin DOMAIN c
    <3>1. ~SetsNamespace(e)
      BY <1>1, <2>2, NavigationTail DEF Connected
    <3>2. e.name # "namespace"
      BY <1>1, <3>1 DEF SetsNamespace
    <3>3. "namespace" \in DOMAIN d => e.name = "nav2_namespace" /\ Argument(e.name) = "namespace"
      BY <1>3, <2>2, <3>2 DEF Argument
    <3> QED BY <1>3, <1>4, <2>2, <3>3
  <2> QED BY <2>1, <2>2
<1>6. "namespace" \notin DOMAIN d => NavigationFirst(Tail(T))
  <2>1. ASSUME "namespace" \notin DOMAIN d PROVE ~SetsRoot(e) /\ "namespace" \notin DOMAIN c
    <3>1. Argument(e.name) # "namespace"
      BY <1>3, <2>1
    <3> QED BY <1>1, <1>3, <2>1, <3>1 DEF SetsRoot, Argument
  <2> QED BY <1>1, <2>1, NavigationTail DEF Connected
<1>7. FrameAhead(Tail(T)) \/ ("frame_id" \in DOMAIN d /\ d.frame_id = TruckOrigin)
  <2>1. ~PutsFrame(e)
    BY <1>1 DEF PutsFrame
  <2> QED BY <1>1, <1>3, <2>1, FrameTail DEF Connected
<1> QED BY <1>2, <1>5, <1>6, <1>7 DEF Connected

LEMMA SetConnects ==
  ASSUME BringInv, PubInv, NEW l \in Launches, SetArgument(l),
         Connected(todo[l], nodes[l], conf[l])
  PROVE  Connected(todo'[l], nodes'[l], conf'[l])
<1> DEFINE T == todo[l]
           e == Head(T)
           c == conf[l]
           d == Assigned(c, e.name, e.value)
<1>1. e.do = "set" /\ T # <<>> /\ T \in Seq(Known) /\ e \in Known
  BY OthersSame DEF Visit, SetArgument, Next1
<1>2. todo'[l] = Tail(T) /\ nodes'[l] = nodes[l] /\ conf'[l] = d
  BY DEF SetArgument, Visited, BringInv, Tables
<1>3. /\ DOMAIN d = DOMAIN c \cup {e.name} /\ d[e.name] = e.value
      /\ \A a \in DOMAIN c : a # e.name => d[a] = c[a]
  BY DEF Assigned
<1>4. e.name # "namespace" /\ (e.name = "frame_id" => e.value = TruckOrigin)
  <2>1. e \in PassedOn
    BY <1>1, KnownKinds
  <2> QED BY <2>1 DEF PassedOn, Put, RealsenseArguments, TruckOrigin
<1> HIDE DEF d
<1>5. "namespace" \in DOMAIN d => d.namespace = <<>>
  BY <1>3, <1>4 DEF Connected
<1>6. "namespace" \notin DOMAIN d => NavigationFirst(Tail(T))
  <2>1. ~SetsRoot(e)
    BY <1>1 DEF SetsRoot
  <2> QED BY <1>1, <1>3, <2>1, NavigationTail DEF Connected
<1>7. FrameAhead(Tail(T)) \/ ("frame_id" \in DOMAIN d /\ d.frame_id = TruckOrigin)
  <2>1. CASE e.name = "frame_id"
    BY <1>3, <1>4, <2>1
  <2>2. CASE e.name # "frame_id"
    <3>1. ~PutsFrame(e)
      BY <1>1, <2>2 DEF PutsFrame
    <3> QED BY <1>1, <1>3, <2>2, <3>1, FrameTail DEF Connected
  <2> QED BY <2>1, <2>2
<1> QED BY <1>2, <1>5, <1>6, <1>7 DEF Connected

LEMMA IncludeKeepsConnected ==
  ASSUME BringInv, PubInv, NEW l \in Launches, IncludeFile(l),
         Connected(todo[l], nodes[l], conf[l])
  PROVE  Connected(todo'[l], nodes'[l], conf'[l])
<1> DEFINE T == todo[l]
           e == Head(T)
           c == conf[l]
           F == Passed(e.name) \o Entities(e.name)
<1>1. e.do = "include" /\ T # <<>> /\ T \in Seq(Known) /\ e \in Known
  BY OthersSame DEF Visit, IncludeFile, Next1
<1>2. todo'[l] = F \o Tail(T) /\ nodes'[l] = nodes[l] /\ conf'[l] = c
  BY DEF IncludeFile, BringInv, Tables
<1>3. e.name \in Included /\ Tail(T) \in Seq(Known)
  BY <1>1, KnownKinds, TailItems
<1>4. F \in Seq(Known)
  BY <1>3, IncludeServed DEF InOrder
<1>5. /\ e.name = "nav2" => F # <<>> /\ SetsRoot(F[1])
      /\ e.name # "rtabmap" => \A i \in 1..Len(F) : ~SetsNamespace(F[i])
      /\ e.name = "rtabmap" => FrameAhead(F)
  BY <1>3, IncludeConnects
<1>6. e.name # "rtabmap" => Idle(F)
  <2>1. e.name \in Files(l)
    <3>1. T \in Seq(Fits(l))
      BY DEF PubInv, Fine, Ahead
    <3>2. e \in Fits(l)
      BY <1>1, <3>1, TailItems
    <3> QED BY <1>1, <3>2, FitsKinds
  <2> QED BY <2>1, LaunchesAre, IncludeAhead
<1> HIDE DEF F
<1>7. "namespace" \notin DOMAIN c => NavigationFirst(F \o Tail(T))
  <2> SUFFICES ASSUME "namespace" \notin DOMAIN c
               PROVE  NavigationFirst(F \o Tail(T))
    OBVIOUS
  <2>1. /\ ~SetsNamespace(e)
        /\ ~SetsRoot(e) => NavigationFirst(Tail(T))
    BY <1>1, NavigationTail DEF Connected
  <2>2. e.name # "rtabmap"
    BY <1>1, <2>1 DEF SetsNamespace
  <2>3. NavigationFirst(Tail(T)) \/ (F # <<>> /\ SetsRoot(F[1]))
    BY <1>1, <1>5, <2>1 DEF SetsRoot
  <2>4. \A i \in 1..Len(F) : ~SetsNamespace(F[i])
    BY <1>5, <2>2
  <2> QED BY <1>3, <1>4, <2>3, <2>4, NavigationJoin
<1>8. FrameAhead(F \o Tail(T)) \/ ("frame_id" \in DOMAIN c /\ c.frame_id = TruckOrigin)
  <2>1. CASE e.name = "rtabmap"
    BY <1>3, <1>4, <1>5, <2>1, FrameJoin
  <2>2. CASE e.name # "rtabmap" /\ FrameAhead(T)
    <3>1. ~PutsFrame(e)
      BY <1>1, <2>2 DEF PutsFrame
    <3>2. FrameAhead(Tail(T))
      BY <1>1, <2>2, <3>1, FrameTail
    <3> QED BY <1>3, <1>4, <1>6, <2>2, <3>2, FrameJoin
  <2>3. CASE ~FrameAhead(T)
    BY <2>3 DEF Connected
  <2> QED BY <2>1, <2>2, <2>3
<1> QED BY <1>2, <1>7, <1>8 DEF Connected

LEMMA StartConnects ==
  ASSUME BringInv, PubInv, NEW l \in Launches, StartNode(l),
         Connected(todo[l], nodes[l], conf[l])
  PROVE  Connected(todo'[l], nodes'[l], conf'[l])
<1> DEFINE T == todo[l]
           e == Head(T)
           n == e.name
           c == conf[l]
<1>1. e.do = "start" /\ T # <<>> /\ T \in Seq(Known) /\ e \in Known /\ Reads(e) \subseteq DOMAIN c
  BY OthersSame DEF Visit, StartNode, Next1
<1>2. /\ todo'[l] = Tail(T) /\ conf'[l] = c
      /\ \A m \in nodes'[l] : m \in nodes[l] \/ m = Node(n, c)
  BY DEF StartNode, Visited, BringInv, Tables
<1>3. n \in Processes /\ NodeReads(n) \subseteq DOMAIN c
  BY <1>1, KnownKinds DEF Reads
<1>4. "namespace" \notin DOMAIN c => NavigationFirst(Tail(T))
  <2>1. ~SetsRoot(e)
    BY <1>1 DEF SetsRoot
  <2> QED BY <1>1, <2>1, NavigationTail DEF Connected
<1>5. ~PutsFrame(e)
  BY <1>1 DEF PutsFrame
<1>6. FrameAhead(Tail(T)) \/ ("frame_id" \in DOMAIN c /\ c.frame_id = TruckOrigin)
  BY <1>1, <1>5, FrameTail DEF Connected
<1>7. Linked(Node(n, c))
  <2>1. n \in RtabmapNames => c.frame_id = TruckOrigin
    <3>1. n \in RtabmapNames => Relies(e)
      BY <1>1 DEF Relies
    <3> QED BY <1>1, <1>5, <3>1, FrameTail DEF Connected
  <2>2. Table(c)
    BY DEF PubInv, Fine
  <2> QED BY <1>3, <2>1, <2>2, StartedLinked DEF Connected
<1> QED BY <1>2, <1>4, <1>6, <1>7 DEF Connected

LEMMA RegisterConnects ==
  ASSUME BringInv, PubInv, NEW l \in Launches, RegisterHandler(l),
         Connected(todo[l], nodes[l], conf[l])
  PROVE  Connected(todo'[l], nodes'[l], conf'[l])
<1> DEFINE T == todo[l]
           e == Head(T)
           c == conf[l]
<1>1. e.do = "register" /\ T # <<>> /\ T \in Seq(Known)
  BY OthersSame DEF Visit, RegisterHandler, Next1
<1>2. todo'[l] = Tail(T) /\ conf'[l] = c /\ nodes'[l] = nodes[l]
  BY DEF RegisterHandler, Visited, BringInv, Tables
<1>3. ~SetsRoot(e) /\ ~PutsFrame(e)
  BY <1>1 DEF SetsRoot, PutsFrame
<1> QED BY <1>1, <1>2, <1>3, NavigationTail, FrameTail DEF Connected

(* Only the viewer ends with an error.                                       *)
LEMMA ViewEnds ==
  ASSUME BringInv, NEW l \in Launches, EndWithError(l)
  PROVE  l = "view"
<1>1. todo[l] # <<>> /\ ~(Reads(Head(todo[l])) \subseteq DOMAIN conf[l])
  BY DEF EndWithError
<1>2. Head(todo[l]).do # "include"
  BY <1>1 DEF Reads
<1>3. Reads(Head(todo[l])) \subseteq DOMAIN conf[l] \cup Granted(l)
  BY <1>1, <1>2, NextEntity DEF Needs
<1> QED BY <1>1, <1>3 DEF Granted

LEMMA VisitConnInv ==
  ASSUME BringInv, PubInv, ConnInv, NEW l \in Launches, Visit(l)
  PROVE  ConnInv'
<1>1. /\ UNCHANGED setup
      /\ \A k \in Launches : k # l =>
           todo'[k] = todo[k] /\ nodes'[k] = nodes[k] /\ conf'[k] = conf[k]
  BY OthersSame
<1>2. l = "realsense" /\ Connected(todo[l], nodes[l], conf[l]) =>
        Connected(todo'[l], nodes'[l], conf'[l])
  BY DeclareConnects, SetConnects, IncludeKeepsConnected, StartConnects, RegisterConnects,
     ViewEnds DEF Visit
<1> QED BY <1>1, <1>2, OneConnects

(* The spawners belong to the vehicle.                                       *)
LEMMA SpawnerConnInv ==
  ASSUME BringInv, PubInv, ConnInv, NEW l \in Launches, NEW n \in nodes[l], n.name \in DOMAIN Spawned,
         OnExit(l, n.name), UNCHANGED <<setup, conf, nodes>>
  PROVE  ConnInv'
<1>1. l # "realsense"
  <2>1. n.name \in Crew(l)
    BY DEF PubInv, Fine, Running
  <2> QED BY <2>1, CrewsAre, RtabmapNamesAre DEF Spawned
<1>2. \A k \in Launches : k # l =>
        todo'[k] = todo[k] /\ nodes'[k] = nodes[k] /\ conf'[k] = conf[k]
  BY DEF OnExit, BringInv, Tables
<1> QED BY <1>1, <1>2, OneConnects

(* For every command line that leaves the names alone: map, obstacles, pose  *)
(* and odometry reach the navigation from rtabmap_realsense.launch.py's own  *)
(* nodes, and its velocity reaches the drive controller.                     *)
THEOREM NavigationIsConnectedHolds == Spec /\ Ordinary => []NavigationIsConnected
<1>1. Init /\ Ordinary => ConnInv
  <2> SUFFICES ASSUME Init, Ordinary, "realsense" \in Launches
               PROVE  Connected(todo["realsense"], nodes["realsense"], conf["realsense"])
    BY DEF ConnInv
  <2>1. /\ todo["realsense"] = Entities("realsense") /\ nodes["realsense"] = {}
        /\ conf["realsense"] = setup.given["realsense"]
    BY DEF Init
  <2>2. "namespace" \notin DOMAIN conf["realsense"]
    BY <2>1 DEF Ordinary, TopicArguments
  <2> QED BY <2>1, <2>2, RealsenseConnects DEF Connected
<1>2. BringInv /\ PubInv /\ ConnInv /\ [Next]_vars => ConnInv'
  <2> SUFFICES ASSUME BringInv, PubInv, ConnInv, [Next]_vars
               PROVE  ConnInv'
    OBVIOUS
  <2>1. CASE UNCHANGED vars
    BY <2>1 DEF vars, ConnInv, Launches
  <2>2. ASSUME NEW l \in Launches, Publish(l) PROVE ConnInv'
    BY <2>2 DEF Publish, ConnInv, Launches
  <2>3. ASSUME NEW l \in Launches, SpawnerEnds(l) PROVE ConnInv'
    BY <2>3, SpawnerConnInv DEF SpawnerEnds
  <2>4. ASSUME NEW l \in Launches, SpawnerFails(l) PROVE ConnInv'
    BY <2>4, SpawnerConnInv DEF SpawnerFails
  <2> QED BY <2>1, <2>2, <2>3, <2>4, VisitConnInv DEF Next
<1>3. ConnInv => NavigationIsConnected
  <2> SUFFICES ASSUME ConnInv, "realsense" \in Launches, NEW n \in nodes["realsense"],
                      NEW m \in nodes["realsense"], NEW o \in nodes["realsense"],
                      n.name = "nav2", m.name = "rtabmap", o.name \in Odometries
               PROVE  (\A s \in n.in : s \subseteq m.out \cup o.out) /\ n.out = {CmdVel}
    BY DEF NavigationIsConnected
  <2>1. Linked(n) /\ Linked(m) /\ Linked(o)
    BY DEF ConnInv, Connected
  <2> QED BY <2>1 DEF Linked
<1> QED BY <1>1, <1>2, <1>3, BringInvHolds, PubInvHolds, PTL DEF Spec
==============================================================================
