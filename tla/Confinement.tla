---------------------------- MODULE Confinement -----------------------------
(***************************************************************************)
(* The kernel sandbox (src/src/sandbox): which rights a process keeps over *)
(* which places.  A layer restricts the rights it handles to what it       *)
(* grants; a thread has all the layers ever applied to it, and keeps a     *)
(* right only where all of them leave it.  That layers add up and cannot   *)
(* be lifted is the kernel's doing.                                        *)
(*                                                                         *)
(* A kernel is [platform, abi]: abi is the Landlock version detect_abi     *)
(* finds, 0 for none, and has no meaning but on linux.                     *)
(***************************************************************************)
EXTENDS Integers, FiniteSets

CONSTANTS Workdirs   \* the directories boxes are opened in, none inside another

SystemPlaces == {"tmp", "dev", "system", "home"}
Places == Workdirs \cup SystemPlaces

Everywhere(rights, places) == rights \X places

ReadRights == {"read"}
WriteRights == {"write", "make", "truncate"}   \* make: removing as well

\* AccessFs::from_all(abi) and AccessNet::from_all(abi): truncation is handled
\* from version 3, TCP from version 4.
HandledFs(abi) == ReadRights \cup {"write", "make"} \cup (IF abi >= 3 THEN {"truncate"} ELSE {})
HandledNet(abi) == IF abi >= 4 THEN {"network"} ELSE {}

\* linux::apply.  The network is in no rule: handling it blocks it.
LandlockLayer(abi, workdir, block_network) ==
    [handled |-> HandledFs(abi) \cup (IF block_network THEN HandledNet(abi) ELSE {}),
     granted |-> Everywhere(ReadRights \cup WriteRights, {workdir, "tmp"})
                 \cup Everywhere(ReadRights, {"system"})
                 \cup Everywhere({"read", "write"}, {"dev"})]

\* macos::generate_profile: all is denied but what is allowed; the files of the home
\* directory that are denied by name are not told apart from the rest of it.
SeatbeltLayer(workdir, block_network) ==
    [handled |-> ReadRights \cup WriteRights \cup (IF block_network THEN {"network"} ELSE {}),
     granted |-> Everywhere(ReadRights \cup WriteRights, {workdir, "tmp", "dev"})
                 \cup Everywhere(ReadRights, {"system"})]

\* check_supported.
Supported(kernel) == kernel.platform = "macos" \/ (kernel.platform = "linux" /\ kernel.abi > 0)

\* What confines all the threads of a process: all_threads(true), which Landlock can
\* grant from version 8 (before, only the calling thread is), and Seatbelt.
AllThreads(kernel) == kernel.platform = "macos" \/ (kernel.platform = "linux" /\ kernel.abi >= 8)

Keeps(layers, right, place) ==
    \A l \in layers : right \in l.handled => <<right, place>> \in l.granted

\* sandbox::apply: what it may make of the layers; an empty answer is an Err, which
\* Seatbelt also gives to a process it confines already.
Apply(kernel, layers, workdir, block_network) ==
    CASE kernel.platform = "linux" /\ kernel.abi > 0 ->
            {<<layers \cup {LandlockLayer(kernel.abi, workdir, block_network)}>>}
      [] kernel.platform = "macos" /\ layers = {} ->
            {<<>>, <<{SeatbeltLayer(workdir, block_network)}>>}
      [] OTHER -> {<<>>}
=============================================================================
