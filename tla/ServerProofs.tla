----------------------------- MODULE ServerProofs -----------------------------
(***************************************************************************)
(* Proofs about the server process: the identity it serves, the permits of *)
(* its admission and the cap on its streams, for any number of processes,  *)
(* starts, connections and permits.                                        *)
(***************************************************************************)
EXTENDS Server, FiniteSetTheorems, TLAPS

-----------------------------------------------------------------------------
(* The stream counter, for any number of wires and any cap.                *)

\* The sets of loops in flight are finite, and the entitled ones are some of
\* the undecided ones.
LEMMA InFlightFinite ==
  /\ IsFiniteSet(Undecided) /\ IsFiniteSet(Entitled)
  /\ Cardinality(Undecided) \in Nat /\ Cardinality(Entitled) \in Nat
  /\ Cardinality(Entitled) <= Cardinality(Undecided)
<1>1. Undecided \in SUBSET Wires /\ Entitled \in SUBSET Undecided
  BY DEF Undecided, Entitled
<1>2. IsFiniteSet(Undecided)
  BY <1>1, CapAssumption, FS_Subset
<1>3. IsFiniteSet(Entitled) /\ Cardinality(Entitled) <= Cardinality(Undecided)
  BY <1>1, <1>2, FS_Subset
<1>4. QED
  BY <1>2, <1>3, FS_CardinalityType

\* Initially nobody is in flight.
LEMMA InitEstablishes == Init => IInv
<1> SUFFICES ASSUME Init PROVE IInv
  OBVIOUS
<1>1. Undecided = {} /\ Entitled = {}
  BY DEF Init, Undecided, Entitled
<1>2. Cardinality(Undecided) = 0 /\ Cardinality(Entitled) = 0
  BY <1>1, FS_EmptySet
<1>3. QED
  BY <1>2, CapAssumption DEF Init, IInv, TypeOK, CountExact, EntitledFit

\* Every atomic operation on the counter keeps the accounting (fetch_add, the
\* comparison with its fetch_sub, BridgeStreamGuard::drop).
LEMMA StepPreserves == IInv /\ [Next]_vars => IInv'
<1> SUFFICES ASSUME IInv, [Next]_vars PROVE IInv'
  OBVIOUS
<1>0. /\ count \in Nat /\ live \in Nat
      /\ pc \in [Wires -> {"read", "compare"}] /\ prev \in [Wires -> Nat]
      /\ count = live + Cardinality(Undecided)
      /\ live + Cardinality(Entitled) <= MaxGlobal
      /\ MaxGlobal \in Nat
  BY CapAssumption DEF IInv, TypeOK, CountExact, EntitledFit
<1>a. /\ IsFiniteSet(Undecided) /\ IsFiniteSet(Entitled)
      /\ Cardinality(Undecided) \in Nat /\ Cardinality(Entitled) \in Nat
      /\ Cardinality(Entitled) <= Cardinality(Undecided)
  BY InFlightFinite
<1>1. ASSUME NEW w \in Wires, Take(w) PROVE IInv'
  <2>1. w \notin Undecided /\ w \notin Entitled
    BY <1>1 DEF Take, Undecided, Entitled
  <2>2. Undecided' = Undecided \cup {w}
    BY <1>0, <1>1 DEF Take, Undecided
  <2>3. Cardinality(Undecided') = Cardinality(Undecided) + 1
    BY <1>a, <2>1, <2>2, FS_AddElement
  <2>4. TypeOK' /\ CountExact'
    BY <1>0, <1>1, <1>a, <2>3 DEF Take, TypeOK, CountExact
  <2>5. CASE count < MaxGlobal
    <3>1. Entitled' = Entitled \cup {w}
      BY <1>0, <1>1, <2>5 DEF Take, Undecided, Entitled
    <3>2. Cardinality(Entitled') = Cardinality(Entitled) + 1
      BY <1>a, <2>1, <3>1, FS_AddElement
    <3>3. QED
      BY <1>0, <1>1, <1>a, <2>4, <2>5, <3>2 DEF Take, IInv, EntitledFit
  <2>6. CASE ~(count < MaxGlobal)
    <3>1. Entitled' = Entitled
      BY <1>0, <1>1, <2>6 DEF Take, Undecided, Entitled
    <3>2. QED
      BY <1>0, <1>1, <2>4, <3>1 DEF Take, IInv, EntitledFit
  <2>7. QED
    BY <2>5, <2>6
<1>2. ASSUME NEW w \in Wires, Admit(w) PROVE IInv'
  <2>1. w \in Undecided /\ w \in Entitled
    BY <1>2 DEF Admit, Undecided, Entitled
  <2>2. Undecided' = Undecided \ {w} /\ Entitled' = Entitled \ {w}
    BY <1>0, <1>2 DEF Admit, Undecided, Entitled
  <2>3. /\ Cardinality(Undecided') = Cardinality(Undecided) - 1
        /\ Cardinality(Entitled') = Cardinality(Entitled) - 1
    BY <1>a, <2>1, <2>2, FS_RemoveElement
  <2>4. QED
    BY <1>0, <1>2, <1>a, <2>3 DEF Admit, IInv, TypeOK, CountExact, EntitledFit
<1>3. ASSUME NEW w \in Wires, Refuse(w) PROVE IInv'
  <2>1. w \in Undecided /\ w \notin Entitled
    BY <1>0, <1>3 DEF Refuse, Undecided, Entitled
  <2>2. Undecided' = Undecided \ {w} /\ Entitled' = Entitled
    BY <1>0, <1>3 DEF Refuse, Undecided, Entitled
  <2>3. Cardinality(Undecided') = Cardinality(Undecided) - 1
    BY <1>a, <2>1, <2>2, FS_RemoveElement
  <2>4. Cardinality(Undecided) # 0
    BY <1>a, <2>1, FS_EmptySet
  <2>5. count - 1 \in Nat
    BY <1>0, <1>a, <2>4
  <2>6. QED
    BY <1>0, <1>3, <1>a, <2>2, <2>3, <2>5
    DEF Refuse, IInv, TypeOK, CountExact, EntitledFit
<1>4. CASE GuardDrops
  <2>1. Undecided' = Undecided /\ Entitled' = Entitled
    BY <1>4 DEF GuardDrops, Undecided, Entitled
  <2>2. QED
    BY <1>0, <1>4, <1>a, <2>1 DEF GuardDrops, IInv, TypeOK, CountExact, EntitledFit
<1>5. CASE UNCHANGED vars
  <2>1. Undecided' = Undecided /\ Entitled' = Entitled
    BY <1>5 DEF vars, Undecided, Entitled
  <2>2. QED
    BY <1>0, <1>5, <2>1 DEF vars, IInv, TypeOK, CountExact, EntitledFit
<1>6. QED
  BY <1>1, <1>2, <1>3, <1>4, <1>5 DEF Next

\* The counter is exact at every instant: its value is the relays that have not
\* returned and the demux loops between fetch_add and the comparison.
THEOREM CounterIsExact == Spec => []CountExact
<1>1. IInv => CountExact
  BY DEF IInv
<1>2. QED
  BY <1>1, InitEstablishes, StepPreserves, PTL DEF Spec

\* However many wires race between fetch_add and the comparison, there are
\* never more guarded relays than MAX_GLOBAL_BRIDGE_STREAMS.
THEOREM CapIsRespected == Spec => []CapHolds
<1>1. IInv => CapHolds
  BY InFlightFinite, CapAssumption DEF IInv, TypeOK, EntitledFit, CapHolds
<1>2. QED
  BY <1>1, InitEstablishes, StepPreserves, PTL DEF Spec

-----------------------------------------------------------------------------
(* The identity.                                                           *)

Labels == {"down", "load", "create", "write", "adopt", "bind", "serving", "exited"}

IdTypes ==
  /\ config \in [Instances -> Configs]
  /\ disk \in [Paths -> Int] /\ fresh \in Nat
  /\ inst \in [Instances -> [pc : Labels, key : Int]]
  /\ certs \subseteq Paths \X Nat

\* A process that is about to create, write or serve has a key.
KeyHeld == \A i \in Instances :
  inst[i].pc \in {"create", "write", "bind", "serving"} => inst[i].key \in Nat

\* A file that is being written is empty, and one process writes it: the winner of
\* create_new.
OneWriter ==
  /\ \A i \in Instances : inst[i].pc = "write" => disk[Path(i)] = Empty
  /\ \A i, j \in Instances :
       inst[i].pc = "write" /\ inst[j].pc = "write" /\ Path(i) = Path(j) => i = j

\* What was served is on the disk.
ServedOnDisk == \A c \in certs : disk[c[1]] = c[2]

IdInv == IdTypes /\ KeyHeld /\ OneWriter /\ ServedOnDisk

\* A process works on one of the two files.
LEMMA PathType == IdTypes => \A i \in Instances : Path(i) \in Paths
BY DEF IdTypes, Path, Paths

\* A record update, field by field.
LEMMA PcUpdate ==
  ASSUME NEW r, NEW key, NEW old, r = [pc |-> old, key |-> key], NEW label
  PROVE  [r EXCEPT !.pc = label] = [pc |-> label, key |-> key]
OBVIOUS

\* The process that steps has its new record, the others keep theirs.
LEMMA InstUpdate ==
  ASSUME IdTypes, NEW i \in Instances, NEW label \in Labels
  PROVE  [inst EXCEPT ![i].pc = label] = [inst EXCEPT ![i] = [pc |-> label, key |-> inst[i].key]]
<1>1. inst[i] = [pc |-> inst[i].pc, key |-> inst[i].key]
  BY DEF IdTypes
<1>2. [inst[i] EXCEPT !.pc = label] = [pc |-> label, key |-> inst[i].key]
  BY <1>1, PcUpdate
<1>3. QED
  BY <1>2

\* IdInv holds when no process has started.
LEMMA IdentityInitInv == IdentityInit => IdInv
BY IdentityAssumption
   DEF IdentityInit, IdInv, IdTypes, KeyHeld, OneWriter, ServedOnDisk, Down, Labels, Empty,
       Absent, Paths

\* Process i goes to a label at which it does not write.  If it was writing, its file
\* may have changed; if it serves what its file holds, that is noted in certs.
LEMMA LeaveKeeps ==
  ASSUME IdInv, NEW i \in Instances, NEW label \in Labels \ {"write"}, NEW key \in Int,
         label \in {"create", "bind", "serving"} => key \in Nat,
         inst' = [inst EXCEPT ![i] = [pc |-> label, key |-> key]],
         disk' = disk \/ inst[i].pc = "write",
         disk' \in [Paths -> Int],
         \A p \in Paths : p # Path(i) => disk'[p] = disk[p],
         \/ certs' = certs
         \/ disk'[Path(i)] \in Nat /\ certs' = certs \cup {<<Path(i), disk'[Path(i)]>>},
         config' = config, fresh' \in Nat
  PROVE  IdInv'
<1>0. Path(i) \in Paths /\ \A j \in Instances : Path(j)' = Path(j)
  BY PathType DEF IdInv, Path
<1>1. IdTypes'
  BY <1>0 DEF IdInv, IdTypes
<1>2. KeyHeld'
  BY DEF IdInv, IdTypes, KeyHeld
<1>3. /\ inst'[i].pc # "write"
      /\ \A j \in Instances : j # i => inst'[j] = inst[j]
  BY DEF IdInv, IdTypes
<1>4. ASSUME NEW j \in Instances, inst'[j].pc = "write"
      PROVE  disk'[Path(j)] = Empty
  <2>1. j # i /\ inst[j].pc = "write" /\ disk[Path(j)] = Empty /\ Path(j) \in Paths
    BY <1>3, <1>4, PathType DEF IdInv, OneWriter
  <2>2. CASE disk' = disk
    BY <2>1, <2>2
  <2>3. CASE inst[i].pc = "write"
    <3>1. Path(j) # Path(i)
      BY <2>1, <2>3 DEF IdInv, OneWriter
    <3>2. QED
      BY <2>1, <3>1
  <2>4. QED
    BY <2>2, <2>3
<1>5. OneWriter'
  <2>1. ASSUME NEW j \in Instances, NEW k \in Instances,
               inst'[j].pc = "write", inst'[k].pc = "write", Path(j) = Path(k)
        PROVE  j = k
    BY <1>3, <2>1 DEF IdInv, OneWriter
  <2>2. QED
    BY <1>0, <1>4, <2>1 DEF OneWriter
<1>6. ASSUME NEW c \in certs' PROVE disk'[c[1]] = c[2]
  <2>1. CASE c \in certs
    <3>1. c[1] \in Paths /\ c[2] \in Nat /\ disk[c[1]] = c[2]
      BY <2>1 DEF IdInv, IdTypes, ServedOnDisk
    <3>2. CASE disk' = disk
      BY <3>1, <3>2
    <3>3. CASE inst[i].pc = "write"
      <4>1. disk[Path(i)] = Empty
        BY <3>3 DEF IdInv, OneWriter
      <4>2. c[1] # Path(i)
        BY <3>1, <4>1 DEF Empty
      <4>3. QED
        BY <3>1, <4>2
    <3>4. QED
      BY <3>2, <3>3
  <2>2. CASE c \notin certs
    <3>1. c = <<Path(i), disk'[Path(i)]>>
      BY <1>6, <2>2
    <3>2. QED
      BY <3>1
  <2>3. QED
    BY <2>1, <2>2
<1>7. QED
  BY <1>1, <1>2, <1>5, <1>6 DEF IdInv, ServedOnDisk

\* The same with the files as they were and nothing served.
LEMMA MoveKeeps ==
  ASSUME IdInv, NEW i \in Instances, NEW label \in Labels \ {"write"}, NEW key \in Int,
         label \in {"create", "bind", "serving"} => key \in Nat,
         inst' = [inst EXCEPT ![i] = [pc |-> label, key |-> key]],
         disk' = disk, certs' = certs, config' = config, fresh' \in Nat
  PROVE  IdInv'
<1>1. disk' \in [Paths -> Int]
  BY DEF IdInv, IdTypes
<1>2. QED
  BY <1>1, LeaveKeeps

\* finish: a key is served, and if persisted it is the one on disk.
LEMMA FinishKeeps ==
  ASSUME IdInv, NEW i \in Instances, NEW key \in Nat, NEW persisted \in BOOLEAN,
         Finish(i, key, persisted),
         disk' = disk \/ inst[i].pc = "write",
         disk' \in [Paths -> Int],
         \A p \in Paths : p # Path(i) => disk'[p] = disk[p],
         persisted => disk'[Path(i)] = key,
         config' = config, fresh' \in Nat
  PROVE  IdInv'
<1>1. /\ inst' = [inst EXCEPT ![i] = [pc |-> "bind", key |-> key]]
      /\ \/ certs' = certs
         \/ disk'[Path(i)] \in Nat /\ certs' = certs \cup {<<Path(i), disk'[Path(i)]>>}
  BY DEF Finish
<1>2. "bind" \in Labels \ {"write"} /\ key \in Int
  BY DEF Labels
<1>3. QED
  BY <1>1, <1>2, LeaveKeeps

\* Every step of a process keeps IdInv (load_identity, write_secret_file, the bind,
\* a crash).
LEMMA IdentityStep ==
  ASSUME IdInv, NEW i \in Instances, Start(i) \/ Load(i) \/ Crash(i)
  PROVE  IdInv'
<1>0. /\ IdTypes /\ KeyHeld /\ Path(i) \in Paths
      /\ inst[i] \in [pc : Labels, key : Int] /\ disk[Path(i)] \in Int
      /\ fresh \in Nat /\ fresh + 1 \in Nat
  BY PathType DEF IdInv, IdTypes
<1>a. ASSUME Exit(i), config' = config, fresh' \in Nat,
             disk' = disk \/ inst[i].pc = "write",
             disk' \in [Paths -> Int],
             \A p \in Paths : p # Path(i) => disk'[p] = disk[p]
      PROVE  IdInv'
  <2>1. inst' = [inst EXCEPT ![i] = [pc |-> "exited", key |-> Empty]] /\ certs' = certs
    <3>1. [Down EXCEPT !.pc = "exited"] = [pc |-> "exited", key |-> Empty]
      BY PcUpdate DEF Down
    <3>2. QED
      BY <1>a, <3>1 DEF Exit
  <2>2. "exited" \in Labels \ {"write"} /\ Empty \in Int
    BY DEF Labels, Empty
  <2>3. QED
    BY <1>a, <2>1, <2>2, LeaveKeeps
<1>1. CASE Start(i)
  <2>1. inst' = [inst EXCEPT ![i] = [pc |-> "load", key |-> inst[i].key]]
    BY <1>0, <1>1, InstUpdate DEF Start, Labels
  <2>2. disk' = disk /\ certs' = certs /\ config' = config /\ fresh' \in Nat
    BY <1>0, <1>1 DEF Start
  <2>3. "load" \in Labels \ {"write"} /\ inst[i].key \in Int
    BY <1>0 DEF Labels
  <2>4. QED
    BY <2>1, <2>2, <2>3, MoveKeeps
<1>2. CASE LoadElsewhere(i)
  <2>1. \E key \in Nat : Finish(i, key, FALSE)
    BY <1>0, <1>2 DEF LoadElsewhere, FlagKey
  <2>2. disk' = disk /\ config' = config /\ fresh' \in Nat
    BY <1>0, <1>2 DEF LoadElsewhere
  <2>3. QED
    BY <1>0, <2>1, <2>2, FinishKeeps DEF IdTypes
<1>3. CASE LoadFile(i) \/ Adopt(i)
  <2>1. disk' = disk /\ config' = config /\ fresh' = fresh
    BY <1>3 DEF LoadFile, Adopt
  <2>2. CASE Parses(disk[Path(i)]) /\ Finish(i, disk[Path(i)], TRUE)
    <3>1. disk[Path(i)] \in Nat
      BY <1>0, <2>2 DEF Parses
    <3>2. QED
      BY <1>0, <2>1, <2>2, <3>1, FinishKeeps DEF IdTypes
  <2>3. CASE Exit(i)
    BY <1>0, <2>1, <2>3, <1>a DEF IdTypes
  <2>4. QED
    BY <1>3, <2>2, <2>3 DEF LoadFile, Adopt
<1>4. CASE Generate(i)
  <2>1. inst' = [inst EXCEPT ![i] = [pc |-> "create", key |-> fresh + 1]]
    BY <1>4 DEF Generate
  <2>2. disk' = disk /\ certs' = certs /\ config' = config /\ fresh' \in Nat
    BY <1>0, <1>4 DEF Generate
  <2>3. fresh + 1 \in Int /\ "create" \in Labels \ {"write"}
    BY <1>0 DEF Labels
  <2>4. QED
    BY <1>0, <2>1, <2>2, <2>3, MoveKeeps
<1>5. CASE Create(i)
  <2>0. config' = config /\ fresh' = fresh /\ certs' = certs /\ inst[i].pc = "create"
    BY <1>5 DEF Create
  <2>1. CASE disk[Path(i)] = Absent /\ disk' = [disk EXCEPT ![Path(i)] = Empty]
             /\ inst' = [inst EXCEPT ![i].pc = "write"]
    <3>0. \A j \in Instances : Path(j)' = Path(j) /\ Path(j) \in Paths
      BY <2>0, PathType DEF IdInv, Path
    <3>1. IdTypes'
      BY <1>0, <2>0, <2>1 DEF IdTypes, Labels, Empty
    <3>2. /\ inst'[i].key = inst[i].key /\ inst[i].key \in Nat
          /\ \A j \in Instances : j # i => inst'[j] = inst[j]
      BY <1>0, <2>0, <2>1 DEF IdTypes, KeyHeld
    <3>3. KeyHeld'
      BY <1>0, <3>2 DEF KeyHeld
    <3>4. \A p \in Paths : disk'[p] = IF p = Path(i) THEN Empty ELSE disk[p]
      BY <1>0, <2>1 DEF IdTypes
    <3>5. \A j \in Instances : j # i /\ inst[j].pc = "write" => Path(j) # Path(i)
      BY <2>1 DEF IdInv, OneWriter, Empty, Absent
    <3>6. OneWriter'
      BY <3>0, <3>2, <3>4, <3>5 DEF IdInv, OneWriter
    <3>7. ServedOnDisk'
      <4>1. ASSUME NEW c \in certs PROVE disk'[c[1]] = c[2]
        <5>1. c[1] \in Paths /\ c[2] \in Nat /\ disk[c[1]] = c[2]
          BY DEF IdInv, IdTypes, ServedOnDisk
        <5>2. c[1] # Path(i)
          BY <2>1, <5>1 DEF Absent
        <5>3. QED
          BY <3>4, <5>1, <5>2
      <4>2. QED
        BY <2>0, <4>1 DEF ServedOnDisk
    <3>8. QED
      BY <3>1, <3>3, <3>6, <3>7 DEF IdInv
  <2>2. CASE disk' = disk /\ inst' = [inst EXCEPT ![i].pc = "adopt"]
    <3>1. inst' = [inst EXCEPT ![i] = [pc |-> "adopt", key |-> inst[i].key]]
      BY <1>0, <2>2, InstUpdate DEF Labels
    <3>2. "adopt" \in Labels \ {"write"} /\ inst[i].key \in Int
      BY <1>0 DEF Labels
    <3>3. disk' = disk /\ certs' = certs /\ config' = config /\ fresh' \in Nat
      BY <1>0, <2>0, <2>2
    <3>4. QED
      BY <3>1, <3>2, <3>3, MoveKeeps
  <2>3. CASE disk' = disk /\ inst' = [inst EXCEPT ![i] = [Down EXCEPT !.pc = "exited"]]
    BY <1>0, <2>0, <2>3, <1>a DEF Exit, IdTypes
  <2>4. QED
    BY <1>5, <2>1, <2>2, <2>3 DEF Create
<1>6. CASE Write(i)
  <2>0. /\ inst[i].pc = "write" /\ inst[i].key \in Nat
        /\ config' = config /\ fresh' = fresh
        /\ disk' = [disk EXCEPT ![Path(i)] = inst[i].key]
    BY <1>0, <1>6 DEF Write, KeyHeld
  <2>1. /\ disk' \in [Paths -> Int] /\ disk'[Path(i)] = inst[i].key
        /\ \A p \in Paths : p # Path(i) => disk'[p] = disk[p]
    BY <1>0, <2>0 DEF IdTypes
  <2>2. CASE Finish(i, inst[i].key, TRUE)
    BY <1>0, <2>0, <2>1, <2>2, FinishKeeps
  <2>3. CASE Exit(i)
    BY <1>0, <2>0, <2>1, <2>3, <1>a
  <2>4. QED
    BY <1>6, <2>2, <2>3 DEF Write
<1>7. CASE WriteFails(i)
  <2>0. /\ inst[i].pc \in {"create", "write"} /\ inst[i].key \in Nat
        /\ config' = config /\ fresh' = fresh
        /\ disk' = disk \/ (inst[i].pc = "write" /\ disk' = [disk EXCEPT ![Path(i)] = Absent])
    BY <1>0, <1>7 DEF WriteFails, KeyHeld
  <2>1. /\ disk' \in [Paths -> Int]
        /\ \A p \in Paths : p # Path(i) => disk'[p] = disk[p]
    BY <1>0, <2>0 DEF IdTypes, Absent
  <2>2. CASE Finish(i, inst[i].key, FALSE)
    BY <1>0, <2>0, <2>1, <2>2, FinishKeeps
  <2>3. CASE Exit(i)
    BY <1>0, <2>0, <2>1, <2>3, <1>a
  <2>4. QED
    BY <1>7, <2>2, <2>3 DEF WriteFails
<1>8. CASE Bind(i)
  <2>0. disk' = disk /\ config' = config /\ fresh' = fresh /\ inst[i].pc = "bind"
    BY <1>8 DEF Bind
  <2>1. CASE inst' = [inst EXCEPT ![i].pc = "serving"] /\ certs' = certs
    <3>1. inst' = [inst EXCEPT ![i] = [pc |-> "serving", key |-> inst[i].key]]
      BY <1>0, <2>1, InstUpdate DEF Labels
    <3>2. inst[i].key \in Nat
      BY <1>0, <2>0 DEF KeyHeld
    <3>3. "serving" \in Labels \ {"write"} /\ inst[i].key \in Int
      BY <3>2 DEF Labels
    <3>4. disk' = disk /\ certs' = certs /\ config' = config /\ fresh' \in Nat
      BY <1>0, <2>0, <2>1
    <3>5. QED
      BY <3>1, <3>2, <3>3, <3>4, MoveKeeps
  <2>2. CASE Exit(i)
    BY <1>0, <2>0, <2>2, <1>a DEF IdTypes
  <2>3. QED
    BY <1>8, <2>1, <2>2 DEF Bind
<1>9. CASE Crash(i)
  <2>1. inst' = [inst EXCEPT ![i] = [pc |-> "down", key |-> Empty]]
    BY <1>9 DEF Crash, Down
  <2>2. disk' = disk /\ certs' = certs /\ config' = config /\ fresh' \in Nat
    BY <1>0, <1>9 DEF Crash
  <2>3. "down" \in Labels \ {"write"} /\ Empty \in Int
    BY DEF Labels, Empty
  <2>4. QED
    BY <2>1, <2>2, <2>3, MoveKeeps
<1>10. QED
  BY <1>1, <1>2, <1>3, <1>4, <1>5, <1>6, <1>7, <1>8, <1>9 DEF Load

-----------------------------------------------------------------------------
(* Admission.                                                              *)

Phases == {"closed", "shed", "handshake", "blackhole", "gate", "established"}

AdmTypes ==
  /\ conn \in [Wires -> Phases]
  /\ left \in [Wires -> Nat] /\ held \in [Wires -> Nat]
  /\ hsFree \in Nat /\ connFree \in Nat

\* Each permit is free or with one connection.
PermitsHeld ==
  /\ hsFree + Phase({"handshake", "blackhole"}) = MaxHandshakes
  /\ connFree + Phase({"established"}) = MaxConnections

\* What is left of a timer and the time the permit has been held add up to at most
\* the limit of the phase.
TimerBound(c) ==
  /\ conn[c] = "handshake" => held[c] + left[c] = HandshakeTicks
  /\ conn[c] = "blackhole" =>
       \E longest \in BlackholeTicks : held[c] + left[c] <= HandshakeTicks + longest
  /\ conn[c] \notin {"handshake", "blackhole"} => held[c] = 0
TimersBound == \A c \in Wires : TimerBound(c)

AdmInv == AdmTypes /\ PermitsHeld /\ TimersBound

\* How many connections are in a phase changes with the one that moves.
LEMMA PhaseMoves ==
  ASSUME AdmTypes, NEW c \in Wires, NEW ph \in Phases, conn' = [conn EXCEPT ![c] = ph], NEW S
  PROVE  /\ Phase(S) \in Nat
         /\ conn[c] \in S /\ ph \notin S => Phase(S)' = Phase(S) - 1
         /\ conn[c] \notin S /\ ph \in S => Phase(S)' = Phase(S) + 1
         /\ (conn[c] \in S <=> ph \in S) => Phase(S)' = Phase(S)
<1> DEFINE In == {d \in Wires : conn[d] \in S}
           Out == {d \in Wires : conn'[d] \in S}
<1>0. /\ conn'[c] = ph
      /\ \A d \in Wires : d # c => conn'[d] = conn[d]
  BY DEF AdmTypes
<1>1. IsFiniteSet(In) /\ Cardinality(In) \in Nat
  <2>1. In \in SUBSET Wires
    OBVIOUS
  <2>2. IsFiniteSet(In)
    BY <2>1, CapAssumption, FS_Subset
  <2>3. QED
    BY <2>2, FS_CardinalityType
<1>2. Phase(S) = Cardinality(In) /\ Phase(S)' = Cardinality(Out)
  BY DEF Phase
<1>3. ASSUME conn[c] \in S, ph \notin S PROVE Cardinality(Out) = Cardinality(In) - 1
  <2>1. Out = In \ {c} /\ c \in In
    BY <1>0, <1>3
  <2>2. QED
    BY <1>1, <2>1, FS_RemoveElement
<1>4. ASSUME conn[c] \notin S, ph \in S PROVE Cardinality(Out) = Cardinality(In) + 1
  <2>1. Out = In \cup {c} /\ c \notin In
    BY <1>0, <1>4
  <2>2. QED
    BY <1>1, <2>1, FS_AddElement
<1>5. ASSUME conn[c] \in S <=> ph \in S PROVE Out = In
  BY <1>0, <1>5
<1>6. QED
  BY <1>1, <1>2, <1>3, <1>4, <1>5

\* With every connection closed, and all permits free, AdmInv holds.
LEMMA AllClosed == AdmissionInit => AdmInv
<1> SUFFICES ASSUME AdmissionInit PROVE AdmInv
  OBVIOUS
<1> USE DEF AdmissionInit
<1>1. AdmTypes
  BY ServerAssumption DEF AdmTypes, Phases
<1>2. /\ {c \in Wires : conn[c] \in {"handshake", "blackhole"}} = {}
      /\ {c \in Wires : conn[c] \in {"established"}} = {}
  OBVIOUS
<1>3. Phase({"handshake", "blackhole"}) = 0 /\ Phase({"established"}) = 0
  BY <1>2, FS_EmptySet DEF Phase
<1>4. PermitsHeld
  BY <1>3, ServerAssumption DEF PermitsHeld
<1>5. TimersBound
  BY DEF TimersBound, TimerBound
<1>6. QED
  BY <1>1, <1>4, <1>5 DEF AdmInv

One(b) == IF b THEN 1 ELSE 0

\* Connection c goes to phase ph, and takes or returns the permits that the two
\* phases differ by.
LEMMA MovesExactly ==
  ASSUME AdmInv, NEW c \in Wires, NEW ph \in Phases,
         conn' = [conn EXCEPT ![c] = ph],
         left' \in [Wires -> Nat], held' \in [Wires -> Nat],
         \A d \in Wires \ {c} : left'[d] = left[d] /\ held'[d] = held[d],
         hsFree' \in Nat, connFree' \in Nat,
         hsFree' = hsFree + One(conn[c] \in {"handshake", "blackhole"})
                          - One(ph \in {"handshake", "blackhole"}),
         connFree' = connFree + One(conn[c] \in {"established"}) - One(ph \in {"established"}),
         TimerBound(c)'
  PROVE  AdmInv'
<1>0. AdmTypes /\ PermitsHeld /\ TimersBound /\ hsFree \in Nat /\ connFree \in Nat
  BY DEF AdmInv, AdmTypes
<1>1. AdmTypes'
  BY <1>0 DEF AdmTypes
<1>2. ASSUME NEW S
      PROVE  /\ Phase(S) \in Nat
             /\ Phase(S)' = Phase(S) - One(conn[c] \in S) + One(ph \in S)
  <2>1. /\ Phase(S) \in Nat
        /\ conn[c] \in S /\ ph \notin S => Phase(S)' = Phase(S) - 1
        /\ conn[c] \notin S /\ ph \in S => Phase(S)' = Phase(S) + 1
        /\ (conn[c] \in S <=> ph \in S) => Phase(S)' = Phase(S)
    BY <1>0, PhaseMoves
  <2>2. CASE conn[c] \in S
    BY <2>1, <2>2 DEF One
  <2>3. CASE conn[c] \notin S
    BY <2>1, <2>3 DEF One
  <2>4. QED
    BY <2>1, <2>2, <2>3
<1>3. /\ Phase({"handshake", "blackhole"})' = Phase({"handshake", "blackhole"})
            - One(conn[c] \in {"handshake", "blackhole"}) + One(ph \in {"handshake", "blackhole"})
      /\ Phase({"handshake", "blackhole"}) \in Nat
  BY <1>2
<1>4. /\ Phase({"established"})' = Phase({"established"})
            - One(conn[c] \in {"established"}) + One(ph \in {"established"})
      /\ Phase({"established"}) \in Nat
  BY <1>2
<1>5. /\ One(conn[c] \in {"handshake", "blackhole"}) \in Int
      /\ One(ph \in {"handshake", "blackhole"}) \in Int
      /\ One(conn[c] \in {"established"}) \in Int
      /\ One(ph \in {"established"}) \in Int
  BY DEF One
<1>6. PermitsHeld'
  <2>2. hsFree + Phase({"handshake", "blackhole"}) = MaxHandshakes
        /\ connFree + Phase({"established"}) = MaxConnections
    BY <1>0 DEF PermitsHeld
  <2>3. hsFree' + Phase({"handshake", "blackhole"})' = MaxHandshakes
    BY <1>0, <1>3, <1>5, <2>2
  <2>4. connFree' + Phase({"established"})' = MaxConnections
    BY <1>0, <1>4, <1>5, <2>2
  <2>5. QED
    BY <2>3, <2>4 DEF PermitsHeld
<1>7. TimersBound'
  BY <1>0 DEF TimersBound, TimerBound, AdmTypes
<1>8. QED
  BY <1>1, <1>6, <1>7 DEF AdmInv

\* Every step of the admission keeps AdmInv (serve_accept_loop,
\* handle_server_connection_with_lab, blackhole).
LEMMA AdmissionStep ==
  ASSUME AdmInv, NEW c \in Wires, Admission(c)
  PROVE  AdmInv'
<1>0. /\ conn \in [Wires -> Phases] /\ left \in [Wires -> Nat] /\ held \in [Wires -> Nat]
      /\ TimerBound(c) /\ hsFree \in Nat /\ connFree \in Nat
      /\ HandshakeTicks \in Nat /\ BlackholeTicks \subseteq Nat
  BY ServerAssumption DEF AdmInv, AdmTypes, TimersBound
<1>1. CASE Accept(c)
  <2>1. CASE hsFree > 0
    <3>1. TimerBound(c)'
      BY <1>0, <1>1, <2>1 DEF Accept, TimerBound
    <3>2. QED
      BY <1>0, <1>1, <2>1, <3>1, MovesExactly DEF Accept, Phases, One
  <2>2. CASE ~(hsFree > 0)
    <3>1. TimerBound(c)'
      BY <1>0, <1>1, <2>2 DEF Accept, TimerBound
    <3>2. QED
      BY <1>0, <1>1, <2>2, <3>1, MovesExactly DEF Accept, Phases, One
  <2>3. QED
    BY <2>1, <2>2
<1>2. ASSUME NEW ticks \in BlackholeTicks, Blackholed(c, ticks) PROVE AdmInv'
  <2>1. held[c] <= HandshakeTicks /\ left'[c] = ticks /\ held' = held
        /\ conn'[c] = "blackhole"
    BY <1>0, <1>2 DEF Blackholed, TimerBound
  <2>2. TimerBound(c)'
    BY <1>0, <2>1 DEF TimerBound
  <2>3. QED
    <3>1. /\ conn[c] = "handshake" /\ "blackhole" \in Phases
          /\ conn' = [conn EXCEPT ![c] = "blackhole"]
          /\ left' \in [Wires -> Nat] /\ held' \in [Wires -> Nat]
          /\ \A d \in Wires \ {c} : left'[d] = left[d] /\ held'[d] = held[d]
          /\ hsFree' \in Nat /\ connFree' \in Nat
          /\ hsFree' = hsFree /\ connFree' = connFree
      BY <1>0, <1>2 DEF Blackholed, Phases
    <3>2. /\ hsFree' = hsFree + One(conn[c] \in {"handshake", "blackhole"})
                               - One("blackhole" \in {"handshake", "blackhole"})
          /\ connFree' = connFree + One(conn[c] \in {"established"})
                                   - One("blackhole" \in {"established"})
      BY <1>0, <3>1 DEF One
    <3>3. QED
      BY <2>2, <3>1, <3>2, MovesExactly
<1>3. ASSUME NEW peerCloses \in BOOLEAN, BlackholeEnds(c, peerCloses) PROVE AdmInv'
  <2>1. TimerBound(c)'
    BY <1>0, <1>3 DEF BlackholeEnds, TimerBound
  <2>2. QED
    <3>1. /\ conn[c] = "blackhole" /\ "closed" \in Phases
          /\ conn' = [conn EXCEPT ![c] = "closed"]
          /\ left' \in [Wires -> Nat] /\ held' \in [Wires -> Nat]
          /\ \A d \in Wires \ {c} : left'[d] = left[d] /\ held'[d] = held[d]
          /\ hsFree' \in Nat /\ connFree' \in Nat
          /\ hsFree' = hsFree + 1 /\ connFree' = connFree
      BY <1>0, <1>3 DEF BlackholeEnds, Phases
    <3>2. /\ hsFree' = hsFree + One(conn[c] \in {"handshake", "blackhole"})
                               - One("closed" \in {"handshake", "blackhole"})
          /\ connFree' = connFree + One(conn[c] \in {"established"})
                                   - One("closed" \in {"established"})
      BY <1>0, <3>1 DEF One
    <3>3. QED
      BY <2>1, <3>1, <3>2, MovesExactly
<1>4. CASE Complete(c)
  <2>1. TimerBound(c)'
    BY <1>0, <1>4 DEF Complete, TimerBound
  <2>2. QED
    <3>1. /\ conn[c] = "handshake" /\ "gate" \in Phases
          /\ conn' = [conn EXCEPT ![c] = "gate"]
          /\ left' \in [Wires -> Nat] /\ held' \in [Wires -> Nat]
          /\ \A d \in Wires \ {c} : left'[d] = left[d] /\ held'[d] = held[d]
          /\ hsFree' \in Nat /\ connFree' \in Nat
          /\ hsFree' = hsFree + 1 /\ connFree' = connFree
      BY <1>0, <1>4 DEF Complete, Phases
    <3>2. /\ hsFree' = hsFree + One(conn[c] \in {"handshake", "blackhole"})
                               - One("gate" \in {"handshake", "blackhole"})
          /\ connFree' = connFree + One(conn[c] \in {"established"})
                                   - One("gate" \in {"established"})
      BY <1>0, <3>1 DEF One
    <3>3. QED
      BY <2>1, <3>1, <3>2, MovesExactly
<1>5. CASE PassGate(c)
  <2>1. TimerBound(c)'
    BY <1>0, <1>5 DEF PassGate, TimerBound
  <2>2. CASE connFree > 0
    BY <1>0, <1>5, <2>1, <2>2, MovesExactly DEF PassGate, Phases, One
  <2>3. CASE ~(connFree > 0)
    BY <1>0, <1>5, <2>1, <2>3, MovesExactly DEF PassGate, Phases, One
  <2>4. QED
    BY <2>2, <2>3
<1>6. CASE DemuxReturns(c)
  <2>1. TimerBound(c)'
    BY <1>0, <1>6 DEF DemuxReturns, TimerBound
  <2>2. QED
    <3>1. /\ conn[c] = "established" /\ "closed" \in Phases
          /\ conn' = [conn EXCEPT ![c] = "closed"]
          /\ left' \in [Wires -> Nat] /\ held' \in [Wires -> Nat]
          /\ \A d \in Wires \ {c} : left'[d] = left[d] /\ held'[d] = held[d]
          /\ hsFree' \in Nat /\ connFree' \in Nat
          /\ hsFree' = hsFree /\ connFree' = connFree + 1
      BY <1>0, <1>6 DEF DemuxReturns, Phases
    <3>2. /\ hsFree' = hsFree + One(conn[c] \in {"handshake", "blackhole"})
                               - One("closed" \in {"handshake", "blackhole"})
          /\ connFree' = connFree + One(conn[c] \in {"established"})
                                   - One("closed" \in {"established"})
      BY <1>0, <3>1 DEF One
    <3>3. QED
      BY <2>1, <3>1, <3>2, MovesExactly
<1>7. QED
  BY <1>1, <1>2, <1>3, <1>4, <1>5, <1>6 DEF Admission

\* Time passes for all timers at once.
LEMMA TickKeeps == AdmInv /\ ServerTick => AdmInv'
<1> SUFFICES ASSUME AdmInv, ServerTick PROVE AdmInv'
  OBVIOUS
<1>0. /\ conn \in [Wires -> Phases] /\ left \in [Wires -> Nat] /\ held \in [Wires -> Nat]
      /\ conn' = conn /\ hsFree' = hsFree /\ connFree' = connFree
      /\ HandshakeTicks \in Nat /\ BlackholeTicks \subseteq Nat
  BY ServerAssumption DEF AdmInv, AdmTypes, ServerTick
<1>1. ASSUME NEW c \in Wires
      PROVE  left'[c] \in Nat /\ held'[c] \in Nat /\ TimerBound(c)'
  <2>1. CASE Timed(c)
    <3>1. /\ left[c] \in Nat /\ held[c] \in Nat /\ left[c] > 0
          /\ left'[c] = left[c] - 1 /\ held'[c] = held[c] + 1
      BY <1>0, <2>1 DEF ServerTick
    <3>2. left'[c] \in Nat /\ held'[c] \in Nat /\ held'[c] + left'[c] = held[c] + left[c]
      BY <3>1
    <3>3. TimerBound(c) /\ conn[c] \in {"handshake", "blackhole"}
      BY <2>1 DEF AdmInv, TimersBound, Timed
    <3>4. QED
      BY <1>0, <3>2, <3>3 DEF TimerBound
  <2>2. CASE ~Timed(c)
    <3>1. left'[c] = left[c] /\ held'[c] = held[c]
      BY <1>0, <2>2 DEF ServerTick
    <3>2. TimerBound(c) /\ conn[c] \notin {"handshake", "blackhole"}
      BY <2>2 DEF AdmInv, TimersBound, Timed
    <3>3. QED
      BY <1>0, <3>1, <3>2 DEF TimerBound
  <2>3. QED
    BY <2>1, <2>2
<1>2. left' \in [Wires -> Nat] /\ held' \in [Wires -> Nat]
  <2>1. /\ left' = [c \in Wires |-> left'[c]]
        /\ held' = [c \in Wires |-> held'[c]]
    BY DEF ServerTick
  <2>2. QED
    BY <1>1, <2>1
<1>3. AdmTypes'
  BY <1>0, <1>2 DEF AdmInv, AdmTypes
<1>4. PermitsHeld'
  BY <1>0 DEF AdmInv, PermitsHeld, Phase
<1>5. TimersBound'
  BY <1>1 DEF TimersBound
<1>6. QED
  BY <1>3, <1>4, <1>5 DEF AdmInv

-----------------------------------------------------------------------------
(* The process.                                                            *)

ServerInv == IInv /\ IdInv /\ AdmInv

\* What changes none of the variables of one part keeps the invariant of that part.
LEMMA IdUnchanged == IdInv /\ UNCHANGED idVars => IdInv'
BY DEF IdInv, IdTypes, KeyHeld, OneWriter, ServedOnDisk, idVars, Path

\* The same for the admission.
LEMMA AdmUnchanged == AdmInv /\ UNCHANGED admVars => AdmInv'
BY DEF AdmInv, AdmTypes, PermitsHeld, TimersBound, TimerBound, Phase, admVars

\* A server that has not started satisfies all three invariants.
LEMMA ServerInitInv == ServerInit => ServerInv
BY InitEstablishes, IdentityInitInv, AllClosed DEF ServerInit, ServerInv

\* A process that ends takes its counter, its relays and its permits with it.
LEMMA EndKeeps == ServerInv /\ ProcessEnds => ServerInv'
<1> SUFFICES ASSUME ServerInv, ProcessEnds PROVE ServerInv'
  OBVIOUS
<1>1. Init' /\ AdmissionInit' /\ Crash(Self)
  BY DEF ProcessEnds, Init, AdmissionInit
<1>2. IInv' /\ AdmInv'
  BY <1>1, InitEstablishes, AllClosed, PTL
<1>3. IdInv'
  BY <1>1, ServerAssumption, IdentityStep DEF ServerInv
<1>4. QED
  BY <1>2, <1>3 DEF ServerInv

\* Every step of the server keeps all three invariants.
LEMMA ServerStep == ServerInv /\ [ServerNext]_serverVars => ServerInv'
<1> SUFFICES ASSUME ServerInv, [ServerNext]_serverVars PROVE ServerInv'
  OBVIOUS
<1>0. IInv /\ IdInv /\ AdmInv
  BY DEF ServerInv
<1>a. UNCHANGED vars => IInv'
  BY <1>0, StepPreserves
<1>1. CASE Startup
  <2>1. UNCHANGED vars /\ UNCHANGED admVars
    BY <1>1 DEF Startup
  <2>2. IdInv'
    BY <1>0, <1>1, IdentityStep DEF Startup
  <2>3. QED
    BY <1>0, <1>a, <2>1, <2>2, AdmUnchanged DEF ServerInv
<1>2. CASE ProcessEnds
  BY <1>2, EndKeeps
<1>3. ASSUME NEW c \in Wires, Admission(c) PROVE ServerInv'
  <2>1. UNCHANGED vars /\ UNCHANGED idVars
    BY <1>3 DEF Admission, Accept, Complete, PassGate, DemuxReturns, Blackholed, BlackholeEnds
  <2>2. QED
    BY <1>0, <1>3, <1>a, <2>1, AdmissionStep, IdUnchanged DEF ServerInv
<1>4. CASE ServerTick
  <2>1. UNCHANGED vars /\ UNCHANGED idVars
    BY <1>4 DEF ServerTick
  <2>2. QED
    BY <1>0, <1>4, <1>a, <2>1, TickKeeps, IdUnchanged DEF ServerInv
<1>5. CASE Streams
  <2>1. Next /\ UNCHANGED idVars /\ UNCHANGED admVars
    BY <1>5 DEF Streams, Next
  <2>2. QED
    BY <1>0, <2>1, StepPreserves, IdUnchanged, AdmUnchanged DEF ServerInv
<1>6. CASE UNCHANGED serverVars
  <2>1. UNCHANGED vars /\ UNCHANGED idVars /\ UNCHANGED admVars
    BY <1>6 DEF serverVars
  <2>2. QED
    BY <1>0, <1>a, <2>1, IdUnchanged, AdmUnchanged DEF ServerInv
<1>7. QED
  BY <1>1, <1>2, <1>3, <1>4, <1>5, <1>6 DEF ServerNext

\* They hold in every state of the server.
LEMMA ServerInvariance == ServerSpec => []ServerInv
BY ServerInitInv, ServerStep, PTL DEF ServerSpec

\* However many processes start, crash and start again over the same files, keys that
\* were announced as persistent never differ from their file, and nobody serves what
\* it could not read (load_identity, write_secret_file).
THEOREM CertNeverChanges == ServerSpec => []CertStable
<1>1. ServerInv => CertStable
  <2> SUFFICES ASSUME ServerInv PROVE CertStable
    OBVIOUS
  <2>1. \A d \in certs : disk[d[1]] = d[2]
    BY DEF ServerInv, IdInv, ServedOnDisk
  <2>2. \A i \in Instances : inst[i].pc \in {"bind", "serving"} => Parses(inst[i].key)
    BY DEF ServerInv, IdInv, KeyHeld, Parses
  <2>3. \A d, e \in certs : d[1] = e[1] => d[2] = e[2]
    BY <2>1
  <2>4. QED
    BY <2>1, <2>2, <2>3 DEF CertStable
<1>2. QED
  BY <1>1, ServerInvariance, PTL

\* For any number of connections, permits and places nothing is lost or returned
\* twice on any path through the server, and no peer has its handshake permit longer
\* than the handshake timeout and the longest black hole.
THEOREM PermitsAreExact == ServerSpec => []PermitsExact
<1>1. ServerInv => PermitsExact
  <2> SUFFICES ASSUME ServerInv PROVE PermitsExact
    OBVIOUS
  <2>1. PermitsHeld /\ CountExact
    BY DEF ServerInv, AdmInv, IInv
  <2>2. ASSUME NEW c \in Wires
        PROVE  \E longest \in BlackholeTicks : Timed(c) => held[c] <= HandshakeTicks + longest
    <3>1. TimerBound(c) /\ left[c] \in Nat /\ held[c] \in Nat
      BY DEF ServerInv, AdmInv, AdmTypes, TimersBound
    <3>2. BlackholeTicks # {} /\ BlackholeTicks \subseteq Nat /\ HandshakeTicks \in Nat
      BY ServerAssumption
    <3>3. CASE conn[c] = "handshake"
      <4>1. PICK longest \in BlackholeTicks : longest \in Nat
        BY <3>2
      <4>2. held[c] <= HandshakeTicks
        BY <3>1, <3>2, <3>3 DEF TimerBound
      <4>3. held[c] <= HandshakeTicks + longest
        BY <3>1, <3>2, <4>1, <4>2
      <4>4. QED
        BY <4>1, <4>3
    <3>4. CASE conn[c] = "blackhole"
      <4>1. PICK longest \in BlackholeTicks :
                held[c] + left[c] <= HandshakeTicks + longest
        BY <3>1, <3>4 DEF TimerBound
      <4>2. longest \in Nat
        BY <3>2, <4>1
      <4>3. held[c] <= HandshakeTicks + longest
        BY <3>1, <3>2, <4>1, <4>2
      <4>4. QED
        BY <4>1, <4>3
    <3>5. CASE ~Timed(c)
      BY <3>2, <3>5
    <3>6. QED
      BY <3>3, <3>4, <3>5 DEF Timed
  <2>3. QED
    BY <2>1, <2>2 DEF PermitsExact, PermitsHeld
<1>2. QED
  BY <1>1, ServerInvariance, PTL

\* The cap on bridge streams holds for the whole life of a server, over connections
\* that come and go and restarts.
THEOREM ServerCapHolds == ServerSpec => []CapHolds
<1>1. IInv => CapHolds
  BY InFlightFinite, CapAssumption DEF IInv, TypeOK, EntitledFit, CapHolds
<1>2. ServerInv => CapHolds
  BY <1>1 DEF ServerInv
<1>3. QED
  BY <1>2, ServerInvariance, PTL
=============================================================================
