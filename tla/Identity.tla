------------------------------- MODULE Identity -------------------------------
(***************************************************************************)
(* How a mixtor-server comes by its key pair (load_identity in             *)
(* src/bin/mixtor-server.rs), when several processes start, crash and start*)
(* again over the same files.  A file is created and written in two steps, *)
(* with other processes, and crashes, in between.                          *)
(***************************************************************************)
EXTENDS Integers, FiniteSets

CONSTANTS
  Instances,      \* processes
  Setups,         \* command lines and environments the processes may have
  Windows,        \* TRUE: write_secret_file also restricts the file's ACL
  DiskErrors,     \* TRUE: reads, creates and writes may fail
  MaxStarts       \* bound: MaxStarts[i] starts of process i

Configs == {"key-file", "key-flag", "state-dir", "none", "keygen-file"}

ASSUME IdentityAssumption ==
  /\ IsFiniteSet(Instances) /\ Setups \subseteq [Instances -> Configs]
  /\ {Windows, DiskErrors} \subseteq BOOLEAN /\ MaxStarts \in [Instances -> Nat]

\* The operator's key file, and mixtor_identity in the state directory.
Paths == {"key-file", "state-dir"}

\* Keys are numbered in the order they are generated; FlagKey is the one on the
\* command line.
FlagKey == 0
Absent == -2
Empty == -1     \* created and not written: not 64 hex digits

VARIABLES
  config,     \* config[i]: how process i is configured
  disk,       \* disk[p]: a key, Empty or Absent
  fresh,      \* keys generated so far
  inst,       \* inst[i]: where process i stands and the key it has
  starts,     \* starts[i]: how often i was started
  certs       \* history: <<path, key>> of every key served and known to be on disk

idVars == <<config, disk, fresh, inst, starts, certs>>

Path(i) == IF config[i] = "state-dir" THEN "state-dir" ELSE "key-file"
Down == [pc |-> "down", key |-> Empty]

IdentityInit ==
  /\ config \in Setups
  /\ disk = [p \in Paths |-> Absent] /\ fresh = 0
  /\ inst = [i \in Instances |-> Down]
  /\ starts = [i \in Instances |-> 0] /\ certs = {}

\* key_from_hex
Parses(content) == content >= 0

\* finish: i has its identity; it goes on to bind its listener.
Finish(i, key, persisted) ==
  /\ inst' = [inst EXCEPT ![i] = [pc |-> "bind", key |-> key]]
  /\ certs' = IF persisted THEN certs \cup {<<Path(i), key>>} ELSE certs

Exit(i) == inst' = [inst EXCEPT ![i] = [Down EXCEPT !.pc = "exited"]] /\ UNCHANGED certs

Start(i) ==
  /\ inst[i].pc \in {"down", "exited"} /\ starts[i] < MaxStarts[i]
  /\ inst' = [inst EXCEPT ![i].pc = "load"]
  /\ starts' = [starts EXCEPT ![i] = @ + 1]
  /\ UNCHANGED <<config, disk, fresh, certs>>

\* A key that does not come from a file: on the command line, or ephemeral.
LoadElsewhere(i) ==
  /\ inst[i].pc = "load" /\ config[i] \in {"key-flag", "none"}
  /\ IF config[i] = "none"
     THEN fresh' = fresh + 1 /\ Finish(i, fresh', FALSE)
     ELSE UNCHANGED fresh /\ Finish(i, FlagKey, FALSE)
  /\ UNCHANGED <<config, disk, starts>>

\* Fault: what was read is taken for a key.
LoadFile_Unparsed(i) ==
  /\ inst[i].pc = "load" /\ config[i] \in {"key-file", "state-dir"}
  /\ config[i] = "state-dir" => disk[Path(i)] # Absent
  /\ Finish(i, disk[Path(i)], TRUE)
  /\ UNCHANGED <<config, disk, fresh, starts>>

\* --static-key-file, or a file found in the state directory: its key, or an error.
LoadFile(i) ==
  /\ inst[i].pc = "load" /\ config[i] \in {"key-file", "state-dir"}
  /\ config[i] = "state-dir" => disk[Path(i)] # Absent
  /\ IF Parses(disk[Path(i)]) THEN Finish(i, disk[Path(i)], TRUE) ELSE Exit(i)
  /\ UNCHANGED <<config, disk, fresh, starts>>

\* The file in the state directory cannot be read, for whatever reason, or a key
\* file was asked for: a key is generated.
Generate(i) ==
  /\ inst[i].pc = "load"
  /\ \/ config[i] = "keygen-file"
     \/ config[i] = "state-dir" /\ (disk[Path(i)] = Absent \/ DiskErrors)
  /\ fresh' = fresh + 1
  /\ inst' = [inst EXCEPT ![i] = [pc |-> "create", key |-> fresh']]
  /\ UNCHANGED <<config, disk, starts, certs>>

\* Fault: the file is opened with create instead of create_new.
Create_Truncates(i) ==
  /\ inst[i].pc = "create"
  /\ disk' = [disk EXCEPT ![Path(i)] = Empty]
  /\ inst' = [inst EXCEPT ![i].pc = "write"]
  /\ UNCHANGED <<config, fresh, starts, certs>>

\* write_secret_file, the open: create_new is atomic, and fails on a file that
\* exists; the loser of the race reads the winner's file.
Create(i) ==
  /\ inst[i].pc = "create"
  /\ \/ /\ disk[Path(i)] = Absent
        /\ disk' = [disk EXCEPT ![Path(i)] = Empty]
        /\ inst' = [inst EXCEPT ![i].pc = "write"]
     \/ /\ disk[Path(i)] # Absent /\ config[i] = "state-dir"
        /\ inst' = [inst EXCEPT ![i].pc = "adopt"]
        /\ UNCHANGED disk
     \/ /\ disk[Path(i)] # Absent /\ config[i] = "keygen-file"
        /\ inst' = [inst EXCEPT ![i] = [Down EXCEPT !.pc = "exited"]]
        /\ UNCHANGED disk
  /\ UNCHANGED <<config, fresh, starts, certs>>

\* Fault: the loser serves the key it generated.
Adopt_Own(i) ==
  /\ inst[i].pc = "adopt"
  /\ Finish(i, inst[i].key, TRUE)
  /\ UNCHANGED <<config, disk, fresh, starts>>

\* "Lost a create race with another instance: adopt theirs", if it is written.
Adopt(i) ==
  /\ inst[i].pc = "adopt"
  /\ IF Parses(disk[Path(i)]) THEN Finish(i, disk[Path(i)], TRUE) ELSE Exit(i)
  /\ UNCHANGED <<config, disk, fresh, starts>>

\* write_secret_file, the write.
Write(i) ==
  /\ inst[i].pc = "write"
  /\ disk' = [disk EXCEPT ![Path(i)] = inst[i].key]
  /\ IF config[i] = "state-dir" THEN Finish(i, inst[i].key, TRUE) ELSE Exit(i)
  /\ UNCHANGED <<config, fresh, starts>>

\* write_secret_file fails: a server warns and goes on with a key that is not
\* on disk, --keygen-file gives up.  The file that was created stays, unless it was
\* the ACL that could not be set.
WriteFails(i) ==
  /\ DiskErrors /\ inst[i].pc \in {"create", "write"}
  /\ disk' \in IF Windows /\ inst[i].pc = "write"
               THEN {disk, [disk EXCEPT ![Path(i)] = Absent]} ELSE {disk}
  /\ IF config[i] = "state-dir" THEN Finish(i, inst[i].key, FALSE) ELSE Exit(i)
  /\ UNCHANGED <<config, fresh, starts>>

\* run_raw_server and run_managed_server up to the accept loop: the listener is
\* bound, or the process ends with an error (no address, no transport asked for).
Bind(i) ==
  /\ inst[i].pc = "bind"
  /\ \/ inst' = [inst EXCEPT ![i].pc = "serving"] /\ UNCHANGED certs
     \/ Exit(i)
  /\ UNCHANGED <<config, disk, fresh, starts>>

\* The process is killed, wherever it stands, or its accept fails.
Crash(i) ==
  /\ inst[i].pc \notin {"down", "exited"}
  /\ inst' = [inst EXCEPT ![i] = Down]
  /\ UNCHANGED <<config, disk, fresh, starts, certs>>

Load(i) == LoadElsewhere(i) \/ LoadFile(i) \/ Generate(i) \/ Create(i) \/ Adopt(i)
           \/ Write(i) \/ WriteFails(i) \/ Bind(i)

-----------------------------------------------------------------------------
(* Properties.                                                             *)

\* The cert that goes into Bridge lines is stable: over any number of restarts,
\* crashes and simultaneous starts, all keys that were served and not warned about
\* as unpersisted are the one key of their file, and nobody serves what it could not
\* read (load_identity, write_secret_file).
CertStable ==
  /\ \A c, d \in certs : c[1] = d[1] => c[2] = d[2]
  /\ \A c \in certs : disk[c[1]] = c[2]
  /\ \A i \in Instances : inst[i].pc \in {"bind", "serving"} => Parses(inst[i].key)
=============================================================================
