------------------------------ MODULE LockFiles ------------------------------
(***************************************************************************)
(* scripts/smoke/parallel_guard.py: runs of the live smoke test that are   *)
(* started with --parallel-profile keep out of each other's way by lock    *)
(* files, one path per tenant and profile.  A file is created exclusively  *)
(* and then written; the locks of processes that are gone are removed by   *)
(* whoever meets them, by path, after they were read.                      *)
(*                                                                         *)
(* Folder, application and project are named after the profile, so on one  *)
(* tenant they collide exactly when the profile is the same.               *)
(***************************************************************************)
EXTENDS Integers, FiniteSets

CONSTANTS
  Pid,       \* process ids; one may be given out again when its process is gone
  Profile,   \* profiles other than the default one, in the order of their paths
  Config,    \* profile -> its admin_commander_config
  NoPid, Nowhere

ASSUME LockFilesAssumption == NoPid \notin Pid /\ Profile \subseteq Nat \ {Nowhere}

VARIABLES
  pc,      \* per process: its step, "off" when there is none
  lane,    \* its profile
  locks,   \* lock files: profile -> who wrote it, whether it is whole, 24 hours old
  paths,   \* files that list_active_locks has still to read
  read,    \* the file it has just read
  clash,   \* processes that have found a lock in their way
  robbed   \* a lock was removed in place of another

guard == <<lane, paths, read, clash>>

Unread == [at |-> Nowhere, pid |-> NoPid, old |-> FALSE]
Alive(p) == p \in Pid /\ pc[p] # "off"
At(p, step) == pc' = [pc EXCEPT ![p] = step]

LockInit ==
  /\ pc = [p \in Pid |-> "off"] /\ lane = [p \in Pid |-> Nowhere]
  /\ locks = [f \in {} |-> f] /\ paths = [p \in Pid |-> {}]
  /\ read = [p \in Pid |-> Unread] /\ clash = {}
  /\ robbed = FALSE

With(f, lock) == [g \in DOMAIN locks \union {f} |-> IF g = f THEN lock ELSE locks[g]]
Without(f) == [g \in DOMAIN locks \ {f} |-> locks[g]]

\* path.unlink(), meant for the lock of p
Unlink(f, p) ==
  /\ locks' = Without(f)
  /\ robbed' = (robbed \/ (f \in DOMAIN locks /\ locks[f].pid # p))

ForgetLane(p) ==
  /\ lane' = [lane EXCEPT ![p] = Nowhere]
  /\ UNCHANGED <<paths, read, clash>>

Forget(p) ==
  /\ lane' = [lane EXCEPT ![p] = Nowhere] /\ paths' = [paths EXCEPT ![p] = {}]
  /\ read' = [read EXCEPT ![p] = Unread] /\ clash' = clash \ {p}

\* list_active_locks, for preflight_check and again for acquire
Glob(p) ==
  /\ pc[p] \in {"preflight", "acquire"}
  /\ paths' = [paths EXCEPT ![p] = DOMAIN locks]
  /\ At(p, IF pc[p] = "preflight" THEN "preflight-scan" ELSE "acquire-scan")
  /\ UNCHANGED <<lane, locks, read, clash, robbed>>

Scanning(p) == pc[p] \in {"preflight-scan", "acquire-scan"}
Scanned(p) == paths[p] = {} /\ read[p] = Unread

First(S, f) == f \in S /\ \A g \in S : f <= g

ReadLock(p) ==
  /\ Scanning(p) /\ read[p] = Unread
  /\ \E f \in paths[p] \intersect DOMAIN locks :
       /\ First(paths[p], f) /\ locks[f].whole
       /\ read' = [read EXCEPT ![p] = [at |-> f, pid |-> locks[f].pid, old |-> locks[f].old]]
       /\ paths' = [paths EXCEPT ![p] = @ \ {f}]
  /\ UNCHANGED <<pc, lane, locks, clash, robbed>>

\* preflight_check: the resources of the profile, or its config, are in use
InTheWay(p, f) == f = lane[p] \/ Config[f] = Config[lane[p]]

\* _pid_alive and _remove_stale_lock, on what was read
Weigh(p) ==
  /\ Scanning(p) /\ read[p] # Unread
  /\ Alive(read[p].pid) => ~read[p].old
  /\ IF Alive(read[p].pid)
     THEN /\ clash' = IF InTheWay(p, read[p].at) THEN clash \union {p} ELSE clash
          /\ UNCHANGED <<locks, robbed>>
     ELSE Unlink(read[p].at, read[p].pid) /\ UNCHANGED clash
  /\ read' = [read EXCEPT ![p] = Unread]
  /\ UNCHANGED <<pc, lane, paths>>

Preflight(p) ==
  /\ pc[p] = "preflight-scan" /\ Scanned(p) /\ p \notin clash
  /\ At(p, "acquire")
  /\ UNCHANGED <<guard, locks, robbed>>

Anyway(p) == TRUE

\* open("x")
Vacant(p) == lane[p] \notin DOMAIN locks

Acquire(p) ==
  /\ pc[p] = "acquire-scan" /\ Scanned(p) /\ Vacant(p)
  /\ locks' = With(lane[p], [pid |-> p, whole |-> FALSE, old |-> FALSE])
  /\ At(p, "write") /\ clash' = clash \ {p}
  /\ UNCHANGED <<lane, paths, read, robbed>>

WriteLock(p) ==
  /\ pc[p] = "write"
  /\ locks' = IF lane[p] \in DOMAIN locks /\ locks[lane[p]].pid = p
              THEN [locks EXCEPT ![lane[p]].whole = TRUE] ELSE locks
  /\ At(p, "provision")
  /\ UNCHANGED <<guard, robbed>>

\* GuardError and StaleLockError, or a FileNotFoundError that nobody catches: the
\* run ends before it holds a lock
Refuse(p) ==
  /\ \/ /\ Scanning(p) /\ read[p] = Unread
        /\ \E f \in paths[p] : First(paths[p], f) /\ (f \in DOMAIN locks => ~locks[f].whole)
     \/ Scanning(p) /\ read[p] # Unread /\ Alive(read[p].pid) /\ read[p].old
     \/ pc[p] = "preflight-scan" /\ Scanned(p) /\ p \in clash
     \/ pc[p] = "acquire-scan" /\ Scanned(p) /\ ~Vacant(p)
  /\ At(p, "off") /\ Forget(p)
  /\ UNCHANGED <<locks, robbed>>

\* release, at the end of a run that acquired
Release(p) ==
  /\ Unlink(lane[p], p)
  /\ At(p, "off") /\ Forget(p)

\* A lock grows older than a day; a person removes one after a look for its process
Age ==
  /\ \E f \in DOMAIN locks : ~locks[f].old /\ locks' = [locks EXCEPT ![f].old = TRUE]
  /\ UNCHANGED <<pc, guard, robbed>>

Tidy ==
  /\ \E f \in DOMAIN locks : ~Alive(locks[f].pid) /\ locks' = Without(f)
  /\ UNCHANGED <<pc, guard, robbed>>

LockTypeOK ==
  /\ DOMAIN locks \subseteq Profile
  /\ \A f \in DOMAIN locks : locks[f].pid \in Pid
  /\ \A p \in Pid :
       /\ pc[p] = "off" <=> lane[p] = Nowhere
       /\ read[p] # Unread \/ paths[p] # {} => Scanning(p)
==============================================================================
