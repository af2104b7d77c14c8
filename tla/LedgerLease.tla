----------------------------- MODULE LedgerLease ------------------------------
(***************************************************************************)
(* Who may open the execution ledger: openExecutionStore of                *)
(* runner/src/store.ts.  Several runner processes may be started on one    *)
(* database file.  Before a process opens the database - and marks every   *)
(* RUNNING row INTERRUPTED - it must own the lease file, which it creates  *)
(* with O_EXCL, or takes over from a process that no longer exists; a      *)
(* second file, the guard, serializes the takeovers.                       *)
(*                                                                         *)
(* Every file system call is a step of its own, so processes interleave    *)
(* between any two of them, and a process may be killed between them too.  *)
(***************************************************************************)
EXTENDS Naturals

CONSTANTS Starts,      \* process starts: each lives once and has its own UUID
          Pids,        \* process IDs the operating system hands out
          ForeignPids, \* those that unrelated processes may come to have
          FaultyStarts,\* starts whose writes to the two files may fail
          DatabaseFaults, \* starts whose database calls may fail
          None,        \* the file does not exist
          Empty        \* the file exists and has no (complete) content

ASSUME LeaseConstants == /\ ForeignPids \subseteq Pids
                         /\ FaultyStarts \subseteq Starts
                         /\ DatabaseFaults \subseteq Starts
                         /\ None \notin Starts
                         /\ Empty \notin Starts
                         /\ None # Empty

VARIABLES guard,    \* content of <database>.lock.guard
          lease,    \* content of <database>.lock
          at,       \* start -> where it is in openExecutionStore and after
          pid,      \* start -> process ID the operating system gave it
          foreign,  \* process IDs held by unrelated processes
          seen      \* start -> the lease it read (previous)

leaseVars == <<guard, lease, at, pid, foreign, seen>>

Content == Starts \cup {None, Empty}

InGuardLocations ==
  {"guarding", "locking", "leasing", "reading", "probing", "rereading",
   "unlinking", "retrying", "won", "lost"}

OwnerLocations == {"won", "opening", "serving", "releasing", "removing"}

Locations == {"unborn", "gone", "dead"} \cup InGuardLocations \cup OwnerLocations

Live(p)    == at[p] \notin {"unborn", "gone", "dead"}
InGuard(p) == at[p] \in InGuardLocations
Owns(p)    == at[p] \in OwnerLocations
HasDatabase(p) == at[p] \in {"opening", "serving"}

(* process.kill(pid, 0): any process answers, whoever it belongs to.       *)
Exists(q) == q \in foreign \/ \E p \in Starts : Live(p) /\ pid[p] = q

(* What the probe of a recorded process ID reports.                        *)
ProbeAnswers(q) == Exists(q)
-----------------------------------------------------------------------------
LeaseTypeOK == /\ guard \in Content
               /\ lease \in Content
               /\ at \in [Starts -> Locations]
               /\ pid \in [Starts -> Pids]
               /\ foreign \subseteq Pids
               /\ seen \in [Starts -> Starts \cup {None}]

(* The ledger is new, or a former runner left it cleanly.                  *)
LeaseInit == /\ guard = None
             /\ lease = None
             /\ at = [p \in Starts |-> "unborn"]
             /\ pid \in [Starts -> Pids]
             /\ foreign = {}
             /\ seen = [p \in Starts |-> None]

Go(p, location) == at' = [at EXCEPT ![p] = location]
-----------------------------------------------------------------------------
(* The operating system.                                                   *)

(* A process is started: it has a process ID that nobody has now, and its  *)
(* first call creates the guard, exclusively.                              *)
Free(p) == /\ at[p] = "unborn"
           /\ ~Exists(pid[p])

ForeignStart(q) ==
  /\ q \in ForeignPids
  /\ ~Exists(q)
  /\ foreign' = foreign \cup {q}
  /\ UNCHANGED <<guard, lease, at, pid, seen>>

ForeignExit(q) ==
  /\ q \in foreign
  /\ foreign' = foreign \ {q}
  /\ UNCHANGED <<guard, lease, at, pid, seen>>

(* A process is killed: its files stay as they are.                        *)
Kill(p) ==
  /\ Live(p)
  /\ Go(p, "dead")
  /\ UNCHANGED <<guard, lease, pid, foreign, seen>>
-----------------------------------------------------------------------------
(* Acquisition.                                                            *)

(* Mutant: the guard is opened without O_EXCL.                             *)
OpenGuardShared(p) ==
  /\ Free(p)
  /\ guard' = Empty
  /\ Go(p, "guarding")
  /\ UNCHANGED <<lease, pid, foreign, seen>>

(* openSync(guardPath, "wx"): the process goes on only if it made the file. *)
OpenGuard(p) ==
  /\ Free(p)
  /\ guard = None
  /\ guard' = Empty
  /\ Go(p, "guarding")
  /\ UNCHANGED <<lease, pid, foreign, seen>>

(* Mutant: the finally that removes the guard also covers opening it.      *)
GuardTakenCleansUp(p) ==
  /\ Free(p)
  /\ guard # None
  /\ guard' = None
  /\ Go(p, "gone")
  /\ UNCHANGED <<lease, pid, foreign, seen>>

GuardTaken(p) ==
  /\ Free(p)
  /\ guard # None
  /\ Go(p, "gone")
  /\ UNCHANGED <<guard, lease, pid, foreign, seen>>

WriteGuard(p) ==
  /\ at[p] = "guarding"
  /\ \/ guard' = p /\ Go(p, "locking")
     \/ /\ p \in FaultyStarts     \* the write fails outside the try block
        /\ Go(p, "gone")
        /\ UNCHANGED guard
  /\ UNCHANGED <<lease, pid, foreign, seen>>

(* openSync(leasePath, "wx"), first and second attempt.                    *)
OpenLease(p) ==
  /\ at[p] \in {"locking", "retrying"}
  /\ \/ /\ lease = None
        /\ lease' = Empty
        /\ Go(p, "leasing")
     \/ /\ lease # None
        /\ Go(p, IF at[p] = "locking" THEN "reading" ELSE "lost")
        /\ UNCHANGED lease
  /\ UNCHANGED <<guard, pid, foreign, seen>>

WriteLease(p) ==
  /\ at[p] = "leasing"
  /\ \/ lease' = p /\ Go(p, "won")
     \/ /\ p \in FaultyStarts
        /\ Go(p, "lost")
        /\ UNCHANGED lease
  /\ UNCHANGED <<guard, pid, foreign, seen>>

(* The lease exists: read it; a missing or unreadable one is an error.     *)
ReadLease(p) ==
  /\ at[p] = "reading"
  /\ IF lease \in Starts
       THEN seen' = [seen EXCEPT ![p] = lease] /\ Go(p, "probing")
       ELSE Go(p, "lost") /\ UNCHANGED seen
  /\ UNCHANGED <<guard, lease, pid, foreign>>

(* A process with the recorded ID means "already owned".                   *)
ProbeOwner(p) ==
  /\ at[p] = "probing"
  /\ Go(p, IF ProbeAnswers(pid[seen[p]]) THEN "lost" ELSE "rereading")
  /\ UNCHANGED <<guard, lease, pid, foreign, seen>>

RereadLease(p) ==
  /\ at[p] = "rereading"
  /\ Go(p, IF lease = seen[p] THEN "unlinking" ELSE "lost")
  /\ UNCHANGED <<guard, lease, pid, foreign, seen>>

(* Mutant: there is no second attempt after a stale lease is removed.      *)
UnlinkAndGiveUp(p) ==
  /\ at[p] = "unlinking"
  /\ lease' = None
  /\ Go(p, "lost")
  /\ UNCHANGED <<guard, pid, foreign, seen>>

UnlinkLease(p) ==
  /\ at[p] = "unlinking"
  /\ lease' = None
  /\ Go(p, IF lease # None THEN "retrying" ELSE "lost")
  /\ UNCHANGED <<guard, pid, foreign, seen>>

(* finally: the guard is removed if it is this process's own (and reading  *)
(* a guard that is gone throws, whatever went before).                     *)
RemoveGuard(p) ==
  /\ at[p] \in {"won", "lost"}
  /\ guard' = IF guard = p THEN None ELSE guard
  /\ Go(p, IF at[p] = "won" /\ guard # None THEN "opening" ELSE "gone")
  /\ UNCHANGED <<lease, pid, foreign, seen>>
-----------------------------------------------------------------------------
(* Ownership.                                                              *)

(* Mutant: a start that cannot open the database just ends.                *)
OpenDatabaseOrEnd(p) ==
  /\ at[p] = "opening"
  /\ \/ Go(p, "serving")
     \/ p \in DatabaseFaults /\ Go(p, "gone")
  /\ UNCHANGED <<guard, lease, pid, foreign, seen>>

(* The database is opened and RUNNING rows become INTERRUPTED; if that     *)
(* fails the lease is given up.                                            *)
OpenDatabase(p) ==
  /\ at[p] = "opening"
  /\ \/ Go(p, "serving")
     \/ p \in DatabaseFaults /\ Go(p, "releasing")
  /\ UNCHANGED <<guard, lease, pid, foreign, seen>>

(* close(): the database first, the lease after it.                        *)
CloseDatabase(p) ==
  /\ at[p] = "serving"
  /\ Go(p, "releasing")
  /\ UNCHANGED <<guard, lease, pid, foreign, seen>>

(* release(): read the lease, and remove it if it is this process's own.   *)
CheckOwnLease(p) ==
  /\ at[p] = "releasing"
  /\ Go(p, IF lease = p THEN "removing" ELSE "gone")
  /\ UNCHANGED <<guard, lease, pid, foreign, seen>>

RemoveOwnLease(p) ==
  /\ at[p] = "removing"
  /\ lease' = None
  /\ Go(p, "gone")
  /\ UNCHANGED <<guard, pid, foreign, seen>>
-----------------------------------------------------------------------------
Acquire(p) == \/ WriteGuard(p)  \/ OpenLease(p)   \/ WriteLease(p)
              \/ ReadLease(p)   \/ ProbeOwner(p)  \/ RereadLease(p)
              \/ UnlinkLease(p) \/ RemoveGuard(p) \/ OpenDatabase(p)

Release(p) == CheckOwnLease(p) \/ RemoveOwnLease(p)

LeaseNext == \/ \E p \in Starts : \/ OpenGuard(p) \/ GuardTaken(p)
                                  \/ Acquire(p) \/ CloseDatabase(p) \/ Release(p)
                                  \/ Kill(p)
             \/ \E q \in Pids : ForeignStart(q) \/ ForeignExit(q)

LeaseSpec == LeaseInit /\ [][LeaseNext]_leaseVars

(* A process that runs makes its next call; nothing makes one start, serve *)
(* for ever, or be stopped.                                                *)
LeaseFairness == \A p \in Starts : WF_leaseVars(Acquire(p)) /\ WF_leaseVars(Release(p))

LeaseFairSpec == LeaseSpec /\ LeaseFairness
-----------------------------------------------------------------------------
(* Properties.                                                             *)

(* Never two processes with the ledger open: the recovery of one does not  *)
(* interrupt the executions of another (store.ts:20-21: "A second live     *)
(* runner must not mark the first runner's work interrupted").             *)
OneOwner == \A p, q \in Starts : HasDatabase(p) /\ HasDatabase(q) => p = q

(* The lease on disk is that of the process that has the ledger, until the *)
(* process gives it up: a takeover never removes a live owner's lease.     *)
LeaseIsOwners == \A p \in Starts : Owns(p) => lease = p

GuardOrphaned == guard # None /\ \A p \in Starts : ~InGuard(p)

(* A guard left by a crash during startup stays, and keeps every later     *)
(* start from the ledger until somebody has looked (store.ts:30-31).       *)
OrphanedGuardBlocks ==
  [][GuardOrphaned => /\ GuardOrphaned'
                      /\ \A p \in Starts : HasDatabase(p)' => HasDatabase(p)]_leaseVars

(* If every process that ran left on its own and could write the two       *)
(* files, neither of them is left behind, also when a start could not open *)
(* or recover the database (the catch blocks of store.ts:58-82): the next  *)
(* start needs no inspection.                                              *)
CleanExitLeavesNothing ==
  /\ \A p \in Starts : at[p] \in {"unborn", "gone"}
  /\ \A p \in FaultyStarts : at[p] = "unborn"
  => guard = None /\ lease = None

(* A start that has made the guard on a ledger whose former owners are all *)
(* gone gets the ledger, if the lease is readable, no unrelated process    *)
(* has taken over a process ID and no call of the start fails.             *)
TakeoverSucceeds == \A p \in Starts \ (FaultyStarts \cup DatabaseFaults) :
  (/\ at[p] = "guarding"
   /\ lease # Empty
   /\ \A q \in Starts \ {p} : /\ at[q] \in {"gone", "dead"}
                             /\ pid[q] \notin {pid[p]} \cup ForeignPids)
  ~> at[p] \in {"serving", "dead"}
=============================================================================
