------------------------------ MODULE Startup ------------------------------
(***************************************************************************)
(* Starting the daemon: run_with_shutdown up to the HTTP server. Several   *)
(* installations (data directories) share one Caddy; any of their daemons  *)
(* may be killed between two steps and started again. Two gates leave      *)
(* something behind: the ownership sentinel in Caddy's configuration, and  *)
(* the bootstrap account with its credentials file.                        *)
(*                                                                         *)
(* What a start draws at random, an installation id or a password, is      *)
(* identified with the number of the start; 0 stands for "none".           *)
(***************************************************************************)
EXTENDS Naturals, Sequences

CONSTANTS
    Daemon,     \* processes that may run
    Install,    \* data directories
    Garbled,    \* a credentials file whose writing has failed half-way
    MaxStarts   \* bound of the model

ASSUME StartupAssumption == MaxStarts \in Nat /\ Garbled \notin Nat

VARIABLES
    starts,     \* the data directory of each start so far
    at,         \* the gate each daemon is at
    run,        \* the number of each daemon's start
    id,         \* its installation_id
    idFile,     \* the id in <data_dir>/installation_id; 0 without a file that spells one
    creds,      \* the password in <data_dir>/bootstrap-credentials.txt
    account,    \* the password of the admin in table users
    mustChange, \* that user's must_change_pw
    row,        \* is there a row auth.bootstrap-credentials-created?
    sentinel,   \* the installation_id of the sentinel in Caddy
    late,       \* PUTs that nobody waits for and that Caddy may still perform
    displaced   \* ghost: has a sentinel ever been replaced or dropped?

daemons == <<starts, at, run, id>>
directory == <<idFile, creds, account, mustChange, row>>
caddy == <<sentinel, late, displaced>>
vars == <<daemons, directory, caddy>>

Gates == {"down", "open", "identify", "rename", "check", "claim", "takeover",
          "count", "file", "user", "flag", "audit", "bind", "ready"}
Identified == Gates \ {"down", "open", "identify"}
PastCheck == {"count", "file", "user", "flag", "audit", "bind", "ready"}
Started == 1..Len(starts)

TypeOK ==
    /\ starts \in Seq(Install)
    /\ at \in [Daemon -> Gates]
    /\ run \in [Daemon -> Nat] /\ id \in [Daemon -> Nat]
    /\ \A d \in Daemon : at[d] # "down" => run[d] \in Started
    /\ \A d \in Daemon : at[d] \in Identified => id[d] \in Started
    /\ idFile \in [Install -> {0} \cup Started]
    /\ creds \in [Install -> {0, Garbled} \cup Started]
    /\ account \in [Install -> {0} \cup Started]
    /\ mustChange \in [Install -> BOOLEAN] /\ row \in [Install -> BOOLEAN]
    /\ sentinel \in {0} \cup Started
    /\ late \in SUBSET ({"claim", "takeover"} \X Started)
    /\ displaced \in BOOLEAN

Init ==
    /\ starts = <<>>
    /\ at = [d \in Daemon |-> "down"]
    /\ run = [d \in Daemon |-> 0]
    /\ id = [d \in Daemon |-> 0]
    /\ idFile = [i \in Install |-> 0]
    /\ creds = [i \in Install |-> 0] /\ account = [i \in Install |-> 0]
    /\ mustChange = [i \in Install |-> FALSE] /\ row = [i \in Install |-> FALSE]
    /\ sentinel = 0 /\ late = {} /\ displaced = FALSE

-----------------------------------------------------------------------------
Dir(d) == starts[run[d]]

(* The advisory lock on the data directory, which the kernel releases when *)
(* the process is gone.                                                    *)
Locked(i) == \E d \in Daemon : at[d] \notin {"down", "open"} /\ Dir(d) = i

Goto(d, from, to) == at[d] = from /\ at' = [at EXCEPT ![d] = to]

(* The daemon is gone. A gate that fails without a trace of its own is not *)
(* told from a process killed at that gate.                                *)
Gone(d) ==
    /\ at' = [at EXCEPT ![d] = "down"]
    /\ run' = [run EXCEPT ![d] = 0]
    /\ id' = [id EXCEPT ![d] = 0]

Launch(d) ==
    /\ Len(starts) < MaxStarts
    /\ Goto(d, "down", "open")
    /\ \E i \in Install : starts' = Append(starts, i)
    /\ run' = [run EXCEPT ![d] = Len(starts) + 1]
    /\ UNCHANGED <<id, directory, caddy>>

(* Killed, stopped by a signal, or ended by a gate that failed.            *)
Down(d) ==
    /\ at[d] # "down"
    /\ Gone(d)
    /\ UNCHANGED <<starts, directory, caddy>>

\* Mutant: the data directory is opened without its lock.
OpenStorage_Unlocked(d) ==
    /\ Goto(d, "open", "identify")
    /\ UNCHANGED <<starts, run, id, directory, caddy>>

OpenStorage(d) ==
    /\ Goto(d, "open", "identify")
    /\ ~Locked(Dir(d))
    /\ UNCHANGED <<starts, run, id, directory, caddy>>

-----------------------------------------------------------------------------
(* read_or_create and ensure_sentinel.                                     *)

ReadId(d) ==
    /\ Goto(d, "identify", "check")
    /\ idFile[Dir(d)] # 0
    /\ id' = [id EXCEPT ![d] = idFile[Dir(d)]]
    /\ UNCHANGED <<starts, run, directory, caddy>>

(* A file that spells no id counts as absent.                              *)
DraftId(d) ==
    /\ Goto(d, "identify", "rename")
    /\ idFile[Dir(d)] = 0
    /\ id' = [id EXCEPT ![d] = run[d]]
    /\ UNCHANGED <<starts, run, directory, caddy>>

RenameId(d) ==
    /\ Goto(d, "rename", "check")
    /\ idFile' = [idFile EXCEPT ![Dir(d)] = id[d]]
    /\ UNCHANGED <<starts, run, id, creds, account, mustChange, row, caddy>>

\* Mutant: any sentinel is taken for one's own.
Verdict_AnySentinel(d, found) == IF found = 0 THEN "claim" ELSE "count"

(* What the daemon does with the id that the GET has found. A foreign      *)
(* sentinel ends a start that was not told to take over.                   *)
Verdict(d, found) ==
    IF found = 0 THEN "claim"
    ELSE IF found = id[d] THEN "count"
    ELSE "takeover"

FindSentinel(d) ==
    /\ Goto(d, "check", Verdict(d, sentinel))
    /\ UNCHANGED <<starts, run, id, directory, caddy>>

SentinelBecomes(n) ==
    /\ sentinel' = n
    /\ displaced' = (displaced \/ (sentinel # 0 /\ n # sentinel))

(* A claim puts the whole sentinel, a takeover only its installation_id:   *)
(* where the sentinel has gone, that makes none.                           *)
Put(kind, n) == SentinelBecomes(IF kind = "takeover" /\ sentinel = 0 THEN 0 ELSE n)

PutSentinel(d) ==
    /\ \E kind \in {"claim", "takeover"} : Goto(d, kind, "count") /\ Put(kind, id[d])
    /\ UNCHANGED <<starts, run, id, directory, late>>

(* Caddy does not answer in time: the start fails, the PUT may yet happen. *)
PutUnanswered(d) ==
    /\ at[d] \in {"claim", "takeover"}
    /\ late' = late \cup {<<at[d], id[d]>>}
    /\ Gone(d)
    /\ UNCHANGED <<starts, directory, sentinel, displaced>>

LatePut(put) ==
    /\ Put(put[1], put[2])
    /\ late' = late \ {put}
    /\ UNCHANGED <<daemons, directory>>

-----------------------------------------------------------------------------
(* bootstrap_if_empty.                                                     *)

CountUsers(d) ==
    /\ Goto(d, "count", IF account[Dir(d)] = 0 THEN "file" ELSE "bind")
    /\ UNCHANGED <<starts, run, id, directory, caddy>>

\* Mutant: a file that is there already is kept and counts as written.
WriteFile_Keeps(d) ==
    /\ Goto(d, "file", "user")
    /\ creds' = [creds EXCEPT ![Dir(d)] = IF @ = 0 THEN run[d] ELSE @]
    /\ UNCHANGED <<starts, run, id, idFile, account, mustChange, row, caddy>>

(* create_new: a file that is there already fails the start.               *)
WriteFile(d) ==
    /\ Goto(d, "file", "user")
    /\ creds[Dir(d)] = 0
    /\ creds' = [creds EXCEPT ![Dir(d)] = run[d]]
    /\ UNCHANGED <<starts, run, id, idFile, account, mustChange, row, caddy>>

WriteFails(d) ==
    /\ at[d] = "file" /\ creds[Dir(d)] = 0
    /\ creds' = [creds EXCEPT ![Dir(d)] = Garbled]
    /\ Gone(d)
    /\ UNCHANGED <<starts, idFile, account, mustChange, row, caddy>>

\* Mutant: set_must_change_pw is forgotten.
CreateUser_Unflagged(d) ==
    /\ Goto(d, "user", "audit")
    /\ account[Dir(d)] = 0
    /\ account' = [account EXCEPT ![Dir(d)] = run[d]]
    /\ UNCHANGED <<starts, run, id, idFile, creds, mustChange, row, caddy>>

CreateUser(d) ==
    /\ Goto(d, "user", "flag")
    /\ account[Dir(d)] = 0      \* username is UNIQUE
    /\ account' = [account EXCEPT ![Dir(d)] = run[d]]
    /\ UNCHANGED <<starts, run, id, idFile, creds, mustChange, row, caddy>>

SetFlag(d) ==
    /\ Goto(d, "flag", "audit")
    /\ mustChange' = [mustChange EXCEPT ![Dir(d)] = TRUE]
    /\ UNCHANGED <<starts, run, id, idFile, creds, account, row, caddy>>

(* create_user or set_must_change_pw returns an error: the file is removed *)
(* (a removal that fails is a Down), an account that exists by then stays. *)
UserFails(d) ==
    /\ at[d] \in {"user", "flag"}
    /\ creds' = [creds EXCEPT ![Dir(d)] = 0]
    /\ Gone(d)
    /\ UNCHANGED <<starts, idFile, account, mustChange, row, caddy>>

RecordBootstrap(d) ==
    /\ Goto(d, "audit", "bind")
    /\ row' = [row EXCEPT ![Dir(d)] = TRUE]
    /\ UNCHANGED <<starts, run, id, idFile, creds, account, mustChange, caddy>>

BindHttp(d) ==
    /\ Goto(d, "bind", "ready")
    /\ UNCHANGED <<starts, run, id, directory, caddy>>

-----------------------------------------------------------------------------
(* The rest of the world.                                                  *)

(* An apply: POST /load replaces the whole configuration, and what the     *)
(* renderer emits has no object with the sentinel's @id.                   *)
LoadDropsSentinel(d) ==
    /\ at[d] = "ready"
    /\ SentinelBecomes(0)
    /\ UNCHANGED <<daemons, directory, late>>

(* Caddy restarts with the configuration of its own file.                  *)
CaddyRestarts ==
    /\ SentinelBecomes(0) /\ late' = {}
    /\ UNCHANGED <<daemons, directory>>

(* The operator removes a credentials file that keeps the daemon from      *)
(* starting.                                                               *)
RemoveFile(i) ==
    /\ creds[i] # 0 /\ account[i] = 0 /\ ~Locked(i)
    /\ creds' = [creds EXCEPT ![i] = 0]
    /\ UNCHANGED <<daemons, idFile, account, mustChange, row, caddy>>

Step(d) ==
    \/ OpenStorage(d) \/ ReadId(d) \/ DraftId(d) \/ RenameId(d)
    \/ FindSentinel(d) \/ PutSentinel(d) \/ PutUnanswered(d)
    \/ CountUsers(d) \/ WriteFile(d) \/ WriteFails(d) \/ CreateUser(d) \/ SetFlag(d)
    \/ UserFails(d) \/ RecordBootstrap(d) \/ BindHttp(d)

Next ==
    \/ \E d \in Daemon : Launch(d) \/ Down(d) \/ Step(d) \/ LoadDropsSentinel(d)
    \/ \E put \in late : LatePut(put)
    \/ CaddyRestarts
    \/ \E i \in Install : RemoveFile(i)

Spec == Init /\ [][Next]_vars
-----------------------------------------------------------------------------
(* As long as no sentinel has been replaced or dropped, the sentinel names *)
(* the installation of every daemon that has passed the ownership check,   *)
(* whatever starts were killed, went unanswered or ran at the same time    *)
(* (ensure_sentinel).                                                      *)
OwnerIsMarked ==
    \A d \in Daemon : at[d] \in PastCheck => displaced \/ sentinel = id[d]

(* Hence daemons of two installations are both past the check only after a *)
(* sentinel has been replaced or dropped.                                  *)
SoleOwner ==
    \A d, e \in Daemon :
        at[d] \in PastCheck /\ at[e] \in PastCheck => displaced \/ Dir(d) = Dir(e)

(* An installation recognises at its next start the sentinel that it wrote *)
(* in an earlier one, or that a PUT it gave up on will write: the id was   *)
(* saved before it was used, and has not been saved over since             *)
(* (read_or_create, LockHandle::acquire).                                  *)
OwnSentinelRecognised ==
    \A n \in {sentinel} \cup {put[2] : put \in late} :
        n # 0 => idFile[starts[n]] = n

(* An account that demands a new password at the first login lets its      *)
(* owner log in: the credentials file holds its password, whichever start  *)
(* wrote it, also when the start that made the account was killed          *)
(* (bootstrap_if_empty).                                                   *)
CredentialsOpenAccount ==
    \A i \in Install : mustChange[i] => account[i] # 0 /\ creds[i] = account[i]

(* A daemon that serves requests has an account, and the start that        *)
(* created it gets there only with the flag set and the row written        *)
(* (bootstrap_if_empty, run_bootstrap).                                    *)
BootstrapComplete ==
    \A d \in Daemon : at[d] \in {"bind", "ready"} =>
        /\ account[Dir(d)] # 0
        /\ account[Dir(d)] = run[d] => mustChange[Dir(d)] /\ row[Dir(d)]
=============================================================================
