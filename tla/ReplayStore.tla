----------------------------- MODULE ReplayStore -----------------------------
(***************************************************************************)
(* At most once (connectivity/replay_store.rs, and its caller in           *)
(* platform/server.rs): an encrypted request is opened where it arrives,   *)
(* waits for the store's thread, and is admitted there in one transaction  *)
(* that judges it by the clock of that moment, prunes and records it. The  *)
(* same request may arrive any number of times, the wall clock may be set  *)
(* to any time, and the gateway may stop with requests waiting.            *)
(*                                                                         *)
(* A version 2 envelope authenticates its timestamp; a version 1 envelope  *)
(* does not, and may arrive again with another one.                        *)
(***************************************************************************)
EXTENDS Naturals, Sequences, FiniteSets

CONSTANTS
  Credentials,  \* device and credential hash, as one
  Nonces,
  MaxSkew,      \* MAX_CLOCK_SKEW_MS
  MaxRows,      \* MAX_NONCES_PER_CREDENTIAL
  Times,        \* bound: what the clock may read and an envelope may say
  MaxQueue      \* bound: requests waiting for the store's thread

ASSUME ReplayAssumption ==
  /\ MaxSkew \in Nat
  /\ MaxRows \in Nat \ {0}
  /\ Times \subseteq Nat /\ Times # {}
  /\ MaxQueue \in Nat

Versions == {1, 2}
Envelopes == [cred: Credentials, nonce: Nonces, version: Versions, stamp: Times]

VARIABLES
  clock,   \* now_unix_ms
  cutoff,  \* transport_pruning
  pin,     \* transport_credentials: minimum_version, 1 where there is no row
  kept,    \* transport_nonces, an envelope a row
  queue,   \* opened requests that wait for the store's thread
  answer,  \* what the last step answered
  ran,     \* ghost: the requests admitted to their handlers
  twice,   \* ghost: one of them was admitted again
  latest   \* ghost: the latest time a request was admitted at

replayVars == <<clock, cutoff, pin, kept, queue, answer, ran, twice, latest>>

Acceptance == {"accepted", "replayed", "version_required", "capacity", "invalid_metadata"}

ReplayTypeOK ==
  /\ clock \in Times
  /\ cutoff \in Nat
  /\ pin \in [Credentials -> Versions]
  /\ kept \subseteq Envelopes
  /\ queue \in Seq(Envelopes)
  /\ answer \in Acceptance \union {"none"}
  /\ ran \subseteq Envelopes
  /\ twice \in BOOLEAN
  /\ latest \in Nat

ReplayInit ==
  /\ clock \in Times
  /\ cutoff = 0
  /\ pin = [c \in Credentials |-> 1]
  /\ kept = {}
  /\ queue = <<>>
  /\ answer = "none"
  /\ ran = {} /\ twice = FALSE /\ latest = 0

(* One request, however often it arrives: a version 1 envelope is the same    *)
(* one under another timestamp.                                               *)
SameRequest(d, e) ==
  /\ d.cred = e.cred /\ d.nonce = e.nonce /\ d.version = e.version
  /\ e.version = 2 => d.stamp = e.stamp

(* timestamp_is_fresh: inclusive on both sides.                               *)
Fresh(stamp) == stamp <= clock + MaxSkew /\ clock <= stamp + MaxSkew

(* Mutants of Oldest: what is fresh is pruned; the subtraction does not stop   *)
(* at zero.                                                                   *)
OldestIsNow == IF clock > cutoff THEN clock ELSE cutoff
OldestUnbounded == clock - MaxSkew

(* The new cutoff: never before the one on disk.                              *)
Oldest ==
  LET skewed == IF clock > MaxSkew THEN clock - MaxSkew ELSE 0
  IN  IF skewed > cutoff THEN skewed ELSE cutoff

(* What is left of the table once the old version 2 rows are pruned.          *)
Pruned == {r \in kept : r.version = 1 \/ r.stamp >= Oldest}
Seen(e) == \E r \in Pruned : r.cred = e.cred /\ r.nonce = e.nonce

(* ... and once a credential's first version 2 request releases its legacy    *)
(* rows.                                                                      *)
Released(e) ==
  IF e.version = 2 /\ pin[e.cred] = 1
  THEN {r \in Pruned : ~(r.cred = e.cred /\ r.version = 1)}
  ELSE Pruned

RowsOf(c, rows) == {r \in rows : r.cred = c}

(* Mutant of Full: counted before the legacy rows are released.               *)
FullUnreleased(e) == Cardinality(RowsOf(e.cred, Pruned)) >= MaxRows
Full(e) == Cardinality(RowsOf(e.cred, Released(e))) >= MaxRows

(* Mutant of Verdict: an old version 2 envelope is not held to the cutoff.    *)
VerdictNoCutoff(e) ==
  CASE ~Fresh(e.stamp)         -> "invalid_metadata"
    [] e.version < pin[e.cred] -> "version_required"
    [] Seen(e)                 -> "replayed"
    [] Full(e)                 -> "capacity"
    [] OTHER                   -> "accepted"

(* The first check that fails answers.                                        *)
Verdict(e) ==
  CASE ~Fresh(e.stamp)                      -> "invalid_metadata"
    [] e.version = 2 /\ e.stamp < cutoff    -> "invalid_metadata"
    [] e.version < pin[e.cred]              -> "version_required"
    [] Seen(e)                              -> "replayed"
    [] Full(e)                              -> "capacity"
    [] OTHER                                -> "accepted"

-----------------------------------------------------------------------------
(* open_checked, where the request arrives: it must be fresh by then.         *)
Open(e) ==
  /\ Len(queue) < MaxQueue
  /\ Fresh(e.stamp)
  /\ queue' = Append(queue, e)
  /\ answer' = "none"
  /\ UNCHANGED <<clock, cutoff, pin, kept, ran, twice, latest>>

(* A transaction that does not commit leaves nothing behind, what it pruned   *)
(* included.                                                                  *)
Refuse ==
  LET e == Head(queue) IN
  /\ queue # <<>>
  /\ Verdict(e) # "accepted"
  /\ queue' = Tail(queue)
  /\ answer' = Verdict(e)
  /\ UNCHANGED <<clock, cutoff, pin, kept, ran, twice, latest>>

Admit ==
  LET e == Head(queue) IN
  /\ queue # <<>>
  /\ Verdict(e) = "accepted"
  /\ queue' = Tail(queue)
  /\ answer' = "accepted"
  /\ cutoff' = Oldest
  /\ kept' = Released(e) \union {e}
  /\ pin' = [pin EXCEPT ![e.cred] = IF e.version > @ THEN e.version ELSE @]
  /\ ran' = ran \union {e}
  /\ twice' = (twice \/ \E d \in ran : SameRequest(d, e))
  /\ latest' = IF clock > latest THEN clock ELSE latest
  /\ UNCHANGED clock

(* The wall clock goes on, or is set, forward or back.                        *)
ClockReads(t) ==
  /\ clock' = t
  /\ answer' = "none"
  /\ UNCHANGED <<cutoff, pin, kept, queue, ran, twice, latest>>

(* A stop: what waited is gone, what committed stays.                         *)
Restart ==
  /\ queue' = <<>>
  /\ answer' = "none"
  /\ UNCHANGED <<clock, cutoff, pin, kept, ran, twice, latest>>

ReplayNext ==
  \/ \E e \in Envelopes : Open(e)
  \/ Refuse
  \/ Admit
  \/ \E t \in Times : ClockReads(t)
  \/ Restart

ReplaySpec == ReplayInit /\ [][ReplayNext]_replayVars

-----------------------------------------------------------------------------
(* PROPERTIES *)

(* No request runs twice, however it is repeated and whatever the clock does  *)
(* between the two (replay_store.rs accept).                                  *)
NothingRunsTwice == ~twice

(* A credential that has once used version 2 never gets a version 1 request   *)
(* in again, and the cutoff never goes back (replay_store.rs accept).         *)
NoWayBack ==
  [][ /\ cutoff' >= cutoff
      /\ \A e \in ran' \ ran : \A d \in ran :
           d.cred = e.cred => d.version <= e.version ]_replayVars

(* A clock that was not set back refuses nobody: the cutoff other credentials *)
(* moved never turns away a request that is fresh by such a clock             *)
(* (replay_store.rs cutoff_ms).                                               *)
SteadyClockRefusesNone ==
  [][ queue # <<>> /\ clock >= latest /\ Fresh(Head(queue).stamp) =>
        answer' # "invalid_metadata" ]_replayVars

(* A table full of legacy rows does not keep its credential from upgrading    *)
(* (replay_store.rs: upgrading to v2 releases legacy history).                *)
UpgradeFindsRoom ==
  [][ queue # <<>> /\ Head(queue).version = 2 /\ pin[Head(queue).cred] = 1 =>
        answer' # "capacity" ]_replayVars

(* A credential never keeps more rows than it may (replay_store.rs            *)
(* MAX_NONCES_PER_CREDENTIAL).                                                *)
RowsAreBounded == \A c \in Credentials : Cardinality(RowsOf(c, kept)) <= MaxRows
=============================================================================
