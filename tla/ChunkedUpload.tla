---------------------------- MODULE ChunkedUpload ----------------------------
(***************************************************************************)
(* A large file sent as many requests (platform/chunked_uploads.rs). The   *)
(* registry, behind a mutex, says what each upload has taken; the bytes go *)
(* to a partial file through a pool of threads; between the two a client   *)
(* may go away, the sweeper may pass, and the gateway may stop.            *)
(*                                                                         *)
(* One device, every upload of the same declared size. A byte of the model *)
(* is what one write to the file carries, and is called after the request  *)
(* it came with, so that the file tells whose bytes it holds. Refusals     *)
(* that change nothing are left out.                                       *)
(***************************************************************************)
EXTENDS Naturals, Sequences, FiniteSets

CONSTANTS
  Ids,        \* the uploads' names, drawn once each
  Requests,   \* the requests under way at a time
  Size,       \* the size declared
  Chunk,      \* CHUNK_BYTES
  PerDevice,  \* MAX_CHUNKED_PER_DEVICE
  Reclaim,    \* CHUNKED_RECLAIM_AFTER and
  IdleTtl,    \* CHUNKED_IDLE_TTL, in ticks
  MaxBreaks,  \* bound: requests that break off
  MaxStops    \* bound: how often the gateway stops

ASSUME UploadAssumption ==
  /\ Ids # {} /\ {Size, Chunk, PerDevice} \subseteq Nat \ {0} /\ {MaxBreaks, MaxStops} \subseteq Nat
  /\ Reclaim \in Nat /\ IdleTtl \in Nat /\ 0 < Reclaim /\ Reclaim < IdleTtl

VARIABLES
  uploads,  \* the registry: by upload, what it has received, whether it is busy or
            \* done, the age of its last touch; ghost: the bytes of the chunks taken
  partial,  \* by upload, its file under .partial, the age of its last write; ghost:
            \* whether a late write changed a byte of it
  stored,   \* by upload, the file published; ghost: what the upload had taken
  jobs,     \* by request, where it is
  late,     \* writes of requests that are over, still with the pool
  sweeper,  \* what the sweep under way found owned; whether it is the first one
  spent     \* how often requests broke off and the gateway stopped

vars == <<uploads, partial, stored, jobs, late, sweeper, spent>>

Zero == "zero"
None == [there |-> FALSE]
NoFile == [there |-> FALSE, data |-> <<>>, age |-> 0, strayed |-> FALSE, taken |-> <<>>]
Ages == 0..IdleTtl

Data(S) == UNION {[1..n -> S] : n \in 0..Size}
Upload == [there: {TRUE}, received: 0..Size, busy: BOOLEAN, age: Ages, done: BOOLEAN,
           taken: Data(Requests)]
File == [there: BOOLEAN, data: Data(Requests \union {Zero}), age: Ages, strayed: BOOLEAN,
         taken: Data(Requests)]
Write == [id: Ids, at: 0..Size, byte: Requests]
Phases == {"rest", "filed", "writing", "undo", "release", "judging", "judged", "published",
           "aborted", "refused"}

TypeOK ==
  /\ uploads \in [Ids -> Upload \union {None}]
  /\ partial \in [Ids -> File] /\ stored \in [Ids -> File]
  /\ \A r \in Requests :
       /\ jobs[r].pc \in Phases /\ jobs[r].id \in Ids /\ jobs[r].age \in Ages
       /\ jobs[r].base + Len(jobs[r].body) <= Size
       /\ jobs[r].pc \in {"writing", "undo", "release"} => Len(jobs[r].body) <= Chunk
  /\ late \subseteq Write
  /\ \A u \in Ids : uploads[u].there => Len(uploads[u].taken) = uploads[u].received

Idle == [pc |-> "rest", id |-> CHOOSE u \in Ids : TRUE, base |-> 0, body |-> <<>>,
         out |-> {}, age |-> 0]

Init ==
  /\ uploads = [u \in Ids |-> None]
  /\ partial = [u \in Ids |-> NoFile]
  /\ stored = [u \in Ids |-> NoFile]
  /\ jobs = [r \in Requests |-> Idle]
  /\ late = {}
  /\ sweeper = [pc |-> "rest", owned |-> {}, first |-> TRUE]
  /\ spent = [breaks |-> 0, stops |-> 0]

At(r, pc) == jobs[r].pc = pc
Has(u) == uploads[u].there
Goes(r, pc) == jobs' = [jobs EXCEPT ![r].pc = pc]
Ends(r) == jobs' = [jobs EXCEPT ![r] = Idle]
Removed(u) == [partial EXCEPT ![u] = NoFile]

Spend(what, max) == spent[what] < max /\ spent' = [spent EXCEPT ![what] = @ + 1]

(* No request, no write, no sweep and no stored file knows of it.            *)
Unused(u) ==
  /\ ~stored[u].there /\ u \notin sweeper.owned
  /\ \A r \in Requests : jobs[r].pc # "rest" => jobs[r].id # u
  /\ \A w \in late : w.id # u

-----------------------------------------------------------------------------
(* create *)

Expired(u) == uploads[u].there /\ uploads[u].age >= IdleTtl

(* Under the lock: the uploads past their time are forgotten; at the limit,  *)
(* one that is idle makes room, or there is none.                            *)
Kept == [u \in Ids |-> IF Expired(u) THEN None ELSE uploads[u]]
Mine == {u \in Ids : Kept[u].there /\ ~Kept[u].done}
Stale == {u \in Mine : Kept[u].age >= Reclaim /\ ~Kept[u].busy}
Room == IF Cardinality(Mine) < PerDevice THEN {{}} ELSE {{u} : u \in Stale}

FilesWithout(us) == [u \in Ids |-> IF u \in us THEN NoFile ELSE partial[u]]
UploadsWithout(us) == [u \in Ids |-> IF u \in us THEN None ELSE Kept[u]]

(* Then the file of a new name; one nothing is left of is as good as new.    *)
CreateBegins(r, new) ==
  /\ At(r, "rest") /\ Unused(new)
  /\ \E room \in Room :
       /\ uploads' = UploadsWithout(room) /\ ~uploads'[new].there
       /\ ~FilesWithout(room)[new].there
       /\ partial' = [FilesWithout(room) EXCEPT ![new].there = TRUE]
  /\ jobs' = [jobs EXCEPT ![r] = [Idle EXCEPT !.pc = "filed", !.id = new]]
  /\ UNCHANGED <<stored, late, sweeper, spent>>

(* No room, or the file cannot be made.                                      *)
CreateFails ==
  /\ \E room \in Room \union {{}} :
       uploads' = UploadsWithout(room) /\ partial' = FilesWithout(room)
  /\ UNCHANGED <<stored, jobs, late, sweeper, spent>>

CreateRegisters(r) ==
  /\ At(r, "filed")
  /\ uploads' = [uploads EXCEPT ![jobs[r].id] =
       [there |-> TRUE, received |-> 0, busy |-> FALSE, age |-> jobs[r].age,
        done |-> FALSE, taken |-> <<>>]]
  /\ Ends(r)
  /\ UNCHANGED <<partial, stored, late, sweeper, spent>>

-----------------------------------------------------------------------------
(* put_chunk *)

(* Mutant of MayWrite: two chunks at once.                                   *)
MayWriteBusy(u) == Has(u) /\ ~uploads[u].done
(* Under the lock: the chunk that is next, of an upload nobody is busy with. *)
MayWrite(u) == Has(u) /\ ~uploads[u].done /\ ~uploads[u].busy

PutBegins(r, u) ==
  /\ At(r, "rest") /\ MayWrite(u)
  /\ uploads' = [uploads EXCEPT ![u].busy = TRUE]
  /\ jobs' = [jobs EXCEPT ![r] = [Idle EXCEPT !.pc = IF partial[u].there THEN "writing" ELSE "undo",
                                              !.id = u, !.base = uploads[u].received]]
  /\ UNCHANGED <<partial, stored, late, sweeper, spent>>

Least(m, n) == IF m < n THEN m ELSE n
Limit(r) == Least(Chunk, Size - jobs[r].base)

(* The pool has one write of a request at a time.                            *)
PutWrites(r) ==
  LET job == jobs[r] IN
  /\ At(r, "writing") /\ job.out = {} /\ Len(job.body) < Limit(r)
  /\ jobs' = [jobs EXCEPT ![r].body = Append(@, r),
                          ![r].out = {[id |-> job.id, at |-> job.base + Len(job.body), byte |-> r]}]
  /\ UNCHANGED <<uploads, partial, stored, late, sweeper, spent>>

Longest(m, n) == IF m > n THEN m ELSE n
Written(file, w) ==
  [file EXCEPT !.age = 0,
     !.data = [i \in 1..Longest(Len(@), w.at + 1) |->
                 IF i = w.at + 1 THEN w.byte ELSE IF i <= Len(@) THEN @[i] ELSE Zero]]

(* A write reaches the file wherever it was moved, and nothing if it is gone. *)
Reached(file, w) == IF file.there THEN Written(file, w) ELSE file
Lands(w) ==
  /\ partial' = [partial EXCEPT ![w.id] = Reached(@, w)]
  /\ stored' = [stored EXCEPT ![w.id] = Reached(@, w)]

WriteLands(r) ==
  /\ \E w \in jobs[r].out : Lands(w)
  /\ jobs' = [jobs EXCEPT ![r].out = {}]
  /\ UNCHANGED <<uploads, late, sweeper, spent>>

(* It may come after another request's write to the same place.              *)
Strays(file, w) ==
  [Reached(file, w) EXCEPT
     !.strayed = @ \/ (w.at < Len(file.data) /\ file.data[w.at + 1] # w.byte)]

LateLands ==
  \E w \in late :
    /\ partial' = [partial EXCEPT ![w.id] = Strays(@, w)]
    /\ stored' = [stored EXCEPT ![w.id] = Strays(@, w)]
    /\ late' = late \ {w}
    /\ UNCHANGED <<uploads, jobs, sweeper, spent>>

(* Flushed, then under the lock: the chunk is taken, if the upload is still  *)
(* there.                                                                    *)
PutTakes(r) ==
  LET job == jobs[r]  u == job.id IN
  /\ At(r, "writing") /\ job.out = {} /\ job.body # <<>>
  /\ IF Has(u)
     THEN /\ uploads' = [uploads EXCEPT ![u].received = @ + Len(job.body),
                                        ![u].taken = @ \o job.body]
          /\ Goes(r, "release")
     ELSE Goes(r, "undo") /\ UNCHANGED uploads
  /\ UNCHANGED <<partial, stored, late, sweeper, spent>>

(* The client goes away, its body breaks off, is empty or too long, or the   *)
(* disk fails. What the pool has, it still writes.                           *)
PutBreaksOff(r) ==
  /\ At(r, "writing") /\ Spend("breaks", MaxBreaks)
  /\ late' = late \union jobs[r].out
  /\ jobs' = [jobs EXCEPT ![r].pc = "undo", ![r].out = {}]
  /\ UNCHANGED <<uploads, partial, stored, sweeper>>

(* ChunkGuard: the file back to the last whole chunk, then the upload free.  *)
Truncated(file, len) ==
  [file EXCEPT !.age = 0,
               !.data = [i \in 1..len |-> IF i <= Len(@) THEN @[i] ELSE Zero]]

(* Mutant of GuardUndoes: another chunk may begin before the file is put back. *)
GuardUndoesFreed(r) ==
  LET u == jobs[r].id IN
  \/ /\ At(r, "undo") /\ Has(u) /\ uploads[u].busy
     /\ uploads' = [uploads EXCEPT ![u].busy = FALSE]
     /\ UNCHANGED <<partial, jobs, stored, late, sweeper, spent>>
  \/ /\ At(r, "undo")
     /\ partial' = IF partial[u].there
                   THEN [partial EXCEPT ![u] = Truncated(@, jobs[r].base)] ELSE partial
     /\ Ends(r)
     /\ UNCHANGED <<uploads, stored, late, sweeper, spent>>
GuardUndoes(r) ==
  LET u == jobs[r].id IN
  /\ At(r, "undo")
  /\ partial' = IF partial[u].there
                THEN [partial EXCEPT ![u] = Truncated(@, jobs[r].base)] ELSE partial
  /\ Goes(r, "release")
  /\ UNCHANGED <<uploads, stored, late, sweeper, spent>>

GuardReleases(r) ==
  LET u == jobs[r].id IN
  /\ At(r, "release")
  /\ uploads' = IF Has(u) THEN [uploads EXCEPT ![u].busy = FALSE, ![u].age = 0] ELSE uploads
  /\ Ends(r)
  /\ UNCHANGED <<partial, stored, late, sweeper, spent>>

-----------------------------------------------------------------------------
(* complete *)

(* Mutant of MayComplete: by the chunks, not the bytes.                      *)
MayCompleteEarly(u) == Has(u) /\ ~uploads[u].done /\ ~uploads[u].busy /\ uploads[u].received > 0
MayComplete(u) ==
  Has(u) /\ ~uploads[u].done /\ ~uploads[u].busy /\ uploads[u].received = Size

CompleteBegins(r, u) ==
  /\ At(r, "rest") /\ MayComplete(u)
  /\ uploads' = [uploads EXCEPT ![u].busy = TRUE]
  /\ jobs' = [jobs EXCEPT ![r] = [Idle EXCEPT !.pc = "judging", !.id = u, !.body = uploads[u].taken]]
  /\ UNCHANGED <<partial, stored, late, sweeper, spent>>

(* judge, on a thread of its own: a type the gateway stores, or the upload   *)
(* is dropped.                                                               *)
CompleteJudged(r) ==
  LET u == jobs[r].id IN
  /\ At(r, "judging")
  /\ \/ partial[u].there /\ Goes(r, "judged") /\ UNCHANGED uploads
     \/ Goes(r, "refused") /\ uploads' = [uploads EXCEPT ![u] = None]
  /\ UNCHANGED <<partial, stored, late, sweeper, spent>>

(* A request whose client goes away while it waits ends there.               *)
CompleteBreaksOff(r) ==
  /\ At(r, "judging") /\ Spend("breaks", MaxBreaks)
  /\ Ends(r)
  /\ UNCHANGED <<uploads, partial, stored, late, sweeper>>

CompletePublishes(r) ==
  LET u == jobs[r].id IN
  /\ At(r, "judged")
  /\ \/ /\ partial[u].there
        /\ stored' = [stored EXCEPT ![u] = [partial[u] EXCEPT !.age = 0, !.taken = jobs[r].body]]
        /\ partial' = Removed(u)
        /\ Goes(r, "published")
        /\ UNCHANGED uploads
     \/ /\ ~partial[u].there
        /\ uploads' = IF Has(u) THEN [uploads EXCEPT ![u].busy = FALSE] ELSE uploads
        /\ Ends(r)
        /\ UNCHANGED <<stored, partial>>
  /\ UNCHANGED <<late, sweeper, spent>>

CompleteEnds(r) ==
  LET u == jobs[r].id IN
  /\ At(r, "published")
  /\ uploads' = IF Has(u) THEN [uploads EXCEPT ![u].busy = FALSE, ![u].age = 0, ![u].done = TRUE]
                ELSE uploads
  /\ Ends(r)
  /\ UNCHANGED <<partial, stored, late, sweeper, spent>>

-----------------------------------------------------------------------------
(* abort, under the lock; its file is removed after.                         *)

AbortBegins(r, u) ==
  /\ At(r, "rest") /\ Has(u)
  /\ uploads' = [uploads EXCEPT ![u] = None]
  /\ jobs' = IF uploads[u].done THEN jobs
             ELSE [jobs EXCEPT ![r] = [Idle EXCEPT !.pc = "aborted", !.id = u]]
  /\ UNCHANGED <<partial, stored, late, sweeper, spent>>

FileDropped(r) ==
  /\ jobs[r].pc \in {"aborted", "refused"}
  /\ partial' = Removed(jobs[r].id)
  /\ Ends(r)
  /\ UNCHANGED <<uploads, stored, late, sweeper, spent>>

-----------------------------------------------------------------------------
(* sweep: under the lock, the uploads past their time; then the files no     *)
(* upload owns, the young ones too when the gateway starts.                  *)

(* Mutant of Swept: the busy ones are left alone.                            *)
SweptIdle(u) == Expired(u) /\ ~uploads[u].busy
Swept(u) == Expired(u)

SweepBegins ==
  /\ sweeper.pc = "rest"
  /\ uploads' = [u \in Ids |-> IF Swept(u) THEN None ELSE uploads[u]]
  /\ partial' = [u \in Ids |-> IF Swept(u) /\ ~uploads[u].done THEN NoFile ELSE partial[u]]
  /\ sweeper' = [sweeper EXCEPT !.pc = "files", !.owned = {u \in Ids : uploads'[u].there}]
  /\ UNCHANGED <<stored, jobs, late, spent>>

(* Mutant of Orphan: only when the gateway starts.                           *)
OrphanAtStart(u) == u \notin sweeper.owned /\ sweeper.first
Orphan(u) == u \notin sweeper.owned /\ (sweeper.first \/ partial[u].age >= IdleTtl)

SweepFiles ==
  /\ sweeper.pc = "files"
  /\ partial' = [u \in Ids |-> IF Orphan(u) THEN NoFile ELSE partial[u]]
  /\ sweeper' = [pc |-> "rest", owned |-> {}, first |-> FALSE]
  /\ UNCHANGED <<uploads, stored, jobs, late, spent>>

-----------------------------------------------------------------------------
(* Time, and a stop.                                                         *)

Older(age) == Least(age + 1, IdleTtl)

(* An age past IdleTtl says no more than IdleTtl.                            *)
Tick ==
  /\ uploads' = [u \in Ids |-> IF Has(u) THEN [uploads[u] EXCEPT !.age = Older(@)] ELSE None]
  /\ partial' = [u \in Ids |-> IF partial[u].there THEN [partial[u] EXCEPT !.age = Older(@)]
                               ELSE NoFile]
  /\ jobs' = [r \in Requests |-> IF jobs[r].pc = "filed"
                                 THEN [jobs[r] EXCEPT !.age = Older(@)] ELSE jobs[r]]
  /\ UNCHANGED <<stored, late, sweeper, spent>>

Stop ==
  /\ Spend("stops", MaxStops)
  /\ uploads' = [u \in Ids |-> None]
  /\ jobs' = [r \in Requests |-> Idle]
  /\ late' = {}
  /\ sweeper' = [pc |-> "rest", owned |-> {}, first |-> TRUE]
  /\ UNCHANGED <<partial, stored>>

-----------------------------------------------------------------------------
Work(r) ==
  \/ CreateRegisters(r)
  \/ WriteLands(r) \/ GuardUndoes(r) \/ GuardReleases(r)
  \/ CompleteJudged(r) \/ CompletePublishes(r) \/ CompleteEnds(r)
  \/ FileDropped(r)

Next ==
  \/ \E r \in Requests :
       \/ Work(r)
       \/ \E u \in Ids : CreateBegins(r, u) \/ PutBegins(r, u) \/ CompleteBegins(r, u)
                         \/ AbortBegins(r, u)
       \/ PutWrites(r) \/ PutTakes(r) \/ PutBreaksOff(r) \/ CompleteBreaksOff(r)
  \/ CreateFails
  \/ LateLands
  \/ SweepBegins \/ SweepFiles
  \/ Tick \/ Stop

Spec == Init /\ [][Next]_vars

(* The gateway's own work comes to its end, the sweeper passes again and     *)
(* again, and time goes on. No client has to send anything.                  *)
FairSpec ==
  /\ Spec
  /\ \A r \in Requests : WF_vars(Work(r))
  /\ WF_vars(LateLands) /\ WF_vars(SweepBegins \/ SweepFiles) /\ WF_vars(Tick)

-----------------------------------------------------------------------------
(* PROPERTIES *)

Begins(file, data) == Len(file) >= Len(data) /\ SubSeq(file, 1, Len(data)) = data

(* However requests broke off and were sent again, an upload's file begins   *)
(* with the chunks it took, and the file published is they and no more,      *)
(* unless a write of a request that was over came after all (put_chunk,      *)
(* ChunkGuard, complete).                                                    *)
KeptAsTaken ==
  \A u \in Ids :
    /\ Has(u) /\ partial[u].there /\ ~partial[u].strayed =>
         Begins(partial[u].data, uploads[u].taken)
    /\ stored[u].there /\ ~stored[u].strayed =>
         stored[u].data = stored[u].taken /\ Len(stored[u].taken) = Size

(* An upload is not busy for ever, whatever the client does: its request     *)
(* ends, or the sweep forgets it (ChunkGuard, sweep).                        *)
NothingStaysBusy ==
  \A u \in Ids : (Has(u) /\ uploads[u].busy) ~> ~(Has(u) /\ uploads[u].busy)

(* A partial file no upload owns goes, whoever left it there (sweep).        *)
OrphansAreSwept ==
  \A u \in Ids : (partial[u].there /\ ~Has(u)) ~> (~partial[u].there \/ Has(u))

-----------------------------------------------------------------------------
(* What the sources say, and the code does not keep.                         *)

(* put_chunk and complete answer upload_busy for an upload that is receiving *)
(* a chunk or being finished: one nobody is at work on is not busy.          *)
BusyMeansAtWork ==
  \A u \in Ids : Has(u) /\ uploads[u].busy =>
    \E r \in Requests : jobs[r].pc # "rest" /\ jobs[r].id = u
=============================================================================
