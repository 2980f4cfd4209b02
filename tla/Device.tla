------------------------------- MODULE Device -------------------------------
(***************************************************************************)
(* One device: the local database (internal/storage/sqlite), the note      *)
(* service and the Syncs over it (internal/sync/service.go, client.go),    *)
(* the terminal that shows it (internal/tui) and the reminders of its      *)
(* notes (internal/reminder), against a server that answers late or not at *)
(* all and may cease to accept the device.                                 *)
(*                                                                         *)
(* The terminal is one thread and each of its messages one action. A Sync  *)
(* is a goroutine; the terminal starts one at launch, one per note and one *)
(* per tick, and nothing keeps two of them apart. Each of its requests and *)
(* database transactions is one action. The process may end between any    *)
(* two, and what it held in memory is lost.                                *)
(*                                                                         *)
(* The server is a log with one fault of Ledger: the write of a note of    *)
(* this device may fail, which leaves its block in memory only, until the  *)
(* server starts again and has lost it. A note is an id; a database row    *)
(* orders notes by creation time and id.                                   *)
(***************************************************************************)
EXTENDS Integers, Sequences, FiniteSets

CONSTANTS
  Notes,          \* note ids, ordered as numbers
  Own,            \* the notes written on this device
  Created,        \* Created[n]: created_at
  Fire,           \* Fire[n]: the time in the reminder of n, or NoTime
  Every,          \* Every[n]: the interval of its repeat rule, 0 without one
  Match,          \* the notes whose text a search matches
  PageLimit,      \* notes per page of a search
  PowEpochLength, \* 1000 in the code
  Syncs,          \* the Syncs that may run at the same time
  MaxTime,        \* bound: the last moment
  MaxFaults       \* bound: crashes, requests, answers, reads and writes that
                  \* fail, on the device or on the server

NoTime == -1
NoCursor == 0
Rotation == 0     \* a bundle of the owner on the chain

ASSUME DeviceAssumption ==
  /\ Notes \subseteq Nat \ {0}
  /\ IsFiniteSet(Notes)
  /\ Own \subseteq Notes
  /\ Match \subseteq Notes
  /\ Created \in [Notes -> Nat]
  /\ Fire \in [Notes -> Nat \cup {NoTime}]
  /\ Every \in [Notes -> Nat]
  /\ PageLimit \in Nat \ {0}
  /\ PowEpochLength \in Nat \ {0}
  /\ MaxTime \in Nat /\ MaxFaults \in Nat

VARIABLES
  \* the database: notes, local_reminders, outbox
  rows, reminders, outbox,
  \* the process and the terminal's memory (HomeModel)
  up, shown, cached, pending,
  \* history: the number of pending items is 0 because it could not be read
  misread,
  \* each Sync: where it is, the items it still has to send, the answer to the
  \* one it sent, the next block to read and the tip it read at the start
  pc, todo, answer, next, tip,
  \* the server: its chain after the genesis, what it still accepts from this
  \* device, the notes whose blocks it has in memory only
  chain, standing, volatile,
  \* history: the notes whose write failed once
  broken,
  now, faults

database == <<rows, reminders, outbox>>
memory == <<up, shown, cached, pending, misread>>
syncs == <<pc, todo, answer, next, tip>>
server == <<chain, standing, volatile, broken>>
vars == <<database, memory, syncs, server, now, faults>>

NoReminder == [fire |-> NoTime, dismissed |-> FALSE, acked |-> NoTime]

Reminder ==
  [fire : Nat \cup {NoTime}, dismissed : BOOLEAN, acked : Nat \cup {NoTime}]

Statuses == {"none", "pending", "synced", "failed"}

\* The answers of the transactions endpoint: "LOST" for none, "" while waiting.
Codes == {"", "OK", "STALE_POW_EPOCH", "UNAUTHORIZED_KEY", "INVALID_TRANSACTION",
          "INTERNAL_ERROR", "LOST"}

Standings == {"current", "old", "revoked"}

-----------------------------------------------------------------------------
(***************************************************************************)
(* Reminders: Schedule of internal/reminder/schedule.go.                   *)
(***************************************************************************)
NewSchedule(n) == [fire |-> Fire[n], dismissed |-> FALSE, acked |-> NoTime]

\* StatusAt is due or overdue; the two differ in what is displayed.
Actionable(r, t) == r # NoReminder /\ ~ r.dismissed /\ r.fire <= t

\* Variant: an occurrence at the very moment of the acknowledgement is kept.
NotBefore(fire, every, t) ==
  IF fire >= t THEN fire ELSE fire + ((t - fire) \div every + 1) * every

\* Variant: the next occurrence is counted from the acknowledgement.
FromNow(fire, every, t) == t + every

\* nextOccurrence, repeated until it lies after t.
NextFire(fire, every, t) ==
  IF fire > t THEN fire ELSE fire + ((t - fire) \div every + 1) * every

Acknowledge(n, r, t) ==
  IF Every[n] = 0
  THEN [r EXCEPT !.acked = t, !.dismissed = TRUE]
  ELSE [r EXCEPT !.acked = t, !.fire = NextFire(r.fire, Every[n], t)]

\* insertReminder: an upsert that leaves last_acknowledged_at alone.
InsertReminder(n) ==
  IF Fire[n] = NoTime THEN reminders[n]
  ELSE [fire |-> Fire[n], dismissed |-> FALSE, acked |-> reminders[n].acked]

-----------------------------------------------------------------------------
(***************************************************************************)
(* Search: SearchNotes of internal/storage/sqlite/store.go.                *)
(***************************************************************************)
\* ORDER BY created_at DESC, id DESC.
Newer(n, m) == Created[n] > Created[m] \/ (Created[n] = Created[m] /\ n > m)

\* Variant: the cursor is the creation time alone.
EarlierThan(n, c) == c = NoCursor \/ Created[n] < Created[c]

AfterCursor(n, c) ==
  c = NoCursor \/ Created[n] < Created[c] \/ (Created[n] = Created[c] /\ n < c)

\* The rows a query finds behind a cursor, and the newest of them, a page full.
Behind(S, c) == {n \in S \cap Match : AfterCursor(n, c)}

SearchPage(S, c) ==
  {n \in Behind(S, c) : Cardinality({m \in Behind(S, c) : Newer(m, n)}) < PageLimit}

\* The cursor of the next page: the last note of this one, if there are more.
NextCursor(S, c) ==
  IF Behind(S, c) = SearchPage(S, c) THEN NoCursor
  ELSE CHOOSE n \in SearchPage(S, c) : \A m \in SearchPage(S, c) \ {n} : Newer(m, n)

-----------------------------------------------------------------------------
(***************************************************************************)
(* The database as the terminal and the Syncs read it.                     *)
(***************************************************************************)
Pending == {n \in Own : outbox[n] = "pending"}      \* ListPendingOutbox

\* dueReview, its first note: the oldest fire time, of equals the newest note.
DueFirst(n) ==
  /\ n \in rows /\ Actionable(reminders[n], now)
  /\ \A m \in rows \ {n} : Actionable(reminders[m], now) =>
       \/ reminders[n].fire < reminders[m].fire
       \/ reminders[n].fire = reminders[m].fire /\ Newer(n, m)

OnChain(n) == \E i \in 1..Len(chain) : chain[i] = n

\* On the chain, or in a block that was on it until the server lost it.
WasOnChain(n) == OnChain(n) \/ n \in broken

\* ingestBlockNote: a block of a later key epoch does not open.
ReadableAt(i) == \A j \in 1..i : chain[j] # Rotation
Readable(n) == \E i \in 1..Len(chain) : chain[i] = n /\ ReadableAt(i)

-----------------------------------------------------------------------------
Init ==
  /\ rows = {}
  /\ reminders = [n \in Notes |-> NoReminder]
  /\ outbox = [n \in Notes |-> "none"]
  /\ up = FALSE /\ shown = {} /\ pending = 0 /\ misread = FALSE
  /\ cached = [n \in Notes |-> NoReminder]
  /\ pc = [s \in Syncs |-> "idle"]
  /\ todo = [s \in Syncs |-> {}]
  /\ answer = [s \in Syncs |-> ""]
  /\ next = [s \in Syncs |-> 1]
  /\ tip = [s \in Syncs |-> 0]
  /\ chain = <<>> /\ standing = "current" /\ volatile = {} /\ broken = {}
  /\ now = 0 /\ faults = 0

(***************************************************************************)
(* The process. NewHomeModel reads the notes, their reminders and the      *)
(* number of pending items; nothing reads the notes again until the next   *)
(* launch.                                                                 *)
(***************************************************************************)
\* refreshPending after spent faults: a count that cannot be read is shown as 0.
RefreshPending(items, spent) ==
  \/ pending' = Cardinality(items) /\ misread' = FALSE /\ faults' = spent
  \/ pending' = 0 /\ misread' = TRUE /\ spent < MaxFaults /\ faults' = spent + 1

Launch ==
  /\ ~ up
  /\ up' = TRUE
  /\ shown' = rows
  /\ cached' = reminders
  /\ RefreshPending(Pending, faults)
  /\ UNCHANGED <<database, syncs, server, now>>

Crash ==
  /\ up
  /\ faults < MaxFaults /\ faults' = faults + 1
  /\ up' = FALSE
  /\ shown' = {} /\ pending' = 0 /\ misread' = FALSE
  /\ cached' = [n \in Notes |-> NoReminder]
  /\ pc' = [s \in Syncs |-> "idle"]
  /\ todo' = [s \in Syncs |-> {}]
  /\ answer' = [s \in Syncs |-> ""]
  /\ next' = [s \in Syncs |-> 1]
  /\ tip' = [s \in Syncs |-> 0]
  /\ UNCHANGED <<database, server, now>>

(***************************************************************************)
(* The terminal.                                                           *)
(***************************************************************************)
\* Variant: the count on the status line waits for the next Sync.
SubmitUncounted(n) ==
  /\ up /\ n \in Own \ rows /\ Created[n] = now
  /\ rows' = rows \cup {n}
  /\ reminders' = [reminders EXCEPT ![n] = InsertReminder(n)]
  /\ outbox' = [outbox EXCEPT ![n] = "pending"]
  /\ shown' = shown \cup {n}
  /\ cached' = [cached EXCEPT ![n] = NewSchedule(n)]
  /\ UNCHANGED <<up, pending, misread, syncs, server, now, faults>>

\* HomeModel.submit: SaveNoteWithOutbox is one transaction; the cache is filled
\* from the text of the note; the count is read again.
Submit(n) ==
  /\ up /\ n \in Own \ rows /\ Created[n] = now
  /\ rows' = rows \cup {n}
  /\ reminders' = [reminders EXCEPT ![n] = InsertReminder(n)]
  /\ outbox' = [outbox EXCEPT ![n] = "pending"]
  /\ shown' = shown \cup {n}
  /\ cached' = [cached EXCEPT ![n] = NewSchedule(n)]
  /\ RefreshPending(Pending \cup {n}, faults)
  /\ UNCHANGED <<up, syncs, server, now>>

\* Ctrl+R on the home screen acknowledges the cached schedule, due or not, and
\* saves it over the stored one.
HomeAck(n) ==
  /\ up /\ n \in shown /\ cached[n] # NoReminder
  /\ cached' = [cached EXCEPT ![n] = Acknowledge(n, cached[n], now)]
  /\ reminders' = [reminders EXCEPT ![n] = Acknowledge(n, cached[n], now)]
  /\ UNCHANGED <<rows, outbox, up, shown, pending, misread, syncs, server, now, faults>>

\* Variant: the calendar leaves the home screen's copy as it was.
CalendarAckAlone(n) ==
  /\ up /\ DueFirst(n)
  /\ reminders' = [reminders EXCEPT ![n] = Acknowledge(n, reminders[n], now)]
  /\ UNCHANGED <<rows, outbox, memory, syncs, server, now, faults>>

\* Ctrl+R on the calendar. Its reads and its write are one action: a reminder
\* that a Sync resets between them is overwritten by the schedule that the reset
\* one would lead to as well.
CalendarAck(n) ==
  /\ up /\ DueFirst(n)
  /\ reminders' = [reminders EXCEPT ![n] = Acknowledge(n, reminders[n], now)]
  /\ cached' = [cached EXCEPT ![n] =
       IF cached[n] = NoReminder THEN NoReminder ELSE Acknowledge(n, reminders[n], now)]
  /\ UNCHANGED <<rows, outbox, up, shown, pending, misread, syncs, server, now, faults>>

Tick ==
  /\ now < MaxTime
  /\ now' = now + 1
  /\ UNCHANGED <<database, memory, syncs, server, faults>>

Terminal ==
  \/ Launch \/ Crash \/ Tick
  \/ \E n \in Notes : Submit(n) \/ HomeAck(n) \/ CalendarAck(n)

(***************************************************************************)
(* The server's answer to a transaction (tryAccept, after isAuthorized).   *)
(* Every item of an outbox was mined for the proof-of-work epoch 0.        *)
(***************************************************************************)
Verdict(n) ==
  IF standing = "revoked" THEN "UNAUTHORIZED_KEY"
  ELSE IF OnChain(n) THEN "OK"
  ELSE IF Len(chain) >= PowEpochLength THEN "STALE_POW_EPOCH"
  ELSE IF standing = "old" THEN "INVALID_TRANSACTION"
  ELSE "OK"

Accepted(n) == Verdict(n) = "OK" /\ ~ OnChain(n)

\* Variant: an item without an answer is taken for a duplicate.
MarkUnanswered(code, status) ==
  IF code \in {"OK", "LOST"} THEN "synced"
  ELSE IF code = "STALE_POW_EPOCH" THEN status
  ELSE "failed"

\* Variant: a stale epoch is permanent.
MarkStale(code, status) ==
  IF code = "OK" THEN "synced"
  ELSE IF code = "LOST" THEN status
  ELSE "failed"

\* Variant: every refusal is tried again.
MarkRetry(code, status) == IF code = "OK" THEN "synced" ELSE status

\* Variant: the row of a delivered item is deleted.
MarkDeleted(code, status) ==
  IF code = "OK" THEN "none"
  ELSE IF code \in {"LOST", "STALE_POW_EPOCH"} THEN status
  ELSE "failed"

\* What syncOne writes for an answer. No answer and a stale epoch write nothing.
Mark(code, status) ==
  IF code = "OK" THEN "synced"
  ELSE IF code \in {"LOST", "STALE_POW_EPOCH"} THEN status
  ELSE "failed"

(***************************************************************************)
(* A Sync. submitPending reads the pending items once and sends them one   *)
(* after another, oldest first.                                            *)
(***************************************************************************)
StartSync(s) ==
  /\ up /\ pc[s] = "idle"
  /\ pc' = [pc EXCEPT ![s] = "submit"]
  /\ todo' = [todo EXCEPT ![s] = Pending]
  /\ UNCHANGED <<database, memory, answer, next, tip, server, now, faults>>

First(n, S) == n \in S /\ \A m \in S \ {n} : Newer(m, n)

Send(s) ==
  \E n \in Notes :
    /\ pc[s] = "submit" /\ First(n, todo[s]) /\ answer[s] = ""
    /\ answer' = [answer EXCEPT ![s] = Verdict(n)]
    /\ chain' = IF Accepted(n) THEN Append(chain, n) ELSE chain
    /\ UNCHANGED <<database, memory, pc, todo, next, tip, standing, volatile, broken, now, faults>>

\* persistDelta fails: the block stays in the server's memory, and only there.
SendBroken(s) ==
  \E n \in Notes :
    /\ pc[s] = "submit" /\ First(n, todo[s]) /\ answer[s] = ""
    /\ Accepted(n)
    /\ faults < MaxFaults /\ faults' = faults + 1
    /\ answer' = [answer EXCEPT ![s] = "INTERNAL_ERROR"]
    /\ chain' = Append(chain, n)
    /\ volatile' = volatile \cup {n} /\ broken' = broken \cup {n}
    /\ UNCHANGED <<database, memory, pc, todo, next, tip, standing, now>>

\* The request does not arrive, or its answer does not.
Lose(s) ==
  /\ pc[s] = "submit" /\ todo[s] # {} /\ answer[s] # "LOST"
  /\ faults < MaxFaults /\ faults' = faults + 1
  /\ answer' = [answer EXCEPT ![s] = "LOST"]
  /\ UNCHANGED <<database, memory, pc, todo, next, tip, server, now>>

Receive(s) ==
  \E n \in Notes :
    /\ pc[s] = "submit" /\ First(n, todo[s]) /\ answer[s] # ""
    /\ outbox' = [outbox EXCEPT ![n] = Mark(answer[s], outbox[n])]
    /\ todo' = [todo EXCEPT ![s] = @ \ {n}]
    /\ answer' = [answer EXCEPT ![s] = ""]
    /\ UNCHANGED <<rows, reminders, memory, pc, next, tip, server, now, faults>>

\* The status is not written: submitPending returns the error and leaves the
\* rest of its items to another Sync.
ReceiveFails(s) ==
  /\ pc[s] = "submit" /\ answer[s] \notin {"", "LOST", "STALE_POW_EPOCH"}
  /\ faults < MaxFaults /\ faults' = faults + 1
  /\ todo' = [todo EXCEPT ![s] = {}]
  /\ answer' = [answer EXCEPT ![s] = ""]
  /\ UNCHANGED <<database, memory, pc, next, tip, server, now>>

(***************************************************************************)
(* CatchUpHeadersFirst reads the headers and then every block up to their  *)
(* tip, from the genesis, in every Sync; HeadersFirst has its checks. They *)
(* may fail without a fault once the server has lost a block that this     *)
(* device knows.                                                           *)
(***************************************************************************)
StartPull(s) ==
  /\ pc[s] = "submit" /\ todo[s] = {}
  /\ pc' = [pc EXCEPT ![s] = "pull"]
  /\ tip' = [tip EXCEPT ![s] = Len(chain)]
  /\ UNCHANGED <<database, memory, todo, answer, next, server, now, faults>>

\* SaveSyncedNote for a block that opens: INSERT OR IGNORE and insertReminder.
PullNote(s) ==
  /\ pc[s] = "pull" /\ next[s] <= tip[s]
  /\ next' = [next EXCEPT ![s] = @ + 1]
  /\ IF ReadableAt(next[s])
     THEN LET n == chain[next[s]] IN
            /\ rows' = rows \cup {n}
            /\ reminders' = [reminders EXCEPT ![n] = InsertReminder(n)]
     ELSE UNCHANGED <<rows, reminders>>
  /\ UNCHANGED <<outbox, memory, pc, todo, answer, tip, server, now, faults>>

\* syncResultMsg: the count is read again, the notes are not.
Finish(s, spent) ==
  /\ RefreshPending(Pending, spent)
  /\ pc' = [pc EXCEPT ![s] = "idle"]
  /\ next' = [next EXCEPT ![s] = 1]
  /\ tip' = [tip EXCEPT ![s] = 0]
  /\ UNCHANGED <<database, up, shown, cached, todo, answer, server, now>>

FinishSync(s) == pc[s] = "pull" /\ next[s] > tip[s] /\ Finish(s, faults)

LostBlocks == volatile # broken

FailPull(s) ==
  /\ pc[s] = "pull" /\ next[s] <= tip[s]
  /\ \/ LostBlocks /\ Finish(s, faults)
     \/ faults < MaxFaults /\ Finish(s, faults + 1)

\* A Sync as it goes on when nothing fails.
Step(s) ==
  StartSync(s) \/ Send(s) \/ Receive(s) \/ StartPull(s) \/ PullNote(s) \/ FinishSync(s)

Sync(s) == Step(s) \/ SendBroken(s) \/ Lose(s) \/ ReceiveFails(s) \/ FailPull(s)

(***************************************************************************)
(* The rest of the stream: another device writes a note, the owner revokes *)
(* this one or leaves it the key of the old epoch, and the server starts   *)
(* again.                                                                  *)
(***************************************************************************)
OtherNote(n) ==
  /\ n \in Notes \ Own /\ ~ OnChain(n) /\ Created[n] <= now
  /\ Len(chain) < PowEpochLength
  /\ chain' = Append(chain, n)
  /\ UNCHANGED <<database, memory, syncs, standing, volatile, broken, now, faults>>

Rotate ==
  /\ standing = "current"
  /\ standing' \in {"old", "revoked"}
  /\ chain' = Append(chain, Rotation)
  /\ UNCHANGED <<database, memory, syncs, volatile, broken, now, faults>>

\* rebuildStream: the blocks in memory only are gone, and a Sync does not get them
\* any more. With nothing to lose a start is invisible; with a stored block above a
\* lost one the server does not start (Ledger has both).
ServerRestart ==
  /\ volatile # {}
  /\ \E k \in 0..Len(chain) :
       /\ \A i \in 1..Len(chain) : chain[i] \in volatile <=> i > k
       /\ chain' = SubSeq(chain, 1, k)
       /\ tip' = [s \in Syncs |-> IF tip[s] > k THEN k ELSE tip[s]]
  /\ volatile' = {}
  /\ UNCHANGED <<database, memory, pc, todo, answer, next, standing, broken, now, faults>>

Next ==
  \/ Terminal
  \/ \E s \in Syncs : Sync(s)
  \/ Rotate \/ ServerRestart \/ \E n \in Notes : OtherNote(n)

Spec == Init /\ [][Next]_vars

\* The ticker starts a Sync every 30 seconds and requests end. Nobody has to
\* write, acknowledge, launch or quit. A Sync can take a Step whenever the program
\* runs, so that this is WF_vars(Step(s)).
FairSpec == Spec /\ \A s \in Syncs : []<>(~ up) \/ []<><<Step(s)>>_vars

-----------------------------------------------------------------------------
\* Types; the terminal shows only notes of the database, and a Sync sends only
\* notes that have an item.
TypeOK ==
  /\ rows \subseteq Notes
  /\ reminders \in [Notes -> Reminder]
  /\ outbox \in [Notes -> Statuses]
  /\ up \in BOOLEAN /\ shown \subseteq rows /\ pending \in Nat /\ misread \in BOOLEAN
  /\ cached \in [Notes -> Reminder]
  /\ pc \in [Syncs -> {"idle", "submit", "pull"}]
  /\ todo \in [Syncs -> SUBSET {n \in Own : outbox[n] # "none"}]
  /\ answer \in [Syncs -> Codes]
  /\ next \in [Syncs -> Nat \ {0}] /\ tip \in [Syncs -> Nat]
  /\ chain \in Seq(Notes \cup {Rotation})
  /\ standing \in Standings /\ volatile \subseteq broken /\ broken \subseteq Notes
  /\ now \in Nat /\ faults \in Nat

\* No note of this device is forgotten on the way to the chain, whatever answers
\* are lost, repeated or failed and whoever restarts: it waits, was refused, or is
\* on the chain; a server that breaks may lose the note it said it has, and only
\* one whose write it answered by an error before (SaveNoteWithOutbox, syncOne).
DeliveredOrKnown ==
  \A n \in rows \cap Own :
    \/ outbox[n] \in {"pending", "failed"}
    \/ outbox[n] = "synced" /\ WasOnChain(n)

\* syncOne gives an item up only when the server will not take it any more or
\* has it already: no loss, no stale proof of work and no other Sync that sends
\* the same item makes it fail.
FailedOnlyIfRefused ==
  \A n \in Own : outbox[n] = "failed" => standing # "current" \/ n \in broken

\* The status line does not say that all is synced while an item waits: however
\* Syncs overlap, the count they leave may be late only downwards. (A count that
\* could not be read is shown as 0 until the next one, home.go:287-290.)
PendingNeverHidden == up /\ ~ misread => Cardinality(Pending) <= pending

\* The home screen's copy of a reminder is the stored one as long as no block
\* brought the note back, whichever screen acknowledged it.
CacheCoherent ==
  up => \A n \in shown : ~ WasOnChain(n) => cached[n] = reminders[n]

\* What was acknowledged stays dismissed or lies in the future; the one thing
\* that undoes it is the note's own return from the chain, which puts back the
\* time in its text (insertReminder).
AcknowledgedOrReset ==
  \A n \in Notes : reminders[n].acked # NoTime =>
    \/ reminders[n].dismissed
    \/ reminders[n].fire > reminders[n].acked
    \/ WasOnChain(n) /\ reminders[n].fire = Fire[n]

\* A repeated reminder fires at its own occurrences only and leaves none out:
\* the one before the next was acknowledged or precedes the first.
OnSchedule ==
  \A n \in Notes : LET r == reminders[n] IN
    Fire[n] # NoTime /\ Every[n] > 0 /\ r # NoReminder =>
      /\ r.fire >= Fire[n]
      /\ (r.fire - Fire[n]) % Every[n] = 0
      /\ r.fire > Fire[n] => r.fire - Every[n] <= r.acked

\* Turning pages while Syncs add notes repeats none and leaves out none that
\* was there when the first page was read: T is what that one read.
PagesAdjoin ==
  \A T \in SUBSET rows :
    LET c == NextCursor(T, NoCursor) IN
    c # NoCursor =>
      /\ SearchPage(rows, c) \cap SearchPage(T, NoCursor) = {}
      /\ T \cap Match \subseteq SearchPage(T, NoCursor) \cup Behind(rows, c)

\* While the program runs, the device and the chain finally agree: every item is
\* marked as synced or failed, unless the chain has left the proof-of-work epoch
\* it was mined for (then it waits for ever), and every note on the chain that
\* this device can read is in its database, unless the server lost a block: then
\* its chain has to outweigh the saved one first (HeadersFirst).
Settled ==
  <>[]up => <>[](/\ Pending # {} => Len(chain) >= PowEpochLength
                 /\ LostBlocks \/ \A n \in Notes : Readable(n) => n \in rows)

\* What the specification says of an acknowledgement (project-spec.md:114, :274):
\* a reminder that was acknowledged is not shown again for the same occurrence.
AcknowledgedOnce ==
  \A n \in Notes : reminders[n].acked # NoTime =>
    reminders[n].dismissed \/ reminders[n].fire > reminders[n].acked
=============================================================================
