---------------------------- MODULE Compaction_proofs ----------------------------
(* Theorems about Compaction, for any asks, calls of "compress" and engines. *)
EXTENDS Compaction, WellFoundedInduction, TLAPS

\* Asks are numbered as they come; a call of "compress" is no ask.
Parameters ==
  /\ Asks \subseteq Nat /\ Nothing \notin Asks /\ Asks \cap Manuals = {}
  /\ MaxHooks \in Nat /\ MayCross \in BOOLEAN /\ Impatient \subseteq Manuals

\* One call at a time, whose client waits for it; the hook of an engine is neither killed
\* with its ask nor does it run out of time.
Orderly == ~MayCross /\ Impatient = {} /\ "claude" \notin Stoppable /\ "cursor" \notin Stoppable

-------------------------------------------------------------------------------
(* The inductive invariant.                                                *)

\* Where a call can stand, and where it can have a sync under way.
Placed ==
  /\ \A q \in Asks :
       /\ pc[q] \in {"new", "store", "check", "uncheck", "ready", "up", "ended", "saved",
                     "flush", "done"}
       /\ Syncing(q) => pc[q] = "flush" \/ (pc[q] = "up" /\ HasHook)
       /\ pc[q] \in {"new", "store", "check", "uncheck", "ready"} => hooks[q] = 0
       /\ pc[q] = "uncheck" => reinject
  /\ \A m \in Manuals :
       /\ pc[m] \in {"new", "engine", "tail", "done"}
       /\ Syncing(m) => pc[m] = "tail"
  /\ HasHook => dead = {} /\ ~pending
  /\ pending => \E q \in Asks : pc[q] \in {"up", "ended", "saved"}

\* One call is under way, and asks are over before the next one comes.
Alone == \A a, b \in Actors : Busy(a) /\ Busy(b) => a = b
Sequential == \A p, q \in Asks : p < q /\ pc[q] # "new" => pc[p] = "done"

EndsWithQuestion(q) == Len(rows) > 0 /\ rows[Len(rows)] = UserRow(q)
EndsWithTurn(q) ==
  Len(rows) > 1 /\ rows[Len(rows) - 1] = UserRow(q) /\ rows[Len(rows)] = ReplyRow(q)

\* The latest ask's turn is in the rows, or the sync that empties them has it in hand.
HookKeeps(q) ==
  /\ sync[q].at \in {"no", "look", "read", "reply", "reinject", "finish"} => EndsWithQuestion(q)
  /\ sync[q].at \in {"mark", "clear", "notice", "user"} => sync[q].user = q
  /\ sync[q].at \in {"mark", "clear", "notice", "user", "reply"} => sync[q].reply = Nothing

FlushKeeps(q) ==
  /\ sync[q].at \in {"no", "look", "read", "reinject", "finish"} => EndsWithTurn(q)
  /\ sync[q].at \in {"mark", "clear", "notice", "user"} => sync[q].user = q
  /\ sync[q].at \in {"mark", "clear", "notice", "user", "reply"} => sync[q].reply = q
  /\ sync[q].at = "reply" => EndsWithQuestion(q)

KeepsTurn(q) ==
  /\ pc[q] \in {"check", "uncheck", "ready"} /\ q \notin dead => EndsWithQuestion(q)
  /\ pc[q] = "up" => HookKeeps(q)
  /\ pc[q] = "ended" /\ hooks[q] > 0 => EndsWithQuestion(q)
  /\ pc[q] \in {"saved", "done"} /\ hooks[q] > 0 => EndsWithTurn(q)
  /\ pc[q] = "flush" /\ hooks[q] > 0 => FlushKeeps(q)

Latest(q) == \A p \in Asks : p > q => pc[p] = "new"
NotEmptied == \A m \in Manuals : pc[m] = "new"
LatestIsKept == NotEmptied => \A q \in Asks : Latest(q) => KeepsTurn(q)

\* While the thread has forgotten the rules, somebody still has to say so, or the mark is set, or
\* the ask that is about to be launched repeats them.
Compacted(a) == Syncing(a) /\ sync[a].at # "finish"
Remembered ==
  \/ \E a \in Actors : Compacted(a)
  \/ pending
  \/ reinject
  \/ \E q \in Asks : pc[q] = "ready" /\ q \in told
HooksOfStopped == \A p \in dead : hooks[p] > 0
ForgotIsRemembered ==
  HooksOfStopped /\ forgot => Remembered /\ \A q \in Asks : pc[q] = "ready" => q \in told

\* The status while the platform compacts: a flush finds it settled, "compress" settles it.
Settled == {"idle", "error"}
StatusInOrder ==
  /\ Quiet => status \in Settled
  /\ \A q \in Asks : pc[q] = "flush" =>
       /\ status \in Settled
       /\ sync[q].at \notin {"no", "look"} => sync[q].prev \in Settled
  /\ \A m \in Manuals :
       /\ pc[m] = "engine" => status = "compressing"
       /\ pc[m] = "tail" => IF Syncing(m) THEN status = "compressing" ELSE status \in Settled
       /\ Syncing(m) /\ sync[m].at # "look" => sync[m].prev = "compressing"

IInv == TypeOK /\ Placed /\ Alone /\ Sequential /\ LatestIsKept /\ ForgotIsRemembered /\ StatusInOrder

-------------------------------------------------------------------------------
(* The turn that a sync keeps.                                             *)

LEMMA RowTypes ==
  ASSUME NEW s \in Seq(Rows), NEW i \in DOMAIN s
  PROVE  /\ s[i].role = "user" \/ s[i].role = "reply" => s[i].ask \in Asks
         /\ s[i] \in Rows
<1>1. s[i] \in Rows
  OBVIOUS
<1>2. QED
  BY <1>1 DEF Rows

\* A non-empty set of naturals has a smallest one, and a set of positions a last one.
LEMMA Smallest ==
  ASSUME NEW T, T \subseteq Nat, T # {}
  PROVE  \E t \in T : \A u \in T : t <= u
<1> DEFINE R == {ss \in Nat \X Nat : ss[1] < ss[2]}
<1>1. IsWellFoundedOn(R, Nat)
  BY NatLessThanWellFounded DEF OpToRel
<1>2. PICK t \in T : \A u \in T : <<u, t>> \notin R
  <2> HIDE DEF R
  <2>1. QED
    BY <1>1, WFMin
<1>3. ASSUME NEW u \in T PROVE t <= u
  <2>1. <<u, t>> \in Nat \X Nat /\ <<u, t>>[1] = u /\ <<u, t>>[2] = t
    OBVIOUS
  <2>2. ~(u < t)
    BY <1>2, <2>1, Zenon
  <2>3. QED
    BY <2>2
<1>4. QED
  BY <1>3

LEMMA LastPosition ==
  ASSUME NEW n \in Nat, NEW S, S \subseteq 1..n, S # {}
  PROVE  \E i \in S : \A j \in S : j <= i
<1> DEFINE T == {n - i : i \in S}
<1>1. PICK t \in T : \A u \in T : t <= u
  <2>1. T \subseteq Nat
    OBVIOUS
  <2>2. T # {}
    OBVIOUS
  <2> HIDE DEF T
  <2>3. QED
    BY <2>1, <2>2, Smallest
<1>2. PICK i \in S : t = n - i
  BY <1>1
<1>3. ASSUME NEW j \in S PROVE j <= i
  <2>1. n - j \in T
    BY <1>3
  <2>2. n - i <= n - j
    BY <1>1, <1>2, <2>1
  <2>3. QED
    BY <2>2
<1>4. QED
  BY <1>3

\* The question and the answer that are kept are an ask's.
LEMMA TurnType ==
  ASSUME NEW s \in Seq(Rows)
  PROVE  /\ LatestTurnToPreserve(s).user \in Asks \cup {Nothing}
         /\ LatestTurnToPreserve(s).reply \in Asks \cup {Nothing}
<1> DEFINE users == {i \in DOMAIN s : s[i].role = "user"}
           last == CHOOSE i \in users : \A j \in users : j <= i
           replies == {i \in DOMAIN s : users # {} /\ i > last /\ s[i].role = "reply"}
           final == CHOOSE i \in replies : \A j \in replies : j <= i
<1>1. Len(s) \in Nat /\ users \subseteq 1..Len(s) /\ replies \subseteq 1..Len(s)
  OBVIOUS
<1>2. users # {} => last \in users
  <2> HIDE DEF users
  <2>1. QED
    BY <1>1, LastPosition
<1>3. replies # {} => final \in replies
  <2> HIDE DEF replies
  <2>1. QED
    BY <1>1, LastPosition
<1>4. users # {} => s[last].ask \in Asks
  <2> HIDE DEF last
  <2>1. QED
    BY <1>2, RowTypes
<1>5. replies # {} => s[final].ask \in Asks
  <2>1. ASSUME NEW i \in replies PROVE s[i].ask \in Asks
    <3> HIDE DEF users, last
    <3>1. QED
      BY RowTypes
  <2> HIDE DEF replies, final
  <2>2. QED
    BY <1>3, <2>1
<1>6. LatestTurnToPreserve(s) = [user |-> IF users = {} THEN Nothing ELSE s[last].ask,
                                reply |-> IF replies = {} THEN Nothing ELSE s[final].ask]
  BY Zenon DEF LatestTurnToPreserve
<1> HIDE DEF users, last, replies, final
<1>7. QED
  BY <1>4, <1>5, <1>6

\* What is kept of rows that end with a question, or with a whole turn.
LEMMA KeptQuestion ==
  ASSUME NEW s \in Seq(Rows), NEW q, Len(s) > 0, s[Len(s)] = UserRow(q)
  PROVE  LatestTurnToPreserve(s).user = q /\ LatestTurnToPreserve(s).reply = Nothing
<1> DEFINE users == {i \in DOMAIN s : s[i].role = "user"}
           last == CHOOSE i \in users : \A j \in users : j <= i
           replies == {i \in DOMAIN s : users # {} /\ i > last /\ s[i].role = "reply"}
<1>1. Len(s) \in users /\ \A j \in users : j <= Len(s)
  BY DEF UserRow
<1>2. last = Len(s)
  <2>1. users \subseteq Nat
    OBVIOUS
  <2> HIDE DEF users
  <2>2. last \in users /\ \A j \in users : j <= last
    BY <1>1
  <2> HIDE DEF last
  <2>3. QED
    BY <1>1, <2>1, <2>2
<1>3. replies = {}
  <2> HIDE DEF last
  <2>1. QED
    BY <1>2
<1>4. LatestTurnToPreserve(s).user = s[last].ask /\ LatestTurnToPreserve(s).reply = Nothing
  <2>1. users # {}
    BY <1>1
  <2>2. QED
    BY <1>3, <2>1, Zenon DEF LatestTurnToPreserve
<1> HIDE DEF last
<1>5. QED
  BY <1>2, <1>4 DEF UserRow

LEMMA KeptTurn ==
  ASSUME NEW s \in Seq(Rows), NEW q, Len(s) > 1,
         s[Len(s) - 1] = UserRow(q), s[Len(s)] = ReplyRow(q)
  PROVE  LatestTurnToPreserve(s).user = q /\ LatestTurnToPreserve(s).reply = q
<1> DEFINE users == {i \in DOMAIN s : s[i].role = "user"}
           last == CHOOSE i \in users : \A j \in users : j <= i
           replies == {i \in DOMAIN s : users # {} /\ i > last /\ s[i].role = "reply"}
           final == CHOOSE i \in replies : \A j \in replies : j <= i
<1>1. Len(s) - 1 \in users /\ \A j \in users : j <= Len(s) - 1
  BY DEF UserRow, ReplyRow
<1>2. last = Len(s) - 1
  <2>1. users \subseteq Nat
    OBVIOUS
  <2> HIDE DEF users
  <2>2. last \in users /\ \A j \in users : j <= last
    BY <1>1
  <2> HIDE DEF last
  <2>3. QED
    BY <1>1, <2>1, <2>2
<1>3. Len(s) \in replies /\ \A j \in replies : j <= Len(s)
  <2>1. users # {}
    BY <1>1
  <2> HIDE DEF last, users
  <2>2. QED
    BY <1>2, <2>1 DEF ReplyRow
<1>4. final = Len(s)
  <2>1. replies \subseteq Nat
    OBVIOUS
  <2> HIDE DEF replies
  <2>2. final \in replies /\ \A j \in replies : j <= final
    BY <1>3
  <2> HIDE DEF final
  <2>3. QED
    BY <1>3, <2>1, <2>2
<1>5. LatestTurnToPreserve(s).user = s[last].ask /\ LatestTurnToPreserve(s).reply = s[final].ask
  <2>1. users # {} /\ replies # {}
    <3> HIDE DEF replies
    <3>1. QED
      BY <1>1, <1>3
  <2>2. QED
    BY <2>1, Zenon DEF LatestTurnToPreserve
<1> HIDE DEF last, final
<1>6. QED
  BY <1>2, <1>4, <1>5 DEF UserRow, ReplyRow

-------------------------------------------------------------------------------
(* Types.                                                                  *)

LEMMA SyncType ==
  ASSUME TypeOK, NEW a \in Actors, NEW r \in Syncs
  PROVE  [sync EXCEPT ![a] = r] \in [Actors -> Syncs]
BY DEF TypeOK

LEMMA RowsType ==
  ASSUME TypeOK, NEW q \in Asks
  PROVE  /\ Append(rows, UserRow(q)) \in Seq(Rows)
         /\ Append(rows, ReplyRow(q)) \in Seq(Rows)
         /\ Append(rows, NoticeRow) \in Seq(Rows)
         /\ <<>> \in Seq(Rows)
<1>1. UserRow(q) \in Rows /\ ReplyRow(q) \in Rows /\ NoticeRow \in Rows
  BY DEF Rows, UserRow, ReplyRow, NoticeRow
<1>2. QED
  BY <1>1 DEF TypeOK

LEMMA SyncTypeStep ==
  ASSUME TypeOK, NEW a \in Actors, SyncStep(a)
  PROVE  TypeOK'
<1>1. sync[a] \in Syncs
  BY DEF TypeOK
<1>2. NoSync \in Syncs
  BY DEF NoSync, Syncs, Statuses
<1>3. /\ status' \in Statuses /\ rows' \in Seq(Rows) /\ reinject' \in BOOLEAN
      /\ sync' \in [Actors -> Syncs]
  <2> USE DEF At
  <2>1. CASE SyncLook(a)
    <3>1. [sync[a] EXCEPT !.prev = status, !.at = IF KeepLatest(a) THEN "read" ELSE "mark"] \in Syncs
      BY <1>1 DEF TypeOK, Syncs
    <3>2. QED
      BY <2>1, <3>1 DEF SyncLook, TypeOK
  <2>2. CASE SyncRead(a)
    <3>1. \A u, r \in Asks \cup {Nothing} :
            [sync[a] EXCEPT !.user = u, !.reply = r, !.at = "mark"] \in Syncs
      BY <1>1 DEF Syncs
    <3> DEFINE turn == LatestTurnToPreserve(rows)
    <3>2. turn.user \in Asks \cup {Nothing} /\ turn.reply \in Asks \cup {Nothing}
      BY TurnType DEF TypeOK
    <3>3. /\ sync' = [sync EXCEPT ![a] =
               [sync[a] EXCEPT !.user = turn.user, !.reply = turn.reply, !.at = "mark"]]
          /\ UNCHANGED <<status, rows, reinject>>
      BY <2>2 DEF SyncRead, TypeOK
    <3> HIDE DEF turn
    <3>4. QED
      BY <3>1, <3>2, <3>3 DEF TypeOK
  <2>3. CASE SyncMark(a)
    <3>1. [sync[a] EXCEPT !.at = "clear"] \in Syncs
      BY <1>1 DEF Syncs
    <3>2. QED
      BY <2>3, <3>1 DEF SyncMark, TypeOK, Statuses
  <2>4. CASE SyncClear(a)
    <3>1. [sync[a] EXCEPT !.at = "notice"] \in Syncs
      BY <1>1 DEF Syncs
    <3>2. QED
      BY <2>4, <3>1 DEF SyncClear, TypeOK
  <2>5. CASE SyncNotice(a)
    <3>1. [sync[a] EXCEPT !.at = "user"] \in Syncs
      BY <1>1 DEF Syncs
    <3>2. NoticeRow \in Rows
      BY DEF NoticeRow, Rows
    <3>3. QED
      BY <2>5, <3>1, <3>2 DEF SyncNotice, TypeOK
  <2>6. CASE SyncKeep(a)
    <3>1. [sync[a] EXCEPT !.at = "reply"] \in Syncs /\ [sync[a] EXCEPT !.at = "reinject"] \in Syncs
      BY <1>1 DEF Syncs
    <3>2. sync[a].user \in Asks \cup {Nothing} /\ sync[a].reply \in Asks \cup {Nothing}
      BY <1>1 DEF Syncs
    <3>3. rows' \in Seq(Rows)
      BY <2>6, <3>2, RowsType DEF SyncKeep, TypeOK
    <3>4. sync' \in [Actors -> Syncs]
      BY <2>6, <3>1 DEF SyncKeep, TypeOK
    <3>5. QED
      BY <2>6, <3>3, <3>4 DEF SyncKeep, TypeOK
  <2>7. CASE SyncReinject(a)
    <3>1. [sync[a] EXCEPT !.at = "finish"] \in Syncs
      BY <1>1 DEF Syncs
    <3>2. QED
      BY <2>7, <3>1 DEF SyncReinject, TypeOK
  <2>8. CASE SyncFinish(a)
    BY <1>2, <2>8 DEF SyncFinish, TypeOK, CompactStatusAfterSync, Statuses
  <2>9. QED
    BY <2>1, <2>2, <2>3, <2>4, <2>5, <2>6, <2>7, <2>8 DEF SyncStep
<1>4. QED
  BY <1>3 DEF TypeOK, SyncStep, call

LEMMA TypeStep == ASSUME Parameters, TypeOK, [Next]_vars PROVE TypeOK'
<1> USE DEF Parameters, Actors
<1>1. [NoSync EXCEPT !.at = "look"] \in Syncs /\ NoSync \in Syncs
  BY DEF NoSync, Syncs, Statuses
<1>2. ASSUME NEW q \in Asks, Begin(q) \/ CheckReinject(q) \/ ClearReinject(q) \/ Launch(q)
      PROVE  TypeOK'
  BY <1>2 DEF Begin, CheckReinject, ClearReinject, Launch, Go, TypeOK, Statuses
<1>3. ASSUME NEW q \in Asks, StoreQuestion(q) \/ SaveReply(q) PROVE TypeOK'
  <2>1. rows' \in Seq(Rows)
    BY <1>3, RowsType DEF StoreQuestion, SaveReply, TypeOK
  <2>2. QED
    BY <1>3, <2>1 DEF StoreQuestion, SaveReply, Go, TypeOK
<1>4. ASSUME NEW q \in Asks, Compacts(q) PROVE TypeOK'
  <2>1. sync' \in [Actors -> Syncs] /\ pending' \in BOOLEAN
    BY <1>1, <1>4 DEF Compacts, StartSync, markCompactPending, TypeOK
  <2>2. hooks' \in [Asks -> 0..MaxHooks]
    BY <1>4 DEF Compacts, TypeOK
  <2>3. QED
    BY <1>4, <2>1, <2>2 DEF Compacts, TypeOK
<1>5. ASSUME NEW q \in Asks, HookGone(q) \/ Stop(q) PROVE TypeOK'
  BY <1>1, <1>5 DEF HookGone, Stop, call, TypeOK
<1>6. ASSUME NEW q \in Asks, EngineEnds(q) \/ FlushCompactAfterAsk(q) \/ Flushed(q) PROVE TypeOK'
  BY <1>1, <1>6 DEF EngineEnds, FlushCompactAfterAsk, Flushed, StartSync, consumeCompactPending,
                    Go, TypeOK, Statuses
<1>7. ASSUME NEW m \in Manuals, CompressManagedChat(m) \/ CompressStep(m) \/ ClientGone(m)
      PROVE  TypeOK'
  <2> USE DEF Go, TypeOK
  <2>1. CASE CompressManagedChat(m)
    BY <2>1 DEF CompressManagedChat, Statuses
  <2>2. CASE EngineCompacts(m)
    BY <1>1, <2>2 DEF EngineCompacts, StartSync
  <2>3. CASE EngineFails(m) \/ Compressed(m)
    BY <2>3 DEF EngineFails, Compressed, CompactStatusAfterSync, Statuses
  <2>4. CASE ClientGone(m)
    BY <1>1, <2>4 DEF ClientGone
  <2>5. QED
    BY <1>7, <2>1, <2>2, <2>3, <2>4 DEF CompressStep
<1>8. CASE UNCHANGED vars
  BY <1>8 DEF vars, TypeOK
<1>9. QED
  BY <1>2, <1>3, <1>4, <1>5, <1>6, <1>7, <1>8, SyncTypeStep DEF Next, AskStep

-------------------------------------------------------------------------------
(* Where calls stand.                                                      *)

Control == TypeOK /\ Placed /\ Alone /\ Sequential

LEMMA InitIInv == ASSUME Parameters PROVE Init => IInv
<1> SUFFICES ASSUME Init PROVE IInv
  OBVIOUS
<1> USE DEF Init, Parameters, Actors, NoSync
<1>1. TypeOK
  <2>1. <<>> \in Seq(Rows)
    OBVIOUS
  <2>2. sync \in [Actors -> Syncs]
    BY DEF Syncs, Statuses
  <2>3. hooks \in [Asks -> 0..MaxHooks]
    OBVIOUS
  <2>4. QED
    BY <2>1, <2>2, <2>3 DEF TypeOK, Statuses
<1>2. Placed /\ Alone /\ Sequential
  BY DEF Placed, Alone, Sequential, Syncing, Busy
<1>3. LatestIsKept
  BY DEF LatestIsKept, KeepsTurn
<1>4. ForgotIsRemembered
  BY DEF ForgotIsRemembered
<1>5. StatusInOrder
  BY DEF StatusInOrder, Settled, Syncing
<1>6. QED
  BY <1>1, <1>2, <1>3, <1>4, <1>5 DEF IInv

\* A step of a sync leaves the calls where they are, and does not end the sync of another.
LEMMA SyncFrame ==
  ASSUME TypeOK, NEW a \in Actors, SyncStep(a)
  PROVE  /\ Syncing(a)
         /\ \A b \in Actors : b # a => sync'[b] = sync[b]
         /\ UNCHANGED <<engine, pending, forgot, dead, pc, hooks, told, before>>
         /\ reinject => reinject'
<1>1. Syncing(a)
  BY DEF SyncStep, SyncLook, SyncRead, SyncMark, SyncClear, SyncNotice, SyncKeep, SyncReinject,
         SyncFinish, Syncing
<1>2. ASSUME NEW b \in Actors, b # a PROVE sync'[b] = sync[b]
  BY <1>2 DEF SyncStep, SyncLook, SyncRead, SyncMark, SyncClear, SyncNotice, SyncKeep,
              SyncReinject, SyncFinish, At, TypeOK
<1>3. reinject => reinject'
  BY DEF SyncStep, SyncLook, SyncRead, SyncMark, SyncClear, SyncNotice, SyncKeep, SyncReinject,
         SyncFinish
<1>4. QED
  BY <1>1, <1>2, <1>3 DEF SyncStep, call

LEMMA PlacedStep ==
  ASSUME Parameters, Orderly, Control, [Next]_vars
  PROVE  Placed'
<1> USE DEF Parameters, Orderly, Control, Actors, Syncing
<1>1. ASSUME NEW q \in Asks, Begin(q) PROVE Placed'
  BY <1>1 DEF Placed, Begin, Go, TypeOK, HasHook, MayCome, Quiet, Busy
<1>2. ASSUME NEW q \in Asks, AskStep(q) PROVE Placed'
  <2> USE DEF Placed, Go, TypeOK, HasHook
  <2>0. CASE StoreQuestion(q)
    BY <2>0 DEF StoreQuestion
  <2>1. CASE CheckReinject(q)
    <3>1. CASE reinject /\ q \notin dead
      BY <2>1, <3>1 DEF CheckReinject
    <3>2. CASE ~(reinject /\ q \notin dead)
      BY <2>1, <3>2 DEF CheckReinject
    <3>3. QED
      BY <3>1, <3>2
  <2>2. CASE ClearReinject(q)
    BY <2>2 DEF ClearReinject, Alone, Busy
  <2>3. CASE Launch(q)
    BY <2>3 DEF Launch
  <2>4. CASE EngineEnds(q)
    BY <2>4 DEF EngineEnds
  <2>5. CASE SaveReply(q)
    BY <2>5 DEF SaveReply
  <2>6. CASE FlushCompactAfterAsk(q)
    <3>1. CASE pending
      BY <2>6, <3>1 DEF FlushCompactAfterAsk, StartSync, consumeCompactPending
    <3>2. CASE ~pending
      BY <2>6, <3>2 DEF FlushCompactAfterAsk, consumeCompactPending
    <3>3. QED
      BY <3>1, <3>2
  <2>7. CASE Flushed(q)
    BY <2>7 DEF Flushed
  <2>8. QED
    BY <1>2, <2>0, <2>1, <2>2, <2>3, <2>4, <2>5, <2>6, <2>7 DEF AskStep
<1>3. ASSUME NEW q \in Asks, Compacts(q) PROVE Placed'
  BY <1>3 DEF Placed, TypeOK, Compacts, StartSync, markCompactPending, HasHook
<1>4. ASSUME NEW q \in Asks, HookGone(q) PROVE FALSE
  BY <1>4 DEF HookGone, Placed, HasHook
<1>5. ASSUME NEW q \in Asks, Stop(q) PROVE Placed'
  BY <1>5 DEF Stop, call, Placed, HasHook, TypeOK
<1>6. ASSUME NEW m \in Manuals, CompressManagedChat(m) \/ CompressStep(m) PROVE Placed'
  <2> USE DEF Placed, Go, TypeOK, HasHook
  <2>1. CASE CompressManagedChat(m)
    BY <2>1 DEF CompressManagedChat
  <2>2. CASE EngineCompacts(m)
    BY <2>2 DEF EngineCompacts, StartSync
  <2>3. CASE EngineFails(m)
    BY <2>3 DEF EngineFails
  <2>4. CASE Compressed(m)
    BY <2>4 DEF Compressed
  <2>5. QED
    BY <1>6, <2>1, <2>2, <2>3, <2>4 DEF CompressStep
<1>7. ASSUME NEW m \in Manuals, ClientGone(m) PROVE FALSE
  BY <1>7 DEF ClientGone
<1>8. ASSUME NEW a \in Actors, SyncStep(a) PROVE Placed'
  BY <1>8, SyncFrame DEF Placed, HasHook
<1>9. CASE UNCHANGED vars
  BY <1>9 DEF vars, Placed, HasHook
<1>10. QED
  BY <1>1, <1>2, <1>3, <1>4, <1>5, <1>6, <1>7, <1>8, <1>9 DEF Next

\* A call begins only when none is under way.
LEMMA AloneStep ==
  ASSUME Parameters, Orderly, Control, [Next]_vars
  PROVE  Alone' /\ Sequential'
<1> USE DEF Parameters, Orderly, Control, Actors, TypeOK
<1>1. ASSUME NEW q \in Asks, Begin(q) PROVE Alone' /\ Sequential'
  <2>1. /\ \A a \in Actors : ~Busy(a)
        /\ \A a \in Actors : a # q => pc'[a] = pc[a]
        /\ \A p \in Asks : p < q => pc[p] = "done"
        /\ pc[q] = "new" /\ pc'[q] = "store"
    BY <1>1 DEF Begin, Go, MayCome, Quiet, Busy
  <2>2. Alone'
    BY <2>1 DEF Alone, Busy
  <2>3. Sequential'
    BY <2>1 DEF Sequential
  <2>4. QED
    BY <2>2, <2>3
<1>2. ASSUME NEW a \in Actors, Busy(a), pc'[a] # "new", \A b \in Actors : b # a => pc'[b] = pc[b]
      PROVE  Alone' /\ Sequential'
  BY <1>2 DEF Alone, Sequential, Busy
<1>3. ASSUME NEW q \in Asks, AskStep(q) PROVE Alone' /\ Sequential'
  <2>1. Busy(q) /\ pc'[q] # "new" /\ \A b \in Actors : b # q => pc'[b] = pc[b]
    BY <1>3 DEF AskStep, StoreQuestion, CheckReinject, ClearReinject, Launch, EngineEnds, SaveReply,
                FlushCompactAfterAsk, Flushed, Go, Busy
  <2>2. QED
    BY <1>2, <2>1
<1>4. ASSUME NEW q \in Asks, Compacts(q) \/ HookGone(q) \/ Stop(q) PROVE pc' = pc
  BY <1>4 DEF Compacts, HookGone, Stop, call
<1>5. ASSUME NEW m \in Manuals, CompressManagedChat(m) PROVE Alone' /\ Sequential'
  BY <1>5 DEF CompressManagedChat, MayCome, Quiet, Go, Alone, Sequential, Busy
<1>6. ASSUME NEW m \in Manuals, CompressStep(m) PROVE Alone' /\ Sequential'
  <2>1. Busy(m) /\ pc'[m] # "new" /\ \A b \in Actors : b # m => pc'[b] = pc[b]
    BY <1>6 DEF CompressStep, EngineCompacts, EngineFails, Compressed, Go, Busy
  <2>2. QED
    BY <1>2, <2>1
<1>7. ASSUME NEW a \in Actors, SyncStep(a) PROVE pc' = pc
  BY <1>7, SyncFrame
<1>8. ASSUME pc' = pc PROVE Alone' /\ Sequential'
  BY <1>8 DEF Alone, Sequential, Busy
<1>9. QED
  BY <1>1, <1>3, <1>4, <1>5, <1>6, <1>7, <1>8 DEF Next, ClientGone, vars

-------------------------------------------------------------------------------
(* The turn is kept.                                                       *)

\* Only the latest ask, once it has begun, touches the rows while nobody compresses.
LEMMA OnlyLatest ==
  ASSUME Parameters, Control, NotEmptied, NEW q \in Asks, Latest(q), pc[q] # "new",
         NEW a \in Actors, Busy(a) \/ Syncing(a)
  PROVE  a = q
<1>1. a \in Asks
  BY DEF NotEmptied, Busy, Control, Placed, Actors
<1>2. pc[a] # "new" /\ pc[a] # "done"
  BY <1>1 DEF Control, Placed, Busy
<1>3. a \in Nat /\ q \in Nat
  BY <1>1 DEF Parameters
<1>4. ~(a > q) /\ ~(a < q)
  BY <1>1, <1>2, <1>3 DEF Latest, Control, Sequential
<1>5. QED
  BY <1>3, <1>4

\* The ends of the rows after they are extended.
LEMMA RowsExtended ==
  ASSUME TypeOK, NEW q \in Asks
  PROVE  /\ rows' = Append(rows, UserRow(q)) => EndsWithQuestion(q)'
         /\ rows' = Append(rows, ReplyRow(q)) /\ EndsWithQuestion(q) => EndsWithTurn(q)'
<1>1. rows \in Seq(Rows) /\ UserRow(q) \in Rows /\ ReplyRow(q) \in Rows
  BY DEF TypeOK, Rows, UserRow, ReplyRow
<1>2. ASSUME NEW r \in Rows
      PROVE  /\ Len(Append(rows, r)) = Len(rows) + 1 /\ Len(rows) \in Nat
             /\ Append(rows, r)[Len(rows) + 1] = r
             /\ \A i \in 1..Len(rows) : Append(rows, r)[i] = rows[i]
  BY <1>1
<1>3. rows' = Append(rows, UserRow(q)) => EndsWithQuestion(q)'
  BY <1>1, <1>2 DEF EndsWithQuestion, UserRow
<1>4. ASSUME rows' = Append(rows, ReplyRow(q)), EndsWithQuestion(q)
      PROVE  EndsWithTurn(q)'
  <2>1. Len(rows') - 1 = Len(rows) /\ Len(rows) \in 1..Len(rows)
    BY <1>1, <1>2, <1>4 DEF EndsWithQuestion
  <2>2. rows'[Len(rows)] = UserRow(q) /\ rows'[Len(rows')] = ReplyRow(q)
    BY <1>1, <1>2, <1>4, <2>1 DEF EndsWithQuestion
  <2>3. QED
    BY <2>1, <2>2 DEF EndsWithTurn, UserRow, ReplyRow
<1>5. QED
  BY <1>3, <1>4

LEMMA SyncKeepsTurn ==
  ASSUME Parameters, Control, NEW q \in Asks, SyncStep(q), KeepsTurn(q)
  PROVE  KeepsTurn(q)'
<1> USE DEF Control, Parameters, Actors
<1>1. /\ sync[q] \in Syncs /\ sync \in [Actors -> Syncs] /\ rows \in Seq(Rows)
      /\ q # Nothing /\ KeepLatest(q) /\ Len(rows) \in Nat
  BY DEF TypeOK, KeepLatest
<1>2. UNCHANGED <<engine, pending, forgot, dead, pc, hooks, told, before>>
  BY SyncFrame
<1>3. pc[q] = "flush" \/ pc[q] = "up"
  BY SyncFrame DEF Placed
<1>4. CASE SyncLook(q) \/ SyncReinject(q)
  <2>1. /\ rows' = rows
        /\ \/ sync[q].at = "look" /\ sync'[q].at = "read"
           \/ sync[q].at = "reinject" /\ sync'[q].at = "finish"
    BY <1>1, <1>4 DEF SyncLook, SyncReinject, At, Syncs
  <2>2. QED
    BY <1>2, <1>3, <2>1 DEF KeepsTurn, HookKeeps, FlushKeeps, EndsWithQuestion, EndsWithTurn
<1>5. CASE SyncRead(q)
  <2>1. /\ rows' = rows
        /\ sync'[q].at = "mark"
        /\ sync'[q].user = LatestTurnToPreserve(rows).user
        /\ sync'[q].reply = LatestTurnToPreserve(rows).reply
    BY <1>1, <1>5, Zenon DEF SyncRead, Syncs
  <2>2. EndsWithQuestion(q) => sync'[q].user = q /\ sync'[q].reply = Nothing
    BY <1>1, <2>1, KeptQuestion DEF EndsWithQuestion
  <2>3. EndsWithTurn(q) => sync'[q].user = q /\ sync'[q].reply = q
    BY <1>1, <2>1, KeptTurn DEF EndsWithTurn
  <2>4. QED
    BY <1>2, <1>3, <1>5, <2>1, <2>2, <2>3 DEF SyncRead, KeepsTurn, HookKeeps, FlushKeeps
<1>6. CASE SyncMark(q) \/ SyncClear(q) \/ SyncNotice(q)
  <2>1. /\ sync[q].at \in {"mark", "clear", "notice"}
        /\ sync'[q].at \in {"clear", "notice", "user"}
        /\ sync'[q].user = sync[q].user /\ sync'[q].reply = sync[q].reply
    BY <1>1, <1>6 DEF SyncMark, SyncClear, SyncNotice, At, Syncs
  <2>2. QED
    BY <1>2, <1>3, <2>1 DEF KeepsTurn, HookKeeps, FlushKeeps
<1>7. CASE SyncKeep(q) /\ sync[q].at = "user"
  <2>1. /\ rows' = IF sync[q].user = Nothing THEN rows ELSE Append(rows, UserRow(sync[q].user))
        /\ sync'[q].at = "reply" /\ sync'[q].reply = sync[q].reply
    BY <1>1, <1>7 DEF SyncKeep, At, Syncs
  <2>2. sync[q].user = q => EndsWithQuestion(q)'
    BY <1>1, <2>1, RowsExtended
  <2>3. QED
    BY <1>2, <1>3, <1>7, <2>1, <2>2 DEF KeepsTurn, HookKeeps, FlushKeeps
<1>8. CASE SyncKeep(q) /\ sync[q].at = "reply"
  <2>1. /\ rows' = IF sync[q].reply = Nothing THEN rows ELSE Append(rows, ReplyRow(sync[q].reply))
        /\ sync'[q].at = "reinject"
    BY <1>1, <1>8 DEF SyncKeep, At, Syncs
  <2>2. sync[q].reply = q /\ EndsWithQuestion(q) => EndsWithTurn(q)'
    BY <1>1, <2>1, RowsExtended
  <2>3. sync[q].reply = Nothing => (EndsWithQuestion(q) => EndsWithQuestion(q)')
    BY <2>1 DEF EndsWithQuestion
  <2>4. QED
    BY <1>2, <1>3, <1>8, <2>1, <2>2, <2>3 DEF KeepsTurn, HookKeeps, FlushKeeps
<1>9. CASE SyncFinish(q)
  <2>1. rows' = rows /\ sync[q].at = "finish" /\ sync'[q].at = "no"
    BY <1>1, <1>9 DEF SyncFinish, NoSync
  <2>2. QED
    BY <1>2, <1>3, <2>1 DEF KeepsTurn, HookKeeps, FlushKeeps, EndsWithQuestion, EndsWithTurn
<1>10. QED
  BY <1>4, <1>5, <1>6, <1>7, <1>8, <1>9 DEF SyncStep, SyncKeep

LEMMA AskKeepsTurn ==
  ASSUME Parameters, Orderly, Control, Placed', NEW q \in Asks, KeepsTurn(q),
         Begin(q) \/ AskStep(q) \/ Compacts(q) \/ Stop(q)
  PROVE  KeepsTurn(q)'
<1> USE DEF Control, Parameters, Actors, Go
<1>1. /\ pc \in [Actors -> {"new", "store", "check", "uncheck", "ready", "up", "ended", "saved",
                            "flush", "engine", "tail", "done"}]
      /\ sync \in [Actors -> Syncs] /\ sync[q] \in Syncs /\ hooks[q] \in Nat
      /\ hooks \in [Asks -> 0..MaxHooks]
  BY DEF TypeOK
<1>2. rows' = rows =>
        (EndsWithQuestion(q)' <=> EndsWithQuestion(q)) /\ (EndsWithTurn(q)' <=> EndsWithTurn(q))
  BY DEF EndsWithQuestion, EndsWithTurn
<1>3. CASE Begin(q)
  BY <1>1, <1>3 DEF Begin, KeepsTurn
<1>4. CASE StoreQuestion(q)
  <2>1. q \notin dead => EndsWithQuestion(q)'
    BY <1>4, RowsExtended DEF StoreQuestion
  <2>2. QED
    BY <1>1, <1>4, <2>1 DEF StoreQuestion, KeepsTurn
<1>5. CASE CheckReinject(q) \/ ClearReinject(q)
  BY <1>1, <1>2, <1>5 DEF CheckReinject, ClearReinject, KeepsTurn
<1>6. CASE Launch(q)
  <2>1. sync[q].at = "no" /\ hooks[q] = 0
    BY <1>6 DEF Launch, Placed, Syncing
  <2>2. QED
    BY <1>1, <1>2, <1>6, <2>1 DEF Launch, KeepsTurn, HookKeeps
<1>7. CASE EngineEnds(q)
  <2>1. sync[q].at = "no"
    BY <1>7 DEF EngineEnds, Placed, Syncing
  <2>2. QED
    BY <1>1, <1>2, <1>7, <2>1 DEF EngineEnds, KeepsTurn, HookKeeps
<1>8. CASE SaveReply(q)
  <2>1. EndsWithQuestion(q) => EndsWithTurn(q)'
    BY <1>8, RowsExtended DEF SaveReply
  <2>2. QED
    BY <1>1, <1>8, <2>1 DEF SaveReply, KeepsTurn
<1>9. CASE FlushCompactAfterAsk(q)
  <2>1. pc'[q] = "flush" => sync'[q].at = "look"
    <3>1. CASE pending
      BY <1>1, <1>9, <3>1 DEF FlushCompactAfterAsk, StartSync, NoSync
    <3>2. CASE ~pending
      BY <1>1, <1>9, <3>2 DEF FlushCompactAfterAsk
    <3>3. QED
      BY <3>1, <3>2
  <2>2. pc'[q] \in {"flush", "done"} /\ hooks' = hooks /\ rows' = rows /\ pc[q] = "saved"
    BY <1>1, <1>9 DEF FlushCompactAfterAsk
  <2>3. QED
    BY <1>2, <2>1, <2>2 DEF KeepsTurn, FlushKeeps
<1>10. CASE Flushed(q)
  BY <1>1, <1>2, <1>10 DEF Flushed, Syncing, KeepsTurn, FlushKeeps
<1>11. CASE Compacts(q)
  <2>1. pc[q] = "up" /\ pc' = pc /\ rows' = rows /\ sync[q].at = "no"
    BY <1>11 DEF Compacts, Syncing
  <2>2. sync'[q].at \in {"no", "look"}
    BY <1>1, <1>11, <2>1 DEF Compacts, StartSync, NoSync
  <2>3. QED
    BY <1>2, <2>1, <2>2 DEF KeepsTurn, HookKeeps
<1>12. CASE Stop(q)
  BY <1>2, <1>12 DEF Stop, call, KeepsTurn, HookKeeps, FlushKeeps
<1>13. QED
  BY <1>3, <1>4, <1>5, <1>6, <1>7, <1>8, <1>9, <1>10, <1>11, <1>12 DEF AskStep

\* No call becomes new again.
LEMMA NeverNewAgain ==
  ASSUME Parameters, Orderly, Control, [Next]_vars, NEW a \in Actors, pc[a] # "new"
  PROVE  pc'[a] # "new"
<1> USE DEF Control, TypeOK, Go
<1>1. ASSUME NEW q \in Asks, Begin(q) \/ AskStep(q) PROVE pc'[a] # "new"
  BY <1>1 DEF Begin, AskStep, StoreQuestion, CheckReinject, ClearReinject, Launch, EngineEnds,
              SaveReply, FlushCompactAfterAsk, Flushed
<1>2. ASSUME NEW q \in Asks, Compacts(q) \/ HookGone(q) \/ Stop(q) PROVE pc' = pc
  BY <1>2 DEF Compacts, HookGone, Stop, call
<1>3. ASSUME NEW m \in Manuals, CompressManagedChat(m) \/ CompressStep(m) PROVE pc'[a] # "new"
  BY <1>3 DEF CompressManagedChat, CompressStep, EngineCompacts, EngineFails, Compressed
<1>4. ASSUME NEW b \in Actors, SyncStep(b) PROVE pc' = pc
  BY <1>4, SyncFrame
<1>5. QED
  BY <1>1, <1>2, <1>3, <1>4 DEF Next, ClientGone, Orderly, vars

LEMMA LatestStep ==
  ASSUME Parameters, Orderly, Control, Placed', LatestIsKept, [Next]_vars
  PROVE  LatestIsKept'
<1> SUFFICES ASSUME NotEmptied', NEW q \in Asks, Latest(q)' PROVE KeepsTurn(q)'
  BY DEF LatestIsKept
<1> USE DEF Parameters, Actors
<1>1. NotEmptied /\ Latest(q)
  BY NeverNewAgain DEF NotEmptied, Latest
<1>2. KeepsTurn(q)
  BY <1>1 DEF LatestIsKept
<1>3. ASSUME pc'[q] = "new" PROVE KeepsTurn(q)'
  BY <1>3 DEF KeepsTurn
<1>4. pc[q] = "new" => pc'[q] = "new" \/ Begin(q)
  <2>1. ASSUME NEW p \in Asks, Begin(p) \/ AskStep(p), pc[q] = "new" PROVE pc'[q] = "new" \/ p = q
    BY <2>1 DEF Begin, AskStep, StoreQuestion, CheckReinject, ClearReinject, Launch, EngineEnds,
              SaveReply, FlushCompactAfterAsk, Flushed, Go, Control, TypeOK
  <2>2. ASSUME AskStep(q) PROVE pc[q] # "new"
    BY <2>2 DEF AskStep, StoreQuestion, CheckReinject, ClearReinject, Launch, EngineEnds,
              SaveReply, FlushCompactAfterAsk, Flushed
  <2>3. ASSUME NEW p \in Asks, Compacts(p) \/ HookGone(p) \/ Stop(p) PROVE pc' = pc
    BY <2>3 DEF Compacts, HookGone, Stop, call
  <2>4. ASSUME NEW m \in Manuals, CompressManagedChat(m) \/ CompressStep(m) PROVE pc'[q] = pc[q]
    BY <2>4 DEF CompressManagedChat, CompressStep, EngineCompacts, EngineFails, Compressed, Go,
              Control, TypeOK
  <2>5. ASSUME NEW b \in Actors, SyncStep(b) PROVE pc' = pc
    BY <2>5, SyncFrame DEF Control
  <2>6. QED
    BY <2>1, <2>2, <2>3, <2>4, <2>5 DEF Next, ClientGone, Orderly, vars
<1>5. CASE Begin(q)
  BY <1>2, <1>5, AskKeepsTurn
<1>6. ASSUME pc[q] # "new" PROVE KeepsTurn(q)'
  <2>1. \A a \in Actors : Busy(a) \/ Syncing(a) => a = q
    BY <1>1, <1>6, OnlyLatest
  <2>2. ASSUME NEW p \in Asks, Begin(p) PROVE p = q
    <3>1. ~Busy(p) /\ pc'[p] = "store" /\ pc[p] = "new"
      BY <2>2 DEF Begin, Go, Busy, Control, TypeOK
    <3>2. ~(p > q)
      BY <3>1 DEF Latest
    <3>3. ~(p < q)
      BY <1>6, <3>1 DEF Control, Sequential
    <3>4. QED
      BY <3>2, <3>3
  <2>3. ASSUME NEW p \in Asks, AskStep(p) \/ Compacts(p) \/ Stop(p) PROVE p = q
    <3>1. Busy(p)
      BY <2>3 DEF Busy, AskStep, StoreQuestion, CheckReinject, ClearReinject, Launch, EngineEnds,
              SaveReply, FlushCompactAfterAsk, Flushed, Compacts, Stop
    <3>2. QED
      BY <2>1, <3>1
  <2>4. ASSUME NEW p \in Asks, HookGone(p) PROVE FALSE
    BY <2>4 DEF HookGone, Control, Placed, HasHook, Orderly
  <2>5. ASSUME NEW m \in Manuals, CompressManagedChat(m) \/ CompressStep(m) PROVE FALSE
    <3>1. pc'[m] # "new"
      BY <2>5 DEF CompressManagedChat, CompressStep, EngineCompacts, EngineFails, Compressed, Go,
              Control, TypeOK
    <3>2. QED
      BY <3>1 DEF NotEmptied
  <2>6. ASSUME NEW a \in Actors, SyncStep(a) PROVE SyncStep(q)
    BY <2>1, <2>6, SyncFrame DEF Control
  <2>7. CASE UNCHANGED vars
    BY <1>2, <2>7 DEF vars, KeepsTurn, HookKeeps, FlushKeeps, EndsWithQuestion, EndsWithTurn
  <2>8. QED
    BY <1>2, <2>2, <2>3, <2>4, <2>5, <2>6, <2>7, AskKeepsTurn, SyncKeepsTurn
       DEF Next, ClientGone, Orderly
<1>7. QED
  BY <1>3, <1>4, <1>5, <1>6

-------------------------------------------------------------------------------
(* The rules are remembered.                                               *)

\* Nobody waits to be told the rules while a sync or a flush is still to come.
LEMMA NotYet ==
  ASSUME Parameters, Control, NEW q \in Asks,
         pc[q] \in {"new", "store", "check", "uncheck", "ready"}, Busy(q)
  PROVE  ~pending /\ \A a \in Actors : ~Syncing(a)
<1> USE DEF Control, Parameters, Actors, Busy
<1>1. \A a \in Actors : a # q => ~Busy(a)
  BY DEF Alone
<1>2. ~pending
  BY <1>1 DEF Placed
<1>3. ASSUME NEW a \in Actors, Syncing(a) PROVE FALSE
  <2>1. pc[a] \in {"flush", "up", "tail"}
    BY <1>3 DEF Placed
  <2>2. QED
    BY <1>1, <2>1
<1>4. QED
  BY <1>2, <1>3

\* An ask that is told is told the rules: the mark is there while it looks for it.
LEMMA AskRemembers ==
  ASSUME Parameters, Orderly, Control, ForgotIsRemembered, NEW q \in Asks,
         Begin(q) \/ AskStep(q) \/ Compacts(q) \/ Stop(q), HooksOfStopped', forgot'
  PROVE  Remembered' /\ \A p \in Asks : pc'[p] = "ready" => p \in told'
<1> USE DEF Control, Parameters, Actors, Go
<1>0. /\ pc \in [Actors -> {"new", "store", "check", "uncheck", "ready", "up", "ended", "saved",
                            "flush", "engine", "tail", "done"}]
      /\ sync \in [Actors -> Syncs] /\ hooks \in [Asks -> 0..MaxHooks] /\ dead \subseteq Asks
  BY DEF TypeOK
<1>1. CASE Compacts(q)
  <2>1. Remembered'
    <3>1. CASE HasHook
      <4>1. Compacted(q)'
        BY <1>0, <1>1, <3>1 DEF Compacts, StartSync, NoSync, Compacted, Syncing
      <4>2. QED
        BY <4>1 DEF Remembered
    <3>2. CASE ~HasHook
      BY <1>1, <3>2 DEF Compacts, markCompactPending, Remembered
    <3>3. QED
      BY <3>1, <3>2
  <2>2. \A p \in Asks : pc'[p] # "ready"
    BY <1>1 DEF Compacts, Alone, Busy
  <2>3. QED
    BY <2>1, <2>2
<1>2. CASE Begin(q) \/ AskStep(q) \/ Stop(q)
  <2>1. hooks' = hooks /\ dead \subseteq dead' /\ (forgot' => forgot)
    BY <1>2 DEF Begin, AskStep, StoreQuestion, CheckReinject, ClearReinject, Launch, EngineEnds,
              SaveReply, FlushCompactAfterAsk, Flushed, Stop, call
  <2>2. HooksOfStopped /\ forgot
    BY <2>1 DEF HooksOfStopped
  <2>3. Remembered /\ \A p \in Asks : pc[p] = "ready" => p \in told
    BY <2>2 DEF ForgotIsRemembered
  <2>4. \A p \in Asks : pc[p] \in {"new", "store", "check", "uncheck", "ready"} => p \notin dead
    BY <1>0, <2>2 DEF HooksOfStopped, Placed
  <2>5. CASE Begin(q) \/ StoreQuestion(q)
    <3>1. /\ \A p \in Asks : p # q => pc'[p] = pc[p]
          /\ pc'[q] \in {"store", "check"} /\ pc[q] \in {"new", "store"}
          /\ UNCHANGED <<sync, pending, reinject, told>>
      BY <1>0, <2>5 DEF Begin, StoreQuestion
    <3>2. Remembered'
      BY <2>3, <3>1 DEF Remembered, Compacted, Syncing
    <3>3. QED
      BY <2>3, <3>1, <3>2
  <2>6. CASE CheckReinject(q)
    <3>1. pc[q] = "check" /\ Busy(q)
      BY <2>6 DEF CheckReinject, Busy
    <3>2. \A p \in Asks : pc[p] # "ready"
      BY <3>1 DEF Alone, Busy
    <3>3. reinject
      BY <2>3, <3>1, <3>2, NotYet DEF Remembered, Compacted
    <3>4. pc' = [pc EXCEPT ![q] = "uncheck"] /\ reinject'
      BY <2>4, <2>6, <3>1, <3>3 DEF CheckReinject
    <3>5. QED
      BY <1>0, <3>2, <3>4 DEF Remembered
  <2>7. CASE ClearReinject(q)
    <3>1. pc[q] = "uncheck" /\ pc' = [pc EXCEPT ![q] = "ready"] /\ told' = told \cup {q}
      BY <2>7 DEF ClearReinject
    <3>2. \A p \in Asks : p # q => pc'[p] # "ready"
      BY <1>0, <3>1 DEF Alone, Busy
    <3>3. pc'[q] = "ready" /\ q \in told'
      BY <1>0, <3>1
    <3>4. QED
      BY <3>2, <3>3 DEF Remembered
  <2>8. CASE Launch(q)
    <3>1. pc[q] = "ready" /\ q \in told /\ q \notin dead
      BY <2>3, <2>4, <2>8 DEF Launch
    <3>2. ~forgot'
      BY <2>8, <3>1 DEF Launch
    <3>3. QED
      BY <3>2
  <2>9. CASE EngineEnds(q) \/ SaveReply(q) \/ Flushed(q)
    <3>1. /\ \A p \in Asks : p # q => pc'[p] = pc[p]
          /\ pc'[q] \in {"ended", "saved", "done"} /\ pc[q] # "ready"
          /\ UNCHANGED <<sync, pending, reinject, told>>
      BY <1>0, <2>9 DEF EngineEnds, SaveReply, Flushed
    <3>2. Remembered'
      BY <2>3, <3>1 DEF Remembered, Compacted, Syncing
    <3>3. QED
      BY <2>3, <3>1, <3>2
  <2>10. CASE FlushCompactAfterAsk(q)
    <3>1. /\ \A p \in Asks : p # q => pc'[p] = pc[p]
          /\ pc'[q] \in {"flush", "done"} /\ pc[q] = "saved"
          /\ UNCHANGED <<reinject, told>>
      BY <1>0, <2>10 DEF FlushCompactAfterAsk
    <3>2. CASE pending
      <4>1. Compacted(q)'
        BY <1>0, <2>10, <3>2 DEF FlushCompactAfterAsk, StartSync, NoSync, Compacted, Syncing
      <4>2. QED
        BY <2>3, <3>1, <4>1 DEF Remembered
    <3>3. CASE ~pending
      <4>1. sync' = sync
        BY <2>10, <3>3 DEF FlushCompactAfterAsk
      <4>2. Remembered'
        BY <2>3, <3>1, <3>3, <4>1 DEF Remembered, Compacted, Syncing
      <4>3. QED
        BY <2>3, <3>1, <4>2
    <3>4. QED
      BY <3>2, <3>3
  <2>11. CASE Stop(q)
    BY <2>3, <2>11 DEF Stop, call, Remembered, Compacted, Syncing
  <2>12. QED
    BY <1>2, <2>5, <2>6, <2>7, <2>8, <2>9, <2>10, <2>11 DEF AskStep
<1>3. QED
  BY <1>1, <1>2

LEMMA RulesStep ==
  ASSUME Parameters, Orderly, Control, ForgotIsRemembered, [Next]_vars
  PROVE  ForgotIsRemembered'
<1> USE DEF Control, Parameters, Actors
<1>0. sync \in [Actors -> Syncs] /\ dead \subseteq Asks
  BY DEF TypeOK
<1>1. ASSUME NEW q \in Asks, Begin(q) \/ AskStep(q) \/ Compacts(q) \/ Stop(q)
      PROVE  ForgotIsRemembered'
  <2>1. HooksOfStopped' /\ forgot' => Remembered' /\ \A p \in Asks : pc'[p] = "ready" => p \in told'
    BY <1>1, AskRemembers
  <2>2. QED
    BY <2>1 DEF ForgotIsRemembered
<1>2. ASSUME NEW q \in Asks, HookGone(q) PROVE FALSE
  BY <1>2 DEF HookGone, Placed, HasHook, Orderly
<1>3. ASSUME NEW m \in Manuals, CompressManagedChat(m) \/ EngineFails(m) \/ Compressed(m)
      PROVE  ForgotIsRemembered'
  <2>1. /\ UNCHANGED <<sync, pending, reinject, told, forgot, dead, hooks>>
        /\ \A p \in Asks : pc'[p] = pc[p]
    BY <1>3 DEF CompressManagedChat, EngineFails, Compressed, Go, TypeOK
  <2>2. QED
    BY <2>1 DEF ForgotIsRemembered, HooksOfStopped, Remembered, Compacted, Syncing
<1>4. ASSUME NEW m \in Manuals, EngineCompacts(m) PROVE ForgotIsRemembered'
  <2>1. Compacted(m)'
    BY <1>0, <1>4 DEF EngineCompacts, StartSync, NoSync, Compacted, Syncing
  <2>2. \A p \in Asks : pc'[p] # "ready"
    BY <1>4 DEF EngineCompacts, Go, TypeOK, Alone, Busy
  <2>3. QED
    BY <2>1, <2>2 DEF ForgotIsRemembered, Remembered
<1>5. ASSUME NEW a \in Actors, SyncStep(a) PROVE ForgotIsRemembered'
  <2>1. /\ UNCHANGED <<pending, forgot, dead, pc, hooks, told>> /\ (reinject => reinject')
        /\ \A b \in Actors : b # a => sync'[b] = sync[b]
    BY <1>5, SyncFrame
  <2>2. Compacted(a) => Compacted(a)' \/ reinject'
    BY <1>0, <1>5 DEF Compacted, Syncing, SyncStep, SyncLook, SyncRead, SyncMark, SyncClear,
         SyncNotice, SyncKeep, SyncReinject, SyncFinish, At, Syncs, KeepLatest
  <2>3. Remembered => Remembered'
    BY <2>1, <2>2 DEF Remembered, Compacted, Syncing
  <2>4. QED
    BY <2>1, <2>3 DEF ForgotIsRemembered, HooksOfStopped
<1>6. CASE UNCHANGED vars
  BY <1>6 DEF vars, ForgotIsRemembered, HooksOfStopped, Remembered, Compacted, Syncing
<1>7. QED
  BY <1>1, <1>2, <1>3, <1>4, <1>5, <1>6 DEF Next, CompressStep, ClientGone, Orderly

-------------------------------------------------------------------------------
(* The status settles.                                                     *)

LEMMA StatusStep ==
  ASSUME Parameters, Orderly, Control, StatusInOrder, [Next]_vars
  PROVE  StatusInOrder'
<1> USE DEF Control, Parameters, Actors, Go, Settled
<1>0. /\ sync \in [Actors -> Syncs] /\ status \in Statuses
      /\ pc \in [Actors -> {"new", "store", "check", "uncheck", "ready", "up", "ended", "saved",
                            "flush", "engine", "tail", "done"}]
  BY DEF TypeOK
<1>1. ASSUME NEW q \in Asks, Busy(q)', pc'[q] # "flush", \A a \in Actors : a # q => ~Busy(a)',
             \A m \in Manuals : ~Syncing(m)'
      PROVE  StatusInOrder'
  BY <1>1 DEF StatusInOrder, Quiet, Busy
<1>2. ASSUME NEW q \in Asks, Busy(q) PROVE \A m \in Manuals : ~Busy(m) /\ ~Syncing(m)
  BY <1>2 DEF Alone, Busy, Placed
<1>3. ASSUME NEW q \in Asks, Begin(q) PROVE StatusInOrder'
  <2>1. /\ Busy(q)' /\ pc'[q] = "store" /\ \A a \in Actors : a # q => ~Busy(a)'
        /\ sync' = sync /\ \A a \in Actors : ~Busy(a)
    BY <1>0, <1>3 DEF Begin, MayCome, Quiet, Orderly, Busy
  <2>2. \A m \in Manuals : ~Syncing(m)'
    BY <2>1 DEF Placed, Busy, Syncing
  <2>3. QED
    BY <1>1, <2>1, <2>2
<1>4. ASSUME NEW q \in Asks, StoreQuestion(q) \/ CheckReinject(q) \/ ClearReinject(q) \/ Launch(q) \/
             EngineEnds(q) \/ SaveReply(q) \/ Compacts(q)
      PROVE  StatusInOrder'
  <2>1. /\ Busy(q) /\ Busy(q)' /\ pc'[q] # "flush" /\ \A a \in Actors : a # q => pc'[a] = pc[a]
        /\ \A a \in Actors : a # q => sync'[a] = sync[a]
    BY <1>0, <1>4 DEF StoreQuestion, CheckReinject, ClearReinject, Launch, EngineEnds, SaveReply,
         Compacts, StartSync, Busy
  <2>2. \A a \in Actors : a # q => ~Busy(a)'
    BY <2>1 DEF Alone, Busy
  <2>3. \A m \in Manuals : ~Syncing(m)'
    BY <1>2, <2>1 DEF Syncing
  <2>4. QED
    BY <1>1, <2>1, <2>2, <2>3
<1>5. ASSUME NEW q \in Asks, FlushCompactAfterAsk(q) PROVE StatusInOrder'
  <2>1. /\ Busy(q) /\ pc'[q] \in {"flush", "done"} /\ \A a \in Actors : a # q => pc'[a] = pc[a]
        /\ \A a \in Actors : a # q => sync'[a] = sync[a]
        /\ status' \in Settled
    BY <1>0, <1>5 DEF FlushCompactAfterAsk, StartSync, Busy
  <2>2. \A a \in Actors : a # q => ~Busy(a)'
    BY <2>1 DEF Alone, Busy
  <2>3. \A m \in Manuals : ~Syncing(m)'
    BY <1>2, <2>1 DEF Syncing
  <2>4. sync'[q].at \in {"no", "look"}
    <3>1. sync[q].at = "no"
      BY <1>5 DEF FlushCompactAfterAsk, Placed, Syncing
    <3>2. CASE pending
      BY <1>0, <1>5, <3>2 DEF FlushCompactAfterAsk, StartSync, NoSync
    <3>3. CASE ~pending
      BY <1>5, <3>1, <3>3 DEF FlushCompactAfterAsk
    <3>4. QED
      BY <3>2, <3>3
  <2>5. QED
    BY <2>1, <2>2, <2>3, <2>4 DEF StatusInOrder, Busy
<1>6. ASSUME NEW q \in Asks, Flushed(q) PROVE StatusInOrder'
  <2>1. /\ Busy(q) /\ pc'[q] = "done" /\ \A a \in Actors : a # q => pc'[a] = pc[a]
        /\ sync' = sync /\ status' = status /\ pc[q] = "flush"
    BY <1>0, <1>6 DEF Flushed, Busy
  <2>2. \A a \in Actors : a # q => ~Busy(a)'
    BY <2>1 DEF Alone, Busy
  <2>3. \A m \in Manuals : ~Syncing(m)'
    BY <1>2, <2>1 DEF Syncing
  <2>4. QED
    BY <2>1, <2>2, <2>3 DEF StatusInOrder, Busy
<1>7. ASSUME NEW q \in Asks, HookGone(q) PROVE FALSE
  BY <1>7 DEF HookGone, Placed, HasHook, Orderly
<1>8. ASSUME NEW q \in Asks, Stop(q) PROVE StatusInOrder'
  BY <1>8 DEF Stop, call, StatusInOrder, Quiet, Busy, Syncing
<1>9. ASSUME NEW m \in Manuals, CompressManagedChat(m) PROVE StatusInOrder'
  <2>1. /\ pc' = [pc EXCEPT ![m] = "engine"] /\ sync' = sync /\ status' = "compressing"
        /\ \A a \in Actors : ~Busy(a)
    BY <1>9 DEF CompressManagedChat, MayCome, Quiet, Orderly
  <2>2. \A a \in Actors : a # m => ~Busy(a)'
    BY <1>0, <2>1 DEF Busy
  <2>3. \A n \in Manuals : ~Syncing(n)'
    BY <2>1 DEF Placed, Busy, Syncing
  <2>4. QED
    BY <1>0, <2>1, <2>2, <2>3 DEF StatusInOrder, Quiet, Busy
<1>10. ASSUME NEW m \in Manuals, CompressStep(m) PROVE StatusInOrder'
  <2>1. /\ Busy(m) /\ \A a \in Actors : a # m => pc'[a] = pc[a] /\ sync'[a] = sync[a]
    BY <1>0, <1>10 DEF CompressStep, EngineCompacts, EngineFails, Compressed, StartSync, Busy
  <2>2. \A a \in Actors : a # m => ~Busy(a) /\ ~Busy(a)' /\ ~Syncing(a) /\ ~Syncing(a)'
    BY <2>1 DEF Alone, Busy, Placed, Syncing
  <2>3. CASE EngineCompacts(m)
    <3>1. pc[m] = "engine" /\ pc'[m] = "tail" /\ status' = status /\ sync'[m].at = "look"
      BY <1>0, <2>3 DEF EngineCompacts, StartSync, NoSync
    <3>2. QED
      BY <2>2, <3>1 DEF StatusInOrder, Quiet, Busy, Syncing
  <2>4. CASE EngineFails(m)
    <3>1. pc[m] = "engine" /\ pc'[m] = "done" /\ status' \in Settled /\ sync' = sync
      BY <1>0, <2>4 DEF EngineFails, StatusInOrder
    <3>2. ~Syncing(m)'
      BY <3>1 DEF Placed, Syncing
    <3>3. QED
      BY <2>2, <3>1, <3>2 DEF StatusInOrder, Busy
  <2>5. CASE Compressed(m)
    <3>1. pc[m] = "tail" /\ pc'[m] = "done" /\ sync' = sync /\ ~Syncing(m) /\ ~Syncing(m)'
      BY <1>0, <2>5 DEF Compressed, Syncing
    <3>2. status' \in Settled
      BY <2>5, <3>1 DEF Compressed, StatusInOrder
    <3>3. QED
      BY <2>2, <3>1, <3>2 DEF StatusInOrder, Busy
  <2>6. QED
    BY <1>10, <2>3, <2>4, <2>5 DEF CompressStep
<1>11. ASSUME NEW a \in Actors, SyncStep(a) PROVE StatusInOrder'
  <2>1. Syncing(a) /\ pc' = pc /\ \A b \in Actors : b # a => sync'[b] = sync[b]
    BY <1>11, SyncFrame
  <2>2. Busy(a) /\ \A b \in Actors : b # a => ~Busy(b) /\ ~Syncing(b) /\ ~Syncing(b)'
    <3>1. \A b \in Actors : Syncing(b) => Busy(b)
      BY DEF Placed, Busy
    <3>2. Busy(a) /\ \A b \in Actors : b # a => ~Busy(b) /\ ~Syncing(b)
      BY <2>1, <3>1 DEF Alone
    <3>3. QED
      BY <2>1, <3>2 DEF Syncing
  <2>3. ~Quiet'
    BY <2>1, <2>2 DEF Quiet, Busy
  <2>4. CASE a \in Asks
    <3>1. ASSUME pc[a] = "flush"
          PROVE  status' \in Settled /\ (sync'[a].at \notin {"no", "look"} => sync'[a].prev \in Settled)
      BY <1>0, <1>11, <2>4, <3>1 DEF SyncStep, SyncLook, SyncRead, SyncMark, SyncClear,
         SyncNotice, SyncKeep, SyncReinject, SyncFinish, At, Syncs, KeepLatest, StatusInOrder,
         CompactStatusAfterSync, NoSync
    <3>2. QED
      BY <2>1, <2>2, <2>3, <2>4, <3>1 DEF StatusInOrder, Busy
  <2>5. CASE a \in Manuals
    <3>1. /\ pc[a] = "tail" /\ a \notin Asks
          /\ sync[a].at # "look" => sync[a].prev = "compressing"
          /\ status = "compressing"
      BY <2>1, <2>5 DEF Placed, StatusInOrder
    <3>2. /\ IF Syncing(a)' THEN status' = "compressing" ELSE status' \in Settled
          /\ Syncing(a)' /\ sync'[a].at # "look" => sync'[a].prev = "compressing"
      BY <1>0, <1>11, <3>1 DEF SyncStep, SyncLook, SyncRead, SyncMark, SyncClear,
         SyncNotice, SyncKeep, SyncReinject, SyncFinish, At, Syncs, KeepLatest, Syncing,
         CompactStatusAfterSync, NoSync
    <3>3. QED
      BY <2>1, <2>2, <2>3, <2>5, <3>1, <3>2 DEF StatusInOrder, Busy
  <2>6. QED
    BY <2>4, <2>5
<1>12. CASE UNCHANGED vars
  BY <1>12 DEF vars, StatusInOrder, Quiet, Busy, Syncing
<1>13. QED
  BY <1>3, <1>4, <1>5, <1>6, <1>7, <1>8, <1>9, <1>10, <1>11, <1>12
     DEF Next, AskStep, ClientGone, Orderly

-------------------------------------------------------------------------------
(* The theorems.                                                           *)

\* The types, whatever crosses whatever.
THEOREM TypeCorrect == ASSUME Parameters PROVE Spec => []TypeOK
<1>1. Init => TypeOK
  BY InitIInv DEF IInv
<1>2. TypeOK /\ [Next]_vars => TypeOK'
  BY TypeStep
<1>3. QED
  BY <1>1, <1>2, PTL DEF Spec

LEMMA Invariant == ASSUME Parameters, Orderly PROVE Spec => []IInv
<1>1. Init => IInv
  BY InitIInv
<1>2. IInv /\ [Next]_vars => IInv'
  <2> SUFFICES ASSUME IInv, [Next]_vars PROVE IInv'
    OBVIOUS
  <2>1. Control
    BY DEF IInv, Control
  <2>2. TypeOK' /\ Placed' /\ Alone' /\ Sequential'
    BY <2>1, TypeStep, PlacedStep, AloneStep DEF Control
  <2>3. LatestIsKept' /\ ForgotIsRemembered' /\ StatusInOrder'
    BY <2>1, <2>2, LatestStep, RulesStep, StatusStep DEF IInv
  <2>4. QED
    BY <2>2, <2>3 DEF IInv
<1>3. QED
  BY <1>1, <1>2, PTL DEF Spec

\* A compaction the engine decided on keeps the question and the answer of its turn, however
\* often it compacts and wherever Codex is stopped (compact.go:94).
THEOREM TurnKept == ASSUME Parameters, Orderly PROVE Spec => []TurnIsKept
<1>1. IInv => TurnIsKept
  <2> SUFFICES ASSUME IInv, Quiet, NotEmptied, NEW q \in Asks,
                      pc[q] = "done", hooks[q] > 0, Latest(q)
               PROVE  \E i \in 1..(Len(rows) - 1) : rows[i] = UserRow(q) /\ rows[i + 1] = ReplyRow(q)
    BY DEF TurnIsKept, NotEmptied, Latest
  <2>1. EndsWithTurn(q) /\ Len(rows) \in Nat
    BY DEF IInv, LatestIsKept, KeepsTurn, TypeOK
  <2>2. Len(rows) - 1 \in 1..(Len(rows) - 1) /\ Len(rows) - 1 + 1 = Len(rows)
    BY <2>1 DEF EndsWithTurn
  <2>3. QED
    BY <2>1, <2>2 DEF EndsWithTurn
<1>2. QED
  BY <1>1, Invariant, PTL

\* A thread that was compacted is told the system's rules with the next prompt
\* (compact.go:160, consumeSystemReinject).
THEOREM RulesRepeated == ASSUME Parameters, Orderly PROVE Spec => []RulesAreRepeated
<1>1. IInv => RulesAreRepeated
  BY DEF IInv, RulesAreRepeated, ForgotIsRemembered, HooksOfStopped
<1>2. QED
  BY <1>1, Invariant, PTL

\* With nobody at work the agent neither runs nor compresses (compact.go:178).
THEOREM StatusSettled == ASSUME Parameters, Orderly PROVE Spec => []StatusSettles
<1>1. IInv => StatusSettles
  BY DEF IInv, StatusSettles, StatusInOrder, Settled
<1>2. QED
  BY <1>1, Invariant, PTL
==============================================================================
