---------------------------- MODULE EngineRun_proofs ----------------------------
(* Theorems about EngineRun, for any asks, threads, engines and bounds.    *)
EXTENDS EngineRun, SequenceTheorems, TLAPS

\* The account of what was said is kept at every step, not only at the end.
Said(r) ==
  /\ r.partial \o r.text = r.shown
  /\ Len(r.shown) = r.n
  /\ \A i \in 1..r.n : r.shown[i] = i

\* Every process begins without a text.
StartsSilent(r) == r.at \in {"new", "store", "read", "start"} => r.text = <<>>

\* One that prints says nothing before it has ended well.
PrintsLast(r) ==
  /\ engine = "cursor" \/ r.mode # "json"
  /\ r.at = "up" \/ (r.at = "ended" /\ r.how # "ok")
  => r.text = <<>>

\* Codex names its thread, in a line of JSON, before it speaks.
NamesFirst(r) ==
  engine = "codex" /\ r.mode = "json" /\ r.at \in {"up", "ended"} /\ ~r.saw
    => r.text = <<>> /\ r.meta = Nothing

Begun(t) == t \in Threads /\ owner[t] \in Asks \ Light

\* The ids an ask works with are those of threads begun for this conversation.
KnowsBegun(q, r) ==
  /\ r.resume # Nothing => q \notin Light /\ Begun(r.resume)
  /\ q \notin Light => /\ r.thread # Nothing => Begun(r.thread)
                       /\ r.meta \in {Nothing, r.thread}

Sound(q, r) ==
  Said(r) /\ StartsSilent(r) /\ PrintsLast(r) /\ NamesFirst(r) /\ KnowsBegun(q, r)

IInv ==
  /\ TypeOK
  /\ \A q \in Asks : Sound(q, run[q])
  /\ session # Nothing => Begun(session)

-------------------------------------------------------------------------------
(* One run, as a record.                                                   *)

LEMMA FreshIsARun == Fresh \in Runs
BY RecoverAssumption DEF Fresh, Runs, Places, Modes, Ends, Ids

\* What is said is all that the account depends on.
LEMMA SaidKept ==
  ASSUME NEW r, NEW s, Said(r),
         s.partial = r.partial, s.text = r.text, s.shown = r.shown, s.n = r.n
  PROVE  Said(s)
BY DEF Said

LEMMA AppendInside ==
  ASSUME NEW a \in Seq(Nat), NEW b \in Seq(Nat), NEW k \in Nat
  PROVE  a \o Append(b, k) = Append(a \o b, k)
OBVIOUS

\* One more piece is appended on both sides of the account.
LEMMA SaysOne ==
  ASSUME NEW r \in Runs, r.n < MaxPieces
  PROVE  /\ Says(r) \in Runs
         /\ Said(r) => Said(Says(r))
         /\ Says(r).at = r.at /\ Says(r).mode = r.mode /\ Says(r).resume = r.resume
         /\ Says(r).thread = r.thread /\ Says(r).meta = r.meta /\ Says(r).saw = r.saw
         /\ Says(r).how = r.how
<1> USE RecoverAssumption
<1>1. r.n + 1 \in 0..MaxPieces /\ r.n + 1 \in Nat /\ r.n \in Nat
  BY DEF Runs
<1>2. r.text \in Seq(Nat) /\ r.shown \in Seq(Nat) /\ r.partial \in Seq(Nat)
  BY DEF Runs
<1>3. Append(r.text, r.n + 1) \in Seq(Nat) /\ Append(r.shown, r.n + 1) \in Seq(Nat)
  BY <1>1, <1>2
<1>4. PICK n \in 0..MaxPieces, t \in Seq(Nat), u \in Seq(Nat) :
        n = r.n + 1 /\ t = Append(r.text, r.n + 1) /\ u = Append(r.shown, r.n + 1)
  BY <1>1, <1>3
<1>5. /\ Says(r) \in Runs
      /\ Says(r).n = n /\ Says(r).text = t /\ Says(r).shown = u
      /\ Says(r).partial = r.partial
      /\ Says(r).at = r.at /\ Says(r).mode = r.mode /\ Says(r).resume = r.resume
      /\ Says(r).thread = r.thread /\ Says(r).meta = r.meta /\ Says(r).saw = r.saw
      /\ Says(r).how = r.how
  <2>1. Says(r) = [r EXCEPT !.n = n, !.text = t, !.shown = u]
    BY <1>4 DEF Says, Runs
  <2>2. QED
    BY <2>1 DEF Runs
<1>6. ASSUME Said(r) PROVE Said(Says(r))
  <2>1. r.partial \o Append(r.text, r.n + 1) = Append(r.shown, r.n + 1)
    <3>1. r.partial \o Append(r.text, r.n + 1) = Append(r.partial \o r.text, r.n + 1)
      BY <1>1, <1>2, AppendInside
    <3>2. r.partial \o r.text = r.shown
      BY <1>6 DEF Said
    <3>3. QED
      BY <3>1, <3>2
  <2>2. Len(Append(r.shown, r.n + 1)) = r.n + 1
    BY <1>1, <1>2, <1>6, AppendProperties DEF Said
  <2>3. \A i \in 1..(r.n + 1) : Append(r.shown, r.n + 1)[i] = i
    BY <1>1, <1>2, <1>6, AppendProperties DEF Said
  <2>4. QED
    BY <1>4, <1>5, <2>1, <2>2, <2>3 DEF Said
<1>7. QED
  BY <1>5, <1>6

\* The text of an interrupted call moves behind the earlier ones.
LEMMA InterruptedKept ==
  ASSUME NEW r \in Runs, Said(r)
  PROVE  Interrupted(r) \in Seq(Nat) /\ Interrupted(r) \o <<>> = r.shown
<1>1. r.text \in Seq(Nat) /\ r.partial \in Seq(Nat)
  BY DEF Runs
<1>2. QED
  BY <1>1, ConcatProperties, ConcatEmptySeq DEF Interrupted, Said

\* The run of one ask changes, to a sound one.
LEMMA Frame ==
  ASSUME IInv, NEW q \in Asks, NEW s \in Runs, Sound(q, s), run' = [run EXCEPT ![q] = s],
         UNCHANGED <<engine, owner>>
  PROVE  run' \in [Asks -> Runs] /\ \A p \in Asks : Sound(p, run[p])'
<1>1. run' \in [Asks -> Runs]
  BY DEF IInv, TypeOK
<1>2. \A p \in Asks : run'[p] = IF p = q THEN s ELSE run[p]
  BY DEF IInv, TypeOK
<1>3. ASSUME NEW p \in Asks PROVE Sound(p, run[p])'
  <2>1. PICK r : r = run'[p] /\ Sound(p, r)
    BY <1>2 DEF IInv
  <2>2. PrintsLast(r)' /\ NamesFirst(r)' /\ KnowsBegun(p, r)'
    BY <2>1 DEF Sound, PrintsLast, NamesFirst, KnowsBegun, Begun
  <2>3. QED
    BY <2>1, <2>2 DEF Sound, Said, StartsSilent, PrintsLast, NamesFirst, KnowsBegun, Begun
<1>4. QED
  BY <1>1, <1>3

-------------------------------------------------------------------------------
(* One lemma for every action that changes a run.                          *)

LEMMA NoText == \E x \in Seq(Nat) : x = <<>>
<1>1. <<>> \in Seq(Nat)
  OBVIOUS
<1>2. QED
  BY <1>1, Zenon

LEMMA HistoryType == ASSUME TypeOK, NEW q PROVE ResumeHistory(q) \in SUBSET Asks
<1>1. PICK rows \in Seq(Rows) : rows = ReadMessages(q)
  <2>1. <<>> \in Seq(Rows) /\ messages \in Seq(Rows)
    BY DEF TypeOK
  <2>2. QED
    BY <2>1 DEF ReadMessages
<1>2. \A j \in 2..Len(rows) : rows[j] \in Rows
  OBVIOUS
<1>3. \A j \in 2..Len(rows) : rows[j].ask \in Asks
  BY <1>2 DEF Rows
<1>4. QED
  BY <1>1, <1>3 DEF ResumeHistory, RecentTurns

LEMMA BeginStep ==
  ASSUME IInv, NEW q \in Asks, Begin(q) \/ StoreQuestion(q) PROVE IInv'
<1>1. PICK r \in Runs : r = run[q] /\ Sound(q, r) /\ r.at \in {"new", "store"}
  BY DEF IInv, TypeOK, Begin, StoreQuestion
<1>2. PICK a \in {"store", "read"} : run' = [run EXCEPT ![q] = [r EXCEPT !.at = a]]
  BY <1>1 DEF Begin, StoreQuestion
<1>3. [r EXCEPT !.at = a] \in Runs
  BY DEF Runs, Places
<1>4. Sound(q, [r EXCEPT !.at = a])
  BY <1>1 DEF Runs, Sound, Said, StartsSilent, PrintsLast, NamesFirst, KnowsBegun
<1>5. run' \in [Asks -> Runs] /\ \A p \in Asks : Sound(p, run[p])'
  BY <1>2, <1>3, <1>4, Frame DEF Begin, StoreQuestion, world
<1>6. TypeOK'
  <2>1. CASE Begin(q)
    BY <1>5, <2>1 DEF IInv, TypeOK, Begin, world
  <2>2. CASE StoreQuestion(q)
    <3>1. UserRow(q) \in Rows
      BY DEF UserRow, Rows
    <3>2. QED
      BY <1>5, <2>2, <3>1 DEF IInv, TypeOK, StoreQuestion, world
  <2>3. QED
    BY <2>1, <2>2
<1>7. QED
  BY <1>5, <1>6 DEF IInv, Begin, StoreQuestion, world, Begun

LEMMA ReadStep == ASSUME IInv, NEW q \in Asks, ReadSession(q) PROVE IInv'
<1>1. PICK r \in Runs : r = run[q] /\ Sound(q, r)
  BY DEF IInv, TypeOK
<1>2. ResumeHistory(q) \in SUBSET Asks
  BY HistoryType DEF IInv
<1>3. PICK i \in Ids, h \in SUBSET Asks, x \in Seq(Nat) :
        /\ x = <<>> /\ (i # Nothing => q \notin Light /\ Begun(i))
        /\ run' = [run EXCEPT ![q] = [r EXCEPT !.at = "start", !.mode = "json", !.again = FALSE,
                                     !.resume = i, !.hist = h, !.text = x]]
  <2>1. PICK i \in Ids : /\ i = IF Persisted(q) THEN ReadSessionID(q) ELSE Nothing
                         /\ i # Nothing => q \notin Light /\ Begun(i)
    BY DEF IInv, TypeOK, ReadSessionID, Persisted, Ids
  <2>2. PICK h \in SUBSET Asks :
          h = IF Persisted(q) /\ i = Nothing THEN ResumeHistory(q) ELSE {}
    BY <1>2
  <2>3. PICK x \in Seq(Nat) : x = <<>>
    BY NoText
  <2>4. run' = [run EXCEPT ![q] = [r EXCEPT !.at = "start", !.mode = "json", !.again = FALSE,
                                 !.resume = i, !.hist = h, !.text = x]]
    BY <1>1, <2>1, <2>2, <2>3 DEF ReadSession
  <2>5. QED
    BY <2>1, <2>3, <2>4
<1> DEFINE s == [r EXCEPT !.at = "start", !.mode = "json", !.again = FALSE,
                          !.resume = i, !.hist = h, !.text = x]
<1>4. s \in Runs
  BY DEF Runs, Places, Modes
<1>5. Sound(q, s)
  <2>1. r.text = <<>>
    BY <1>1 DEF Sound, StartsSilent, ReadSession
  <2>2. QED
    BY <1>1, <1>3, <2>1 DEF Runs, Sound, Said, StartsSilent, PrintsLast, NamesFirst, KnowsBegun
<1>6. run' \in [Asks -> Runs] /\ \A p \in Asks : Sound(p, run[p])'
  BY <1>3, <1>4, <1>5, Frame DEF ReadSession, world
<1>7. TypeOK'
  BY <1>6 DEF IInv, TypeOK, ReadSession, world
<1>8. QED
  BY <1>6, <1>7 DEF IInv, ReadSession, world, Begun

LEMMA LeaveStep ==
  ASSUME IInv, NEW q \in Asks, Leave(q) \/ LaunchFails(q) PROVE IInv'
<1>1. PICK r \in Runs : r = run[q] /\ Sound(q, r)
  BY DEF IInv, TypeOK
<1>2. CASE Leave(q)
  <2> DEFINE s == [r EXCEPT !.at = "done", !.err = "cancelled"]
  <2>1. s \in Runs
    BY DEF Runs, Places, Ends
  <2>2. Sound(q, s)
    BY <1>1 DEF Runs, Sound, Said, StartsSilent, PrintsLast, NamesFirst, KnowsBegun
  <2>3. run' \in [Asks -> Runs] /\ \A p \in Asks : Sound(p, run[p])'
    BY <1>1, <1>2, <2>1, <2>2, Frame DEF Leave, world
  <2>4. QED
    BY <1>2, <2>3 DEF IInv, TypeOK, Leave, world, Begun
<1>3. CASE LaunchFails(q)
  <2>1. PICK how \in Ends : /\ how # "ok"
                            /\ run' = [run EXCEPT ![q] =
                                 [r EXCEPT !.at = "ended", !.saw = FALSE, !.meta = Nothing, !.how = how]]
    BY <1>1, <1>3 DEF LaunchFails, Ends
  <2> DEFINE s == [r EXCEPT !.at = "ended", !.saw = FALSE, !.meta = Nothing, !.how = how]
  <2>2. s \in Runs
    BY DEF Runs, Places, Ids
  <2>3. r.text = <<>>
    BY <1>1, <1>3 DEF Sound, StartsSilent, LaunchFails
  <2>4. Sound(q, s)
    BY <1>1, <2>3 DEF Runs, Sound, Said, StartsSilent, PrintsLast, NamesFirst, KnowsBegun
  <2>5. run' \in [Asks -> Runs] /\ \A p \in Asks : Sound(p, run[p])'
    BY <2>1, <2>2, <2>4, <1>3, Frame DEF LaunchFails, world
  <2>6. QED
    BY <1>3, <2>5 DEF IInv, TypeOK, LaunchFails, world, Begun
<1>4. QED
  BY <1>2, <1>3

\* A new thread is none that anybody holds.
LEMMA LaunchStep == ASSUME IInv, NEW q \in Asks, Launch(q) PROVE IInv'
<1>1. PICK r \in Runs : r = run[q] /\ Sound(q, r)
  BY DEF IInv, TypeOK
<1>2. PICK t \in Ids : /\ t = (IF r.resume = Nothing THEN NewThread ELSE r.resume)
                       /\ r.resume = Nothing => t \in Unused
                       /\ r.resume # Nothing => t = r.resume
                       /\ run' = [run EXCEPT ![q] = [r EXCEPT !.at = "up", !.thread = t,
                                                !.meta = Nothing, !.saw = FALSE]]
  <2>1. r.resume \in Ids
    BY DEF Runs
  <2>2. r.resume = Nothing => NewThread \in Unused
    BY <1>1 DEF Launch, NewThread
  <2>3. QED
    BY <1>1, <2>1, <2>2 DEF Launch, Ids, Unused
<1> DEFINE s == [r EXCEPT !.at = "up", !.thread = t, !.meta = Nothing, !.saw = FALSE]
<1>3. s \in Runs
  BY DEF Runs, Places, Ids
<1>4. run' \in [Asks -> Runs] /\ \A p \in Asks : run'[p] = IF p = q THEN s ELSE run[p]
  BY <1>2, <1>3 DEF IInv, TypeOK
<1>5. owner' = IF r.resume = Nothing THEN [owner EXCEPT ![t] = q] ELSE owner
  BY <1>1, <1>2 DEF Launch, world
<1>6. owner' \in [Threads -> Asks \cup {Nothing}]
  BY <1>5 DEF IInv, TypeOK
<1>7. TypeOK'
  <2>1. knows' \in [Threads -> SUBSET Asks]
    BY <1>1, <1>2 DEF IInv, TypeOK, Launch, world, Runs
  <2>2. QED
    BY <1>4, <1>6, <2>1 DEF IInv, TypeOK, Launch, world
<1>8. ASSUME NEW u, Begun(u), u \notin Unused PROVE Begun(u)'
  BY <1>2, <1>5, <1>8 DEF Begun, IInv, TypeOK
<1>9. ASSUME NEW p \in Asks, p # q PROVE Sound(p, run[p])'
  <2>1. PICK o \in Runs : o = run[p] /\ o = run'[p] /\ Sound(p, o)
    BY <1>4, <1>9 DEF IInv, TypeOK
  <2>2. {o.resume, o.thread, o.meta} \cap Unused = {}
    BY <2>1 DEF Unused
  <2>3. KnowsBegun(p, o)'
    BY <1>8, <2>1, <2>2 DEF Sound, KnowsBegun
  <2>4. engine' = engine
    BY DEF Launch
  <2>5. QED
    BY <2>1, <2>3, <2>4 DEF Sound, Said, StartsSilent, PrintsLast, NamesFirst, KnowsBegun
<1>10. Sound(q, run[q])'
  <2>1. s.resume = r.resume /\ s.thread = t /\ s.meta = Nothing
    BY DEF Runs
  <2>2. KnowsBegun(q, s)'
    <3>1. CASE r.resume = Nothing
      <4>1. t \in Threads /\ owner'[t] = q
        BY <1>2, <1>5, <3>1 DEF IInv, TypeOK, Unused
      <4>2. QED
        BY <2>1, <3>1, <4>1 DEF KnowsBegun, Begun
    <3>2. CASE r.resume # Nothing
      <4>1. q \notin Light /\ Begun(t) /\ owner' = owner
        BY <1>1, <1>2, <1>5, <3>2 DEF Sound, KnowsBegun
      <4>2. QED
        BY <1>2, <2>1, <3>2, <4>1 DEF KnowsBegun, Begun
    <3>3. QED
      BY <3>1, <3>2
  <2>3. r.text = <<>>
    BY <1>1 DEF Sound, StartsSilent, Launch
  <2>4. Said(s) /\ StartsSilent(s) /\ s.text = <<>> /\ s.meta = Nothing
    BY <1>1, <2>3 DEF Runs, Sound, Said, StartsSilent
  <2>5. run'[q] = s
    BY <1>4
  <2>6. QED
    BY <2>2, <2>4, <2>5 DEF Sound, Said, StartsSilent, PrintsLast, NamesFirst, KnowsBegun
<1>11. session' = session /\ session \notin Unused
  BY DEF Launch, Unused
<1>12. QED
  BY <1>7, <1>8, <1>9, <1>10, <1>11 DEF IInv

\* The conversation binds a thread that was begun for it, if it binds one.
LEMMA BoundIsBegun ==
  ASSUME IInv, NEW q, NEW id \in Ids, RememberEngineMeta(q, id), owner' = owner,
         q \notin Light /\ id # Nothing => Begun(id)
  PROVE  session' \in Ids /\ (session # Nothing => Begun(session))'
BY DEF IInv, TypeOK, RememberEngineMeta, UpdateEngineMeta, StickySessionID, Persisted, Begun

LEMMA AnnounceStep ==
  ASSUME IInv, NEW q \in Asks, NEW id \in Threads \cup {Sub},
         Announce(q, id) \/ ThreadStarted(q, id)
  PROVE  IInv'
<1>1. PICK r \in Runs : r = run[q] /\ Sound(q, r)
  BY DEF IInv, TypeOK
<1>2. PICK i \in Ids : /\ i = StickySessionID(r.meta, id) /\ i # Nothing
                       /\ q \notin Light => Begun(i) /\ i = r.thread
  <2>1. r.meta \in Ids /\ r.thread \in Ids
    BY DEF Runs
  <2>2. id \in {r.thread} \cup IF r.meta = Nothing THEN {} ELSE {Sub}
    BY <1>1 DEF Announce, ThreadStarted, AnnouncedIds
  <2>3. r.meta = Nothing => id = r.thread
    BY <2>2
  <2>4. q \notin Light => (r.thread # Nothing => Begun(r.thread)) /\ r.meta \in {Nothing, r.thread}
    BY <1>1 DEF Sound, KnowsBegun
  <2>5. QED
    BY <2>1, <2>3, <2>4, NothingAssumption DEF StickySessionID, Ids
<1>3. session' \in Ids /\ (session # Nothing => Begun(session))'
  <2>1. RememberEngineMeta(q, i) /\ owner' = owner
    BY <1>1, <1>2 DEF Announce, ThreadStarted, world
  <2>2. QED
    BY <1>2, <2>1, BoundIsBegun
<1>4. CASE Announce(q, id)
  <2> DEFINE s == [r EXCEPT !.meta = i]
  <2>1. s \in Runs
    BY DEF Runs
  <2>2. Sound(q, s)
    BY <1>1, <1>2, <1>4 DEF Announce, Runs, Sound, Said, StartsSilent, PrintsLast, NamesFirst, KnowsBegun
  <2>3. run' = [run EXCEPT ![q] = s]
    BY <1>1, <1>2, <1>4 DEF Announce
  <2>4. run' \in [Asks -> Runs] /\ \A p \in Asks : Sound(p, run[p])'
    BY <1>4, <2>1, <2>2, <2>3, Frame DEF Announce, world
  <2>5. QED
    BY <1>3, <1>4, <2>4 DEF IInv, TypeOK, Announce, world
<1>5. CASE ThreadStarted(q, id)
  <2> DEFINE s == [r EXCEPT !.meta = i, !.saw = TRUE]
  <2>1. s \in Runs
    BY DEF Runs
  <2>2. Sound(q, s)
    BY <1>1, <1>2, <1>5
    DEF ThreadStarted, Runs, Sound, Said, StartsSilent, PrintsLast, NamesFirst, KnowsBegun
  <2>3. run' = [run EXCEPT ![q] = s]
    <3>1. run' = [run EXCEPT ![q] =
                    [run[q] EXCEPT !.meta = StickySessionID(run[q].meta, id), !.saw = TRUE]]
      BY <1>5 DEF ThreadStarted
    <3>2. QED
      BY <1>1, <1>2, <3>1
  <2>4. run' \in [Asks -> Runs] /\ \A p \in Asks : Sound(p, run[p])'
    BY <1>5, <2>1, <2>2, <2>3, Frame DEF ThreadStarted, world
  <2>5. QED
    BY <1>3, <1>5, <2>4 DEF IInv, TypeOK, ThreadStarted, world
<1>6. QED
  BY <1>4, <1>5

\* Another piece, in a process that speaks while it runs.
LEMMA SpeaksOn ==
  ASSUME NEW q \in Asks, NEW r \in Runs, Sound(q, r), r.n < MaxPieces, r.at = "up",
         engine # "cursor", r.mode = "json", r.meta # Nothing
  PROVE  Says(r) \in Runs /\ Sound(q, Says(r))
BY SaysOne DEF Sound, StartsSilent, PrintsLast, NamesFirst, KnowsBegun

LEMMA SpeakStep ==
  ASSUME IInv, NEW q \in Asks,
         Delta(q) \/ Message(q) \/ \E isResult \in BOOLEAN : Snapshot(q, isResult)
  PROVE  IInv'
<1>1. PICK r \in Runs : r = run[q] /\ Sound(q, r)
  BY DEF IInv, TypeOK
<1>2. r.at = "up" /\ engine # "cursor" /\ r.mode = "json" /\ r.meta # Nothing
  BY <1>1 DEF Delta, Message, Snapshot, Speaks, Streams
<1>3. UNCHANGED <<engine, session, messages, dead, owner, lost, clear>>
  BY DEF Delta, Message, Snapshot
<1>4. knows' \in [Threads -> SUBSET Asks]
  BY DEF Delta, Message, Snapshot, Speaks, IInv, TypeOK
<1>5. PICK s \in Runs : Sound(q, s) /\ run' = [run EXCEPT ![q] = s]
  <2>1. CASE Delta(q) \/ Message(q)
    <3>1. r.n < MaxPieces /\ run' = [run EXCEPT ![q] = Says(r)]
      BY <1>1, <2>1 DEF Delta, Message
    <3>2. QED
      BY <1>1, <1>2, <3>1, SpeaksOn
  <2>2. ASSUME NEW isResult \in BOOLEAN, Snapshot(q, isResult)
        PROVE  \E s \in Runs : Sound(q, s) /\ run' = [run EXCEPT ![q] = s]
    <3>1. PICK u \in Runs : /\ u = TakeSnapshot(r) /\ Sound(q, u)
                            /\ u.at = "up" /\ u.mode = "json" /\ engine # "codex"
      <4>1. CASE r.text = <<>>
        <5>1. r.n < MaxPieces
          BY <1>1, <2>2, <4>1 DEF Snapshot
        <5>2. QED
          BY <1>1, <1>2, <2>2, <4>1, <5>1, SpeaksOn, SaysOne DEF TakeSnapshot, Snapshot
      <4>2. CASE r.text # <<>>
        BY <1>1, <1>2, <2>2, <4>2 DEF TakeSnapshot, Snapshot
      <4>3. QED
        BY <4>1, <4>2
    <3>2. PICK b \in BOOLEAN : b = (r.saw \/ isResult)
      OBVIOUS
    <3>3. [u EXCEPT !.saw = b] \in Runs
      BY DEF Runs
    <3>4. Sound(q, [u EXCEPT !.saw = b])
      BY <3>1 DEF Runs, Sound, Said, StartsSilent, PrintsLast, NamesFirst, KnowsBegun
    <3>5. run' = [run EXCEPT ![q] = [u EXCEPT !.saw = b]]
      BY <1>1, <2>2, <3>1, <3>2 DEF Snapshot
    <3>6. QED
      BY <3>3, <3>4, <3>5
  <2>3. QED
    BY <2>1, <2>2
<1>6. run' \in [Asks -> Runs] /\ \A p \in Asks : Sound(p, run[p])'
  BY <1>3, <1>5, Frame
<1>7. QED
  BY <1>3, <1>4, <1>6 DEF IInv, TypeOK, Begun

LEMMA ExitStep == ASSUME IInv, NEW q \in Asks, NEW how \in Ends, Exit(q, how) PROVE IInv'
<1>1. PICK r \in Runs : r = run[q] /\ Sound(q, r) /\ r.at = "up"
  BY DEF IInv, TypeOK, Exit
<1>2. PICK e \in Runs : e = [r EXCEPT !.at = "ended", !.how = how]
  <2>1. [r EXCEPT !.at = "ended", !.how = how] \in Runs
    BY DEF Runs, Places
  <2>2. QED
    BY <2>1
<1>3. /\ e.at = "ended" /\ e.how = how /\ e.mode = r.mode /\ e.text = r.text /\ e.saw = r.saw
      /\ e.meta = r.meta /\ e.thread = r.thread /\ e.resume = r.resume
      /\ e.partial = r.partial /\ e.shown = r.shown /\ e.n = r.n
  BY <1>2 DEF Runs
<1>4. PICK s \in Runs : Sound(q, s) /\ run' = [run EXCEPT ![q] = s]
  <2>1. Said(e)
    BY <1>1, <1>3, SaidKept DEF Sound
  <2>2. Streams(q) <=> engine # "cursor" /\ r.mode = "json"
    BY <1>1 DEF Streams
  <2>3. CASE Prints(q, how)
    <3>1. e.n < MaxPieces /\ run' = [run EXCEPT ![q] = Says(e)]
      BY <1>1, <1>2, <1>3, <2>3 DEF Exit
    <3>2. how = "ok" /\ (engine = "cursor" \/ r.mode # "json")
      BY <2>2, <2>3 DEF Prints
    <3>3. Sound(q, Says(e))
      BY <1>1, <1>3, <2>1, <3>1, <3>2, SaysOne
      DEF Sound, StartsSilent, PrintsLast, NamesFirst, KnowsBegun
    <3>4. QED
      BY <3>1, <3>3, SaysOne
  <2>4. CASE ~Prints(q, how)
    <3>1. run' = [run EXCEPT ![q] = e]
      BY <1>1, <1>2, <2>4 DEF Exit
    <3>2. Sound(q, e)
      BY <1>1, <1>3, <2>1 DEF Sound, StartsSilent, PrintsLast, NamesFirst, KnowsBegun
    <3>3. QED
      BY <3>1, <3>2
  <2>5. QED
    BY <2>3, <2>4
<1>5. UNCHANGED <<engine, session, messages, dead, owner, lost, clear>>
  BY DEF Exit
<1>6. knows' \in [Threads -> SUBSET Asks]
  BY DEF Exit, IInv, TypeOK
<1>7. run' \in [Asks -> Runs] /\ \A p \in Asks : Sound(p, run[p])'
  BY <1>4, <1>5, Frame
<1>8. QED
  BY <1>5, <1>6, <1>7 DEF IInv, TypeOK, Begun

LEMMA JudgeKeeps ==
  ASSUME IInv, NEW q \in Asks, NEW err \in Ends, Judge(q, err), UNCHANGED <<engine, owner>>
  PROVE  run' \in [Asks -> Runs] /\ \A p \in Asks : Sound(p, run[p])'
<1>1. PICK r \in Runs : r = run[q] /\ Sound(q, r)
  BY DEF IInv, TypeOK
<1> DEFINE s == [r EXCEPT !.at = "judged", !.err = err]
<1>2. s \in Runs
  BY DEF Runs, Places
<1>3. Sound(q, s)
  BY <1>1 DEF Runs, Sound, Said, StartsSilent, PrintsLast, NamesFirst, KnowsBegun
<1>4. QED
  BY <1>1, <1>2, <1>3, Frame DEF Judge

LEMMA AgainKeeps ==
  ASSUME IInv, NEW q \in Asks, NEW mode \in Modes, Again(q, mode), run[q].text = <<>>,
         UNCHANGED <<engine, owner>>
  PROVE  run' \in [Asks -> Runs] /\ \A p \in Asks : Sound(p, run[p])'
<1>1. PICK r \in Runs : r = run[q] /\ Sound(q, r)
  BY DEF IInv, TypeOK
<1> DEFINE s == [r EXCEPT !.at = "start", !.mode = mode]
<1>2. s \in Runs
  BY DEF Runs, Places
<1>3. Sound(q, s)
  BY <1>1 DEF Runs, Sound, Said, StartsSilent, PrintsLast, NamesFirst, KnowsBegun
<1>4. QED
  BY <1>1, <1>2, <1>3, Frame DEF Again

LEMMA ErrorsAreEnds ==
  \A how \in Ends : ErrorOf(how) \in Ends /\ SeenAs(how) \subseteq Ends
BY DEF Ends, ErrorOf, SeenAs

\* The ids a run remembers at its end.
LEMMA EndedIds ==
  ASSUME IInv, NEW q \in Asks
  PROVE  /\ run[q] \in Runs /\ Sound(q, run[q])
         /\ run[q].meta \in Ids /\ run[q].thread \in Ids /\ run[q].how \in Ends
         /\ q \notin Light => /\ run[q].meta # Nothing => Begun(run[q].meta)
                              /\ run[q].thread # Nothing => Begun(run[q].thread)
<1>1. PICK r \in Runs : r = run[q] /\ Sound(q, r)
  BY DEF IInv, TypeOK
<1>2. QED
  BY <1>1 DEF Runs, Sound, KnowsBegun

LEMMA ClaudeStep == ASSUME IInv, NEW q \in Asks, ClaudeEnds(q) PROVE IInv'
<1>1. UNCHANGED <<engine, messages, dead, owner, lost, knows, clear>>
  BY DEF ClaudeEnds, world
<1>2. PICK err \in Ends : Judge(q, err)
  <2>1. ErrorOf(run[q].how) \in Ends /\ "ok" \in Ends
    BY EndedIds, ErrorsAreEnds DEF Ends
  <2>2. QED
    BY <2>1 DEF ClaudeEnds
<1>3. run' \in [Asks -> Runs] /\ \A p \in Asks : Sound(p, run[p])'
  BY <1>1, <1>2, JudgeKeeps
<1>4. session' \in Ids /\ (session # Nothing => Begun(session))'
  BY <1>1, EndedIds, BoundIsBegun DEF ClaudeEnds
<1>5. QED
  BY <1>1, <1>3, <1>4 DEF IInv, TypeOK

LEMMA CodexStep ==
  ASSUME IInv, NEW q \in Asks, CodexJSONEnds(q) \/ CodexTextEnds(q) PROVE IInv'
<1>1. UNCHANGED <<engine, messages, dead, owner, lost, knows, clear>>
  BY DEF CodexJSONEnds, CodexTextEnds, world
<1>2. CASE CodexJSONEnds(q)
  <2>1. run' \in [Asks -> Runs] /\ \A p \in Asks : Sound(p, run[p])'
    <3>1. CASE Judge(q, "kill") \/ Judge(q, "ok")
      BY <1>1, <3>1, JudgeKeeps DEF Ends
    <3>2. CASE CodexFails(run[q]) /\ Again(q, "text")
      <4>1. run[q].text = <<>>
        BY <1>2, <3>2, EndedIds DEF CodexJSONEnds, CodexFails, Sound, NamesFirst
      <4>2. QED
        BY <1>1, <3>2, <4>1, AgainKeeps DEF Modes
    <3>3. QED
      BY <1>2, <3>1, <3>2 DEF CodexJSONEnds
  <2>2. session' \in Ids /\ (session # Nothing => Begun(session))'
    <3>1. CASE session' = session
      BY <1>1, <3>1 DEF IInv, TypeOK, Begun
    <3>2. CASE RememberEngineMeta(q, run[q].meta)
      BY <1>1, <3>2, EndedIds, BoundIsBegun
    <3>3. QED
      BY <1>2, <3>1, <3>2 DEF CodexJSONEnds
  <2>3. QED
    BY <1>1, <2>1, <2>2 DEF IInv, TypeOK
<1>3. CASE CodexTextEnds(q)
  <2>1. PICK err \in Ends : Judge(q, err)
    BY <1>3, EndedIds, ErrorsAreEnds DEF CodexTextEnds
  <2>2. run' \in [Asks -> Runs] /\ \A p \in Asks : Sound(p, run[p])'
    BY <1>1, <2>1, JudgeKeeps
  <2>3. QED
    BY <1>1, <1>3, <2>2 DEF IInv, TypeOK, CodexTextEnds, Begun
<1>4. QED
  BY <1>2, <1>3

LEMMA GoneStep == ASSUME IInv, NEW q \in Asks, CodexGone(q) PROVE IInv'
<1>1. PICK r \in Runs : r = run[q] /\ Sound(q, r)
  BY DEF IInv, TypeOK
<1>2. PICK h \in SUBSET Asks : h = ResumeHistory(q)
  BY HistoryType DEF IInv
<1> DEFINE s == [r EXCEPT !.at = "start", !.mode = "json", !.again = TRUE,
                          !.resume = Nothing, !.hist = h]
<1>3. s \in Runs
  BY DEF Runs, Places, Modes, Ids
<1>4. r.text = <<>>
  BY <1>1 DEF CodexGone, Sound, PrintsLast
<1>5. Sound(q, s)
  BY <1>1, <1>4 DEF Runs, Sound, Said, StartsSilent, PrintsLast, NamesFirst, KnowsBegun
<1>6. run' \in [Asks -> Runs] /\ \A p \in Asks : Sound(p, run[p])'
  BY <1>1, <1>2, <1>3, <1>5, Frame DEF CodexGone, world
<1>7. QED
  BY <1>6 DEF IInv, TypeOK, CodexGone, ClearEngineMeta, world, Ids

LEMMA CursorStep == ASSUME IInv, NEW q \in Asks, CursorEnds(q) PROVE IInv'
<1>1. UNCHANGED <<engine, messages, dead, owner, lost, knows, clear>>
  BY DEF CursorEnds, world
<1>2. run' \in [Asks -> Runs] /\ \A p \in Asks : Sound(p, run[p])'
  <2>1. ASSUME NEW err \in Ends, Judge(q, err)
        PROVE  run' \in [Asks -> Runs] /\ \A p \in Asks : Sound(p, run[p])'
    BY <1>1, <2>1, JudgeKeeps
  <2>2. ASSUME run[q].how # "ok", Again(q, "text") \/ Again(q, "bare")
        PROVE  run' \in [Asks -> Runs] /\ \A p \in Asks : Sound(p, run[p])'
    <3>1. run[q].text = <<>>
      BY <2>2, EndedIds DEF CursorEnds, Sound, PrintsLast
    <3>2. QED
      BY <1>1, <2>2, <3>1, AgainKeeps DEF Modes
  <2>3. \A err \in SeenAs(run[q].how) : err \in Ends
    BY EndedIds, ErrorsAreEnds
  <2>4. "ok" \in Ends
    BY DEF Ends
  <2>5. QED
    BY <2>1, <2>2, <2>3, <2>4 DEF CursorEnds
<1>3. session' \in Ids /\ (session # Nothing => Begun(session))'
  <2>1. CASE session' = session
    BY <1>1, <2>1 DEF IInv, TypeOK, Begun
  <2>2. CASE RememberEngineMeta(q, PrintedId(q))
    <3>1. PrintedId(q) \in Ids /\ (q \notin Light /\ PrintedId(q) # Nothing => Begun(PrintedId(q)))
      BY EndedIds DEF PrintedId, Ids
    <3>2. QED
      BY <1>1, <2>2, <3>1, BoundIsBegun
  <2>3. QED
    BY <2>1, <2>2 DEF CursorEnds
<1>4. QED
  BY <1>1, <1>2, <1>3 DEF IInv, TypeOK

LEMMA RecoverStep == ASSUME IInv, NEW q \in Asks, Recover(q) PROVE IInv'
<1>1. PICK r \in Runs : r = run[q] /\ Sound(q, r)
  BY DEF IInv, TypeOK
<1>2. PICK n \in 0..MaxRecover, t \in Seq(Nat), x \in Seq(Nat) :
        n = NextTry(r) /\ t = Interrupted(r) /\ x = <<>>
  <2>1. NextTry(r) \in 0..MaxRecover
    BY <1>1, RecoverAssumption DEF Recover, MayRecover, NextTry, Runs
  <2>2. QED
    BY <1>1, <2>1, InterruptedKept, NoText DEF Sound
<1> DEFINE s == [r EXCEPT !.at = "read", !.try = n, !.partial = t, !.text = x]
<1>3. s \in Runs
  BY DEF Runs, Places
<1>4. Sound(q, s)
  <2>1. t \o x = r.shown
    BY <1>1, <1>2, InterruptedKept DEF Sound
  <2>2. Said(s)
    BY <1>1, <2>1 DEF Runs, Sound, Said
  <2>3. QED
    BY <1>1, <1>2, <2>2 DEF Runs, Sound, StartsSilent, PrintsLast, NamesFirst, KnowsBegun
<1>5. run' \in [Asks -> Runs] /\ \A p \in Asks : Sound(p, run[p])'
  BY <1>1, <1>2, <1>3, <1>4, Frame DEF Recover, world
<1>6. QED
  BY <1>5 DEF IInv, TypeOK, Recover, world, Begun

LEMMA FinishStep == ASSUME IInv, NEW q \in Asks, Finish(q) PROVE IInv'
<1>1. PICK r \in Runs : r = run[q] /\ Sound(q, r)
  BY DEF IInv, TypeOK
<1>2. PICK s \in Runs : s = Returned(r) /\ Sound(q, s)
  <2>1. PICK f \in Runs : f = Fresh /\ f.resume = Nothing /\ f.thread = Nothing /\ f.meta = Nothing
    BY FreshIsARun DEF Fresh
  <2>2. /\ r.text \in Seq(Nat) /\ r.partial \in Seq(Nat) /\ r.shown \in Seq(Nat)
        /\ r.n \in 0..MaxPieces /\ r.err \in Ends
    BY DEF Runs
  <2> DEFINE s == [f EXCEPT !.at = "done", !.text = r.text, !.partial = r.partial,
                            !.shown = r.shown, !.n = r.n, !.err = r.err]
  <2>3. s \in Runs
    BY <2>2 DEF Runs, Places
  <2>4. Sound(q, s)
    BY <1>1, <2>1 DEF Runs, Sound, Said, StartsSilent, PrintsLast, NamesFirst, KnowsBegun
  <2>5. Returned(r) = s
    BY <2>1 DEF Returned
  <2>6. QED
    BY <2>3, <2>4, <2>5
<1>3. run' \in [Asks -> Runs] /\ \A p \in Asks : Sound(p, run[p])'
  BY <1>1, <1>2, Frame DEF Finish, world
<1>4. messages' \in Seq(Rows)
  <2>1. UserRow(q) \in Rows /\ ReplyRow(q) \in Rows
    BY DEF UserRow, ReplyRow, Rows
  <2>2. SavedRows(q) \in Seq(Rows)
    BY <2>1 DEF SavedRows
  <2>3. QED
    BY <2>2, ConcatProperties DEF Finish, IInv, TypeOK
<1>5. QED
  BY <1>3, <1>4 DEF IInv, TypeOK, Finish, world, Begun

-------------------------------------------------------------------------------
LEMMA InitIInv == Init => IInv
<1> SUFFICES ASSUME Init PROVE IInv
  OBVIOUS
<1>1. Fresh \in Runs
  BY FreshIsARun
<1>2. \A q \in Asks : Sound(q, Fresh)
  <2>1. Said(Fresh)
    BY DEF Said, Fresh
  <2>2. QED
    BY <2>1 DEF Fresh, Sound, StartsSilent, PrintsLast, NamesFirst, KnowsBegun
<1>3. messages \in Seq(Rows)
  BY DEF Init
<1>4. QED
  BY <1>1, <1>2, <1>3 DEF Init, IInv, TypeOK, Ids

LEMMA NextIInv == IInv /\ [Next]_vars => IInv'
<1> SUFFICES ASSUME IInv, [Next]_vars PROVE IInv'
  OBVIOUS
<1>1. ASSUME NEW q \in Asks, Cancel(q) PROVE IInv'
  BY <1>1 DEF Cancel, world, IInv, TypeOK, Sound, Said, StartsSilent, PrintsLast, NamesFirst,
              KnowsBegun, Begun
<1>2. ASSUME NEW q \in Asks, CodeStep(q) PROVE IInv'
  BY <1>2, BeginStep, ReadStep, LeaveStep, LaunchStep, ClaudeStep, CodexStep, GoneStep,
     CursorStep, RecoverStep, FinishStep DEF CodeStep
<1>3. ASSUME NEW q \in Asks, EngineStep(q) \/ ProcessEnds(q) PROVE IInv'
  BY <1>3, AnnounceStep, SpeakStep, ExitStep DEF EngineStep, ProcessEnds
<1>4. CASE ClearRows
  <2>1. messages' \in Seq(Rows)
    BY <1>4 DEF ClearRows
  <2>2. QED
    BY <1>4, <2>1 DEF ClearRows, world, IInv, TypeOK, Sound, Said, StartsSilent, PrintsLast,
                      NamesFirst, KnowsBegun, Begun
<1>5. CASE ClearMeta
  BY <1>5 DEF ClearMeta, ClearEngineMeta, world, IInv, TypeOK, Ids, Sound, Said, StartsSilent,
              PrintsLast, NamesFirst, KnowsBegun, Begun
<1>6. ASSUME NEW t \in Threads, LoseRollout(t) PROVE IInv'
  BY <1>6 DEF LoseRollout, IInv, TypeOK, Sound, Said, StartsSilent, PrintsLast, NamesFirst,
              KnowsBegun, Begun
<1>7. CASE UNCHANGED vars
  BY <1>7 DEF vars, world, IInv, TypeOK, Sound, Said, StartsSilent, PrintsLast, NamesFirst,
              KnowsBegun, Begun
<1>8. QED
  BY <1>1, <1>2, <1>3, <1>4, <1>5, <1>6, <1>7, BeginStep DEF Next

\* The inductive invariant of every behaviour of the asks.
THEOREM InductiveInvariant == Spec => []IInv
BY InitIInv, NextIInv, PTL DEF Spec

\* The variables keep their types.
THEOREM TypeCorrect == Spec => []TypeOK
BY InductiveInvariant, PTL DEF IInv

\* Only a thread that an ask of this conversation began is ever bound to it (invoke.go:96,
\* usage.go:148).
THEOREM SessionAlwaysOurs == Spec => []SessionIsOurs
<1>1. IInv => SessionIsOurs
  BY ThreadsAssumption DEF IInv, SessionIsOurs, Begun
<1>2. QED
  BY InductiveInvariant, <1>1, PTL

\* A prompt is run again in another form only while nothing was said (codex.go:224,
\* generic.go:60).
THEOREM RepeatsAlwaysSilent == Spec => []RepeatsOnlySilent
<1>1. IInv => RepeatsOnlySilent
  BY DEF IInv, Sound, StartsSilent, RepeatsOnlySilent
<1>2. QED
  BY InductiveInvariant, <1>1, PTL

\* What a client saw is what is saved, and nothing is said twice, through every fallback
\* and every recovery.
THEOREM ShownAlwaysSaved == Spec => []ShownIsSaved
<1>1. IInv => ShownIsSaved
  <2> SUFFICES ASSUME IInv, NEW q \in Asks PROVE
        /\ Interrupted(run[q]) = run[q].shown
        /\ \A i, j \in 1..Len(run[q].shown) : run[q].shown[i] = run[q].shown[j] => i = j
    BY DEF ShownIsSaved
  <2>1. Said(run[q])
    BY DEF IInv, Sound
  <2>2. QED
    BY <2>1 DEF Said, Interrupted
<1>2. QED
  BY InductiveInvariant, <1>1, PTL

================================================================================
