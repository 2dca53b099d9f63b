----------------------------- MODULE ChainProofs -----------------------------
(***************************************************************************)
(* Theorems about Chain, for every number of events.                       *)
(***************************************************************************)
EXTENDS Chain, TLAPS

Kinds == {"File", "Direct", "Mirror", "App", "Processed", "Transformed"}
Message == [kind : Kinds, id : Int]

(***************************************************************************)
(* The inductive invariant: the types, the part of its outputs a task      *)
(* still has to send, and the two properties themselves.  A task has       *)
(* something left to send exactly while it is at "send", so neither the    *)
(* look at the stop token nor a restart finds an event in its hands.       *)
(***************************************************************************)
TypeOK ==
  /\ queue \in [Tasks -> Seq(Message)]
  /\ at \in [Tasks -> {"off", "loop", "wait", "send"}]
  /\ event \in [Tasks -> Int]
  /\ emitted \in Nat /\ done \in Seq(Int)

DirectLeft == << <<PT, "Direct">> >>
AppLeft == << <<PT, "App">> >>
NoneLeft == << >>

SendsLeft ==
  /\ DOMAIN sends = Tasks
  /\ sends[OI] \in {Outputs[OI], DirectLeft, << >>}
  /\ sends[AO] \in {Outputs[AO], AppLeft, << >>}
  /\ sends[PT] \in {Outputs[PT], << >>}
  /\ sends[TT] \in {Outputs[TT], << >>}
  /\ sends[RT] = << >>
  /\ \A t \in Tasks : at[t] = "send" <=> sends[t] # << >>

(* ApplicationObserver mirrors every event back (testThreads.hpp:153) to   *)
(* the observer's queue: each one that left its hands is there, in order.  *)
MirrorsPileUp ==
  /\ Row(queue[OI], "Mirror", 0)
  /\ Len(queue[OI]) + InHand(AO, "Mirror") = TakenFile
  /\ InHand(AO, "Mirror") = 1 => event[AO] = TakenFile

IInv == TypeOK /\ SendsLeft /\ NothingLostOrReordered /\ MirrorsPileUp

-----------------------------------------------------------------------------
(* Rows of events under the operations on queues *)

LEMMA SeqFacts ==
  ASSUME NEW S, NEW q \in Seq(S)
  PROVE  /\ DOMAIN q = 1 .. Len(q) /\ Len(q) \in Nat
         /\ \A m \in S : /\ Append(q, m) \in Seq(S) /\ Len(Append(q, m)) = Len(q) + 1
                         /\ DOMAIN Append(q, m) = 1 .. Len(q) + 1
                         /\ \A i \in 1 .. Len(q) : Append(q, m)[i] = q[i]
                         /\ Append(q, m)[Len(q) + 1] = m
         /\ q # << >> => /\ Head(q) = q[1] /\ Head(q) \in S /\ Len(q) > 0
                         /\ Tail(q) \in Seq(S) /\ Len(Tail(q)) = Len(q) - 1
                         /\ DOMAIN Tail(q) = 1 .. Len(q) - 1
                         /\ \A i \in 1 .. Len(q) - 1 : Tail(q)[i] = q[i + 1]
OBVIOUS

LEMMA RowAppend ==
  ASSUME NEW q \in Seq(Message), NEW kind, NEW lo \in Int, NEW m \in Message,
         Row(q, kind, lo), m = [kind |-> kind, id |-> lo + Len(q) + 1]
  PROVE  Row(Append(q, m), kind, lo)
<1> SUFFICES ASSUME NEW i \in DOMAIN Append(q, m)
             PROVE  Append(q, m)[i] = [kind |-> kind, id |-> lo + i]
  BY DEF Row
<1>1. CASE i \in 1 .. Len(q)
  BY <1>1, SeqFacts DEF Row
<1>2. CASE i = Len(q) + 1
  <2>1. lo + Len(q) + 1 = lo + i
    BY <1>2, SeqFacts
  <2> QED BY <1>2, <2>1, SeqFacts
<1> QED BY <1>1, <1>2, SeqFacts

LEMMA RowTail ==
  ASSUME NEW q \in Seq(Message), NEW kind, NEW lo \in Int, q # << >>, Row(q, kind, lo)
  PROVE  /\ Head(q) = [kind |-> kind, id |-> lo + 1]
         /\ Row(Tail(q), kind, lo + 1)
<1>1. Head(q) = [kind |-> kind, id |-> lo + 1]
  BY SeqFacts DEF Row
<1>2. ASSUME NEW i \in DOMAIN Tail(q)
      PROVE  Tail(q)[i] = [kind |-> kind, id |-> lo + 1 + i]
  <2>1. i \in 1 .. Len(q) - 1 /\ Tail(q)[i] = q[i + 1] /\ i + 1 \in DOMAIN q
    BY SeqFacts
  <2>2. lo + (i + 1) = lo + 1 + i
    BY <2>1, SeqFacts
  <2> QED BY <2>1, <2>2 DEF Row
<1> QED BY <1>1, <1>2 DEF Row

LEMMA MixedAppend ==
  ASSUME NEW q \in Seq(Message), NEW kind, NEW lo \in Int, NEW hi \in Int, NEW m \in Message,
         MixedRow(q, kind, lo, hi)
  PROVE  /\ m.kind # kind => MixedRow(Append(q, m), kind, lo, hi)
         /\ m.kind = kind /\ m.id = hi + 1 => MixedRow(Append(q, m), kind, lo, hi + 1)
<1> DEFINE r == Append(q, m)
           n == Len(q) + 1
           P == {i \in DOMAIN q : q[i].kind = kind}
           R == {i \in DOMAIN r : r[i].kind = kind}
<1>1. /\ lo <= hi /\ {q[i].id : i \in P} = lo + 1 .. hi
      /\ \A i, j \in P : i < j => q[i].id < q[j].id
  BY DEF MixedRow
<1>2. /\ DOMAIN r = DOMAIN q \cup {n} /\ r[n] = m /\ \A i \in DOMAIN q : r[i] = q[i]
      /\ \A i \in DOMAIN q : i \in Int /\ i < n
      /\ n \in Int
  BY SeqFacts
<1> HIDE DEF r, n
<1>3. ASSUME m.kind # kind PROVE MixedRow(r, kind, lo, hi)
  <2>1. R = P
    BY <1>2, <1>3
  <2>2. \A i \in P : r[i] = q[i]
    BY <1>2
  <2>3. {r[i].id : i \in R} = {q[i].id : i \in P}
    BY <2>1, <2>2
  <2>4. \A i, j \in R : i < j => r[i].id < r[j].id
    BY <1>1, <2>1, <2>2
  <2> QED BY <1>1, <2>3, <2>4 DEF MixedRow
<1>4. ASSUME m.kind = kind, m.id = hi + 1 PROVE MixedRow(r, kind, lo, hi + 1)
  <2>1. R = P \cup {n}
    BY <1>2, <1>4
  <2>2. \A i \in P : r[i] = q[i] /\ i < n /\ i \in Int /\ q[i].id \in lo + 1 .. hi
    BY <1>1, <1>2
  <2>3. {r[i].id : i \in R} = lo + 1 .. hi + 1
    <3>1. {r[i].id : i \in R} = {q[i].id : i \in P} \cup {hi + 1}
      BY <1>2, <1>4, <2>1, <2>2
    <3>2. (lo + 1 .. hi) \cup {hi + 1} = lo + 1 .. hi + 1
      BY <1>1
    <3> QED BY <1>1, <3>1, <3>2
  <2>4. ASSUME NEW i \in R, NEW j \in R, i < j PROVE r[i].id < r[j].id
    <3>1. i \in P
      BY <1>2, <2>1, <2>2, <2>4
    <3>2. CASE j \in P
      BY <1>1, <2>2, <2>4, <3>1, <3>2
    <3>3. CASE j = n
      BY <1>2, <1>4, <2>2, <3>1, <3>3
    <3> QED BY <2>1, <3>2, <3>3
  <2>5. lo <= hi + 1
    BY <1>1
  <2> QED BY <2>3, <2>4, <2>5 DEF MixedRow
<1> QED BY <1>3, <1>4 DEF r

LEMMA MixedTail ==
  ASSUME NEW q \in Seq(Message), NEW kind, NEW lo \in Int, NEW hi \in Int,
         q # << >>, MixedRow(q, kind, lo, hi)
  PROVE  /\ Head(q).kind # kind => MixedRow(Tail(q), kind, lo, hi)
         /\ Head(q).kind = kind => Head(q).id = lo + 1 /\ MixedRow(Tail(q), kind, lo + 1, hi)
<1> DEFINE r == Tail(q)
           P == {i \in DOMAIN q : q[i].kind = kind}
           R == {i \in DOMAIN r : r[i].kind = kind}
<1>1. /\ lo <= hi /\ {q[i].id : i \in P} = lo + 1 .. hi
      /\ \A i, j \in P : i < j => q[i].id < q[j].id
  BY DEF MixedRow
<1>2. /\ Head(q) = q[1] /\ 1 \in DOMAIN q
      /\ \A i \in DOMAIN r : i \in Int /\ i >= 1 /\ i + 1 \in DOMAIN q /\ r[i] = q[i + 1]
      /\ \A j \in DOMAIN q : j \in Int /\ j >= 1 /\ (j # 1 => j - 1 \in DOMAIN r)
  BY SeqFacts
<1> HIDE DEF r
<1>3. /\ \A i \in R : i + 1 \in P /\ i + 1 # 1 /\ r[i] = q[i + 1]
      /\ \A j \in P : j # 1 => j - 1 \in R /\ r[j - 1] = q[j]
  BY <1>2
<1>4. {r[i].id : i \in R} = {q[j].id : j \in P \ {1}}
  BY <1>3
<1>5. \A i, j \in R : i < j => r[i].id < r[j].id
  <2> SUFFICES ASSUME NEW i \in R, NEW j \in R, i < j PROVE r[i].id < r[j].id
    OBVIOUS
  <2>1. i + 1 < j + 1
    BY <1>2
  <2> QED BY <1>1, <1>3, <2>1
<1>6. ASSUME Head(q).kind # kind PROVE MixedRow(r, kind, lo, hi)
  <2>1. P \ {1} = P
    BY <1>2, <1>6
  <2> QED BY <1>1, <1>4, <1>5, <2>1 DEF MixedRow
<1>7. ASSUME Head(q).kind = kind
      PROVE  Head(q).id = lo + 1 /\ MixedRow(r, kind, lo + 1, hi)
  <2>1. /\ 1 \in P
        /\ \A j \in P : j \in Int /\ q[j].id \in lo + 1 .. hi /\ (j # 1 => q[1].id < q[j].id)
    BY <1>1, <1>2, <1>7
  <2>2. lo + 1 \in lo + 1 .. hi
    BY <1>1, <2>1
  <2>3. PICK k \in P : q[k].id = lo + 1
    BY <1>1, <2>2
  <2>4. q[1].id = lo + 1
    BY <2>1, <2>3
  <2>5. {q[j].id : j \in P \ {1}} = lo + 2 .. hi
    <3>1. \A j \in P \ {1} : q[j].id \in lo + 2 .. hi
      BY <2>1, <2>4
    <3>2. ASSUME NEW x \in lo + 2 .. hi PROVE \E j \in P \ {1} : q[j].id = x
      <4>1. x \in lo + 1 .. hi /\ x # lo + 1
        OBVIOUS
      <4>2. PICK j \in P : q[j].id = x
        BY <1>1, <4>1
      <4> QED BY <2>4, <4>1, <4>2
    <3> QED BY <3>1, <3>2
  <2>6. lo + 1 + 1 = lo + 2 /\ lo + 1 <= hi
    BY <2>2
  <2> QED BY <1>2, <1>4, <1>5, <2>4, <2>5, <2>6 DEF MixedRow
<1> QED BY <1>6, <1>7 DEF r

-----------------------------------------------------------------------------
(* Types, and what a task has left to send *)

(* What is in the hands of a task with s left to send *)
Hand(s, kind) == IF \E i \in DOMAIN s : s[i][2] = kind THEN 1 ELSE 0

LEMMA Hands ==
  /\ \A kind : Hand(<< >>, kind) = 0
  /\ Hand(Outputs[OI], "File") = 1 /\ Hand(DirectLeft, "File") = 0
  /\ Hand(Outputs[AO], "Mirror") = 1 /\ Hand(AppLeft, "Mirror") = 0
  /\ Hand(Outputs[AO], "App") = 1 /\ Hand(AppLeft, "App") = 1
  /\ Hand(Outputs[PT], "Processed") = 1
  /\ Hand(Outputs[TT], "Transformed") = 1
<1>1. \A kind : Hand(<< >>, kind) = 0
  BY DEF Hand
<1>2. \A x, k, kind : Hand(<< <<x, k>> >>, kind) = IF k = kind THEN 1 ELSE 0
  <2> TAKE x, k, kind
  <2> DEFINE s == << <<x, k>> >>
  <2>1. DOMAIN s = {1} /\ s[1][2] = k
    OBVIOUS
  <2> HIDE DEF s
  <2>2. Hand(s, kind) = IF k = kind THEN 1 ELSE 0
    BY <2>1 DEF Hand
  <2> QED BY <2>2 DEF s
<1>3. \A x, k, y, l, kind :
        Hand(<< <<x, k>>, <<y, l>> >>, kind) = IF k = kind \/ l = kind THEN 1 ELSE 0
  <2> TAKE x, k, y, l, kind
  <2> DEFINE s == << <<x, k>>, <<y, l>> >>
  <2>1. DOMAIN s = {1, 2} /\ s[1][2] = k /\ s[2][2] = l
    OBVIOUS
  <2> HIDE DEF s
  <2>2. Hand(s, kind) = IF k = kind \/ l = kind THEN 1 ELSE 0
    BY <2>1 DEF Hand
  <2> QED BY <2>2 DEF s
<1> QED BY <1>1, <1>2, <1>3 DEF DirectLeft, AppLeft, Outputs, Tasks, OI, AO, PT, TT, RT

(* A sequence of sends starts with this one and leaves that. *)
Starts(s, first, rest) ==
  s # << >> /\ Head(s) = first /\ Tail(s) = rest /\ (Len(s) = 1 <=> rest = << >>)

LEMMA OutputParts ==
  /\ Starts(Outputs[OI], <<AO, "File">>, DirectLeft)
  /\ Starts(DirectLeft, <<PT, "Direct">>, << >>)
  /\ Starts(Outputs[AO], <<OI, "Mirror">>, AppLeft)
  /\ Starts(AppLeft, <<PT, "App">>, << >>)
  /\ Starts(Outputs[PT], <<TT, "Processed">>, << >>)
  /\ Starts(Outputs[TT], <<RT, "Transformed">>, << >>)
  /\ Outputs[RT] = << >>
<1>1. \A x : Starts(<<x>>, x, << >>)
  BY DEF Starts
<1>2. \A x, y : Starts(<<x, y>>, x, <<y>>)
  BY DEF Starts
<1>3. /\ Outputs[OI] = << <<AO, "File">>, <<PT, "Direct">> >>
      /\ Outputs[AO] = << <<OI, "Mirror">>, <<PT, "App">> >>
      /\ Outputs[PT] = << <<TT, "Processed">> >>
      /\ Outputs[TT] = << <<RT, "Transformed">> >>
      /\ Outputs[RT] = << >>
  BY DEF Outputs, Tasks, OI, AO, PT, TT, RT
<1> QED BY <1>1, <1>2, <1>3 DEF DirectLeft, AppLeft

LEMMA TaskNames ==
  /\ Tasks = {OI, AO, PT, TT, RT}
  /\ OI # AO /\ OI # PT /\ OI # TT /\ OI # RT /\ AO # PT /\ AO # TT /\ AO # RT
  /\ PT # TT /\ PT # RT /\ TT # RT
BY DEF Tasks, OI, AO, PT, TT, RT

(* Which send a task is at *)
Sends(t, s, target, kind, rest) ==
  /\ sends[t] = s /\ Starts(s, <<target, kind>>, rest)
  /\ queue' = [queue EXCEPT ![target] = Append(@, [kind |-> kind, id |-> event[t]])]
  /\ sends' = [sends EXCEPT ![t] = rest]
  /\ at' = [at EXCEPT ![t] = IF rest = << >> THEN "loop" ELSE "send"]
  /\ UNCHANGED <<event, stopToken, emitted, done>>

LEMMA SendCases ==
  ASSUME SendsLeft, NEW t \in Tasks, Send(t)
  PROVE  \/ t = OI /\ Sends(OI, Outputs[OI], AO, "File", DirectLeft)
         \/ t = OI /\ Sends(OI, DirectLeft, PT, "Direct", << >>)
         \/ t = AO /\ Sends(AO, Outputs[AO], OI, "Mirror", AppLeft)
         \/ t = AO /\ Sends(AO, AppLeft, PT, "App", << >>)
         \/ t = PT /\ Sends(PT, Outputs[PT], TT, "Processed", << >>)
         \/ t = TT /\ Sends(TT, Outputs[TT], RT, "Transformed", << >>)
<1>1. sends[t] # << >>
  BY DEF SendsLeft, Send
<1>2. ASSUME NEW target, NEW kind, NEW rest, Starts(sends[t], <<target, kind>>, rest)
      PROVE  Sends(t, sends[t], target, kind, rest)
  <2>1. /\ Head(sends[t])[1] = target /\ Head(sends[t])[2] = kind /\ Tail(sends[t]) = rest
        /\ Len(sends[t]) = 1 <=> rest = << >>
    BY <1>2 DEF Starts
  <2>2. sends' = [sends EXCEPT ![t] = rest]
    BY <2>1 DEF Send
  <2>3. queue' = [queue EXCEPT ![target] = Append(@, [kind |-> kind, id |-> event[t]])]
    BY <2>1 DEF Send
  <2>4. at' = [at EXCEPT ![t] = IF rest = << >> THEN "loop" ELSE "send"]
    BY <2>1 DEF Send, Goes
  <2> QED BY <1>2, <2>2, <2>3, <2>4 DEF Sends, Send
<1>3. CASE t = OI
  <2>1. sends[t] = Outputs[OI] \/ sends[t] = DirectLeft
    BY <1>1, <1>3 DEF SendsLeft
  <2> QED BY <1>2, <1>3, <2>1, OutputParts
<1>4. CASE t = AO
  <2>1. sends[t] = Outputs[AO] \/ sends[t] = AppLeft
    BY <1>1, <1>4 DEF SendsLeft
  <2> QED BY <1>2, <1>4, <2>1, OutputParts
<1>5. CASE t = PT
  BY <1>1, <1>2, <1>5, OutputParts DEF SendsLeft
<1>6. CASE t = TT
  BY <1>1, <1>2, <1>6, OutputParts DEF SendsLeft
<1>7. t # RT
  BY <1>1 DEF SendsLeft
<1> QED BY <1>3, <1>4, <1>5, <1>6, <1>7, TaskNames

(* Which message a task takes: its own kind, or one it drops *)
Takes(t, msg) ==
  /\ at[t] = "wait" /\ queue[t] # << >> /\ msg = Head(queue[t])
  /\ queue' = [queue EXCEPT ![t] = Tail(@)]
  /\ UNCHANGED <<stopToken, emitted>>

Handled(t, msg) ==
  /\ Takes(t, msg)
  /\ msg.kind = Handles[t]
  /\ event' = [event EXCEPT ![t] = msg.id]
  /\ sends' = [sends EXCEPT ![t] = Outputs[t]]
  /\ at' = [at EXCEPT ![t] = IF t = RT THEN "loop" ELSE "send"]
  /\ done' = IF t = RT THEN Append(done, msg.id) ELSE done

Dropped(t, msg) ==
  /\ Takes(t, msg)
  /\ msg.kind # Handles[t]
  /\ at' = [at EXCEPT ![t] = "loop"]
  /\ UNCHANGED <<event, sends, done>>

LEMMA ReceiveCases ==
  ASSUME TypeOK, NEW t \in Tasks, Receive(t)
  PROVE  \E msg \in Message : Handled(t, msg) \/ Dropped(t, msg)
<1>1. queue[t] \in Seq(Message) /\ queue[t] # << >>
  BY DEF TypeOK, Receive
<1>2. Head(queue[t]) \in Message
  BY <1>1
<1> QED BY <1>2 DEF Receive, Handled, Dropped, Takes, Goes

(* A step that leaves the queues and what is in hand alone *)
Quiet == UNCHANGED <<queue, event, sends, emitted, done>>

LEMMA QuietCases ==
  ASSUME TypeOK, SendsLeft,
         \/ \E t \in Tasks : LoopHead(t) \/ NoMessage(t)
         \/ Paused \/ StopAll \/ UNCHANGED vars
  PROVE  Quiet /\ TypeOK' /\ SendsLeft'
<1>1. Quiet
  BY DEF LoopHead, NoMessage, Paused, StopAll, vars, taskVars, Quiet
<1>2. /\ at' \in [Tasks -> {"off", "loop", "wait", "send"}]
      /\ \A t \in Tasks : at'[t] = "send" <=> at[t] = "send"
  <2>1. ASSUME NEW t \in Tasks, LoopHead(t) \/ NoMessage(t)
        PROVE  /\ at' \in [Tasks -> {"off", "loop", "wait", "send"}]
               /\ \A u \in Tasks : at'[u] = "send" <=> at[u] = "send"
    BY <2>1 DEF LoopHead, NoMessage, Goes, TypeOK
  <2>2. CASE Paused
    BY <2>2, TaskNames DEF Paused, Goes, TypeOK
  <2>3. CASE StopAll \/ UNCHANGED vars
    BY <2>3 DEF StopAll, vars, taskVars, TypeOK
  <2> QED BY <2>1, <2>2, <2>3
<1> QED BY <1>1, <1>2 DEF Quiet, TypeOK, SendsLeft

(* The sends of one task change together with its position. *)
LEMMA SendsStep ==
  ASSUME TypeOK, SendsLeft, NEW t \in Tasks, NEW s, NEW p,
         sends' = [sends EXCEPT ![t] = s], at' = [at EXCEPT ![t] = p],
         p = "send" <=> s # << >>,
         t = OI => s \in {Outputs[OI], DirectLeft, << >>},
         t = AO => s \in {Outputs[AO], AppLeft, << >>},
         t = PT => s \in {Outputs[PT], << >>},
         t = TT => s \in {Outputs[TT], << >>},
         t = RT => s = << >>
  PROVE  SendsLeft'
<1>1. /\ DOMAIN sends = Tasks /\ DOMAIN at = Tasks
      /\ DOMAIN sends' = Tasks
      /\ \A u \in Tasks : sends'[u] = IF u = t THEN s ELSE sends[u]
      /\ \A u \in Tasks : at'[u] = IF u = t THEN p ELSE at[u]
  BY DEF TypeOK, SendsLeft
<1>2. /\ OI \in Tasks /\ AO \in Tasks /\ PT \in Tasks /\ TT \in Tasks /\ RT \in Tasks
  BY TaskNames
<1>3. \A u \in Tasks : at'[u] = "send" <=> sends'[u] # << >>
  BY <1>1 DEF SendsLeft
<1> QED BY <1>1, <1>2, <1>3 DEF SendsLeft

LEMMA SendStep ==
  ASSUME TypeOK, SendsLeft, NEW t \in Tasks, NEW s, NEW target \in Tasks,
         NEW kind \in Kinds, NEW rest, Sends(t, s, target, kind, rest)
  PROVE  TypeOK'
<1>1. [kind |-> kind, id |-> event[t]] \in Message
  BY DEF TypeOK, Message
<1>2. queue' \in [Tasks -> Seq(Message)]
  BY <1>1 DEF TypeOK, Sends
<1>3. at' \in [Tasks -> {"off", "loop", "wait", "send"}]
  BY DEF TypeOK, Sends
<1> QED BY <1>2, <1>3 DEF TypeOK, Sends

LEMMA TypeStep == TypeOK /\ SendsLeft /\ [Next]_vars => TypeOK' /\ SendsLeft'
<1> SUFFICES ASSUME TypeOK, SendsLeft, [Next]_vars PROVE TypeOK' /\ SendsLeft'
  OBVIOUS
<1>1. CASE Emit
  <2>1. SendsLeft'
    <3>1. Outputs[OI] # << >>
      BY OutputParts DEF Starts
    <3> QED BY <1>1, <3>1, SendsStep, TaskNames DEF Emit, Goes
  <2>2. TypeOK'
    BY <1>1, TaskNames DEF Emit, Goes, TypeOK
  <2> QED BY <2>1, <2>2
<1>2. ASSUME NEW t \in Tasks, Send(t) PROVE TypeOK' /\ SendsLeft'
  <2>1. ASSUME NEW u \in Tasks, NEW s, NEW target \in Tasks, NEW kind \in Kinds, NEW rest,
               Sends(u, s, target, kind, rest),
               u = OI => rest \in {DirectLeft, << >>}, u = AO => rest \in {AppLeft, << >>},
               u \in {PT, TT, RT} => rest = << >>
        PROVE  TypeOK' /\ SendsLeft'
    <3>1. TypeOK'
      BY <2>1, SendStep
    <3> DEFINE p == IF rest = << >> THEN "loop" ELSE "send"
    <3>2. sends' = [sends EXCEPT ![u] = rest] /\ at' = [at EXCEPT ![u] = p]
      BY <2>1 DEF Sends
    <3>3. p = "send" <=> rest # << >>
      OBVIOUS
    <3> HIDE DEF p
    <3>4. SendsLeft'
      BY <2>1, <3>2, <3>3, SendsStep
    <3> QED BY <3>1, <3>4
  <2> USE TaskNames
  <2>2. "File" \in Kinds /\ "Direct" \in Kinds /\ "Mirror" \in Kinds /\ "App" \in Kinds
        /\ "Processed" \in Kinds /\ "Transformed" \in Kinds
    BY DEF Kinds
  <2>3. CASE Sends(OI, Outputs[OI], AO, "File", DirectLeft)
    BY <2>1, <2>2, <2>3
  <2>4. CASE Sends(OI, DirectLeft, PT, "Direct", << >>)
    BY <2>1, <2>2, <2>4
  <2>5. CASE Sends(AO, Outputs[AO], OI, "Mirror", AppLeft)
    BY <2>1, <2>2, <2>5
  <2>6. CASE Sends(AO, AppLeft, PT, "App", << >>)
    BY <2>1, <2>2, <2>6
  <2>7. CASE Sends(PT, Outputs[PT], TT, "Processed", << >>)
    BY <2>1, <2>2, <2>7
  <2>8. CASE Sends(TT, Outputs[TT], RT, "Transformed", << >>)
    BY <2>1, <2>2, <2>8
  <2> QED BY <1>2, <2>3, <2>4, <2>5, <2>6, <2>7, <2>8, SendCases
<1>3. ASSUME NEW t \in Tasks \ {OI}, Receive(t) PROVE TypeOK' /\ SendsLeft'
  <2>1. PICK msg \in Message : Handled(t, msg) \/ Dropped(t, msg)
    BY <1>3, ReceiveCases
  <2>2. msg.id \in Int /\ queue[t] \in Seq(Message) /\ Takes(t, msg)
    BY <2>1 DEF Message, TypeOK, Handled, Dropped
  <2>3. queue' \in [Tasks -> Seq(Message)]
    <3>1. Tail(queue[t]) \in Seq(Message)
      BY <2>2, SeqFacts DEF Takes
    <3> QED BY <2>2, <3>1 DEF Takes, TypeOK
  <2>4. CASE Handled(t, msg)
    <3>1. TypeOK'
      BY <2>2, <2>3, <2>4 DEF Handled, Takes, TypeOK
    <3> DEFINE p == IF t = RT THEN "loop" ELSE "send"
    <3>2. sends' = [sends EXCEPT ![t] = Outputs[t]] /\ at' = [at EXCEPT ![t] = p]
      BY <2>4 DEF Handled
    <3>3. p = "send" <=> Outputs[t] # << >>
      BY <1>3, OutputParts, TaskNames DEF Starts
    <3> HIDE DEF p
    <3>4. SendsLeft'
      BY <3>2, <3>3, SendsStep, OutputParts
    <3> QED BY <3>1, <3>4
  <2>5. CASE Dropped(t, msg)
    <3>1. TypeOK'
      BY <2>2, <2>3, <2>5 DEF Dropped, Takes, TypeOK
    <3>2. SendsLeft'
      <4>1. \A u \in Tasks : at'[u] = "send" <=> at[u] = "send"
        BY <2>2, <2>5 DEF Dropped, Takes, TypeOK
      <4> QED BY <2>5, <4>1 DEF Dropped, SendsLeft
    <3> QED BY <3>1, <3>2
  <2> QED BY <2>1, <2>4, <2>5
<1>4. CASE RestartAll
  <2>1. TypeOK'
    BY <1>4 DEF RestartAll, TypeOK
  <2> QED BY <1>4, <2>1, TaskNames DEF RestartAll, SendsLeft
<1>5. CASE \/ \E t \in Tasks : LoopHead(t) \/ NoMessage(t)
           \/ Paused \/ StopAll \/ UNCHANGED vars
  BY <1>5, QuietCases
<1> QED BY <1>1, <1>2, <1>3, <1>4, <1>5, TaskNames DEF Next, Observe, Relay

-----------------------------------------------------------------------------
(* Lengths the arithmetic below does not look into *)
Waiting(t) == Len(queue[t])
Reported == Len(done)

(* The places of the chain in numbers, in one state *)
Numbers ==
  /\ emitted \in Nat /\ Reported \in Nat
  /\ Waiting(OI) \in Nat /\ Waiting(AO) \in Nat
  /\ Waiting(TT) \in Nat /\ Waiting(RT) \in Nat
  /\ Hand(sends[OI], "File") \in Int /\ Hand(sends[AO], "App") \in Int
  /\ Hand(sends[PT], "Processed") \in Int /\ Hand(sends[TT], "Transformed") \in Int
  /\ SentFile = emitted - Hand(sends[OI], "File")
  /\ TakenFile = SentFile - Waiting(AO)
  /\ SentApp = TakenFile - Hand(sends[AO], "App")
  /\ SentTransformed = Reported + Waiting(RT)
  /\ TakenProcessed = SentTransformed + Hand(sends[TT], "Transformed")
  /\ SentProcessed = TakenProcessed + Waiting(TT)
  /\ TakenApp = SentProcessed + Hand(sends[PT], "Processed")
  /\ SentFile \in Int /\ TakenFile \in Int /\ SentApp \in Int /\ SentTransformed \in Int
  /\ TakenProcessed \in Int /\ SentProcessed \in Int /\ TakenApp \in Int

(* The two properties, with what is in hand read off the sends *)
InOrder ==
  /\ \A i \in DOMAIN done : done[i] = i
  /\ Row(queue[RT], "Transformed", Reported)
  /\ Hand(sends[TT], "Transformed") = 1 => event[TT] = TakenProcessed
  /\ Row(queue[TT], "Processed", TakenProcessed)
  /\ Hand(sends[PT], "Processed") = 1 => event[PT] = TakenApp
  /\ MixedRow(queue[PT], "App", TakenApp, SentApp)
  /\ Hand(sends[AO], "App") = 1 => event[AO] = TakenFile
  /\ Row(queue[AO], "File", TakenFile)
  /\ Hand(sends[OI], "File") = 1 => event[OI] = emitted

Mirrored ==
  /\ Row(queue[OI], "Mirror", 0)
  /\ Waiting(OI) + Hand(sends[AO], "Mirror") = TakenFile
  /\ Hand(sends[AO], "Mirror") = 1 => event[AO] = TakenFile

LEMMA HandBit == \A s, kind : Hand(s, kind) \in {0, 1}
BY DEF Hand

LEMMA InHandIsHand == \A t, kind : InHand(t, kind) = Hand(sends[t], kind)
BY DEF InHand, Hand

LEMMA NumbersFollow == TypeOK => Numbers
<1> SUFFICES ASSUME TypeOK PROVE Numbers
  OBVIOUS
<1>1. emitted \in Nat /\ Reported \in Nat /\ \A t \in Tasks : Waiting(t) \in Nat
  BY DEF TypeOK, Waiting, Reported
<1>2. /\ SentFile = emitted - Hand(sends[OI], "File")
      /\ TakenFile = SentFile - Waiting(AO)
      /\ SentApp = TakenFile - Hand(sends[AO], "App")
      /\ SentTransformed = Reported + Waiting(RT)
      /\ TakenProcessed = SentTransformed + Hand(sends[TT], "Transformed")
      /\ SentProcessed = TakenProcessed + Waiting(TT)
      /\ TakenApp = SentProcessed + Hand(sends[PT], "Processed")
  BY InHandIsHand DEF SentFile, TakenFile, SentApp, SentTransformed, TakenProcessed,
     SentProcessed, TakenApp, Waiting, Reported
<1>3. SentFile \in Int /\ SentTransformed \in Int
  BY <1>1, <1>2, HandBit, TaskNames
<1>4. TakenFile \in Int /\ TakenProcessed \in Int
  BY <1>1, <1>2, <1>3, HandBit, TaskNames
<1>5. SentApp \in Int /\ SentProcessed \in Int
  BY <1>1, <1>2, <1>4, HandBit, TaskNames
<1>6. TakenApp \in Int
  BY <1>2, <1>5, HandBit
<1>7. \A s, kind : Hand(s, kind) \in Int
  BY HandBit
<1> QED BY <1>1, <1>2, <1>3, <1>4, <1>5, <1>6, <1>7, TaskNames DEF Numbers

LEMMA InOrderIs ==
  (NothingLostOrReordered <=> InOrder) /\ (MirrorsPileUp <=> Mirrored)
BY InHandIsHand DEF NothingLostOrReordered, InOrder, MirrorsPileUp, Mirrored,
   Waiting, Reported

(* What a step may assume, and what it has to keep besides TypeOK *)
Good == TypeOK /\ SendsLeft /\ Numbers /\ InOrder /\ Mirrored

(* The observer sends a file event: the newest one. *)
LEMMA SendFile ==
  ASSUME Good, Numbers', Sends(OI, Outputs[OI], AO, "File", DirectLeft)
  PROVE  InOrder' /\ Mirrored'
<1>0. TypeOK /\ SendsLeft /\ Numbers /\ InOrder /\ Mirrored
  BY DEF Good
<1>1. /\ DOMAIN queue = Tasks /\ DOMAIN sends = Tasks /\ queue[AO] \in Seq(Message)
      /\ [kind |-> "File", id |-> event[OI]] \in Message
  BY <1>0, TaskNames DEF TypeOK, SendsLeft, Message, Kinds
<1>2. /\ queue'[AO] = Append(queue[AO], [kind |-> "File", id |-> event[OI]])
      /\ \A t \in Tasks \ {AO} : queue'[t] = queue[t]
      /\ sends[OI] = Outputs[OI] /\ sends'[OI] = DirectLeft
      /\ \A t \in Tasks \ {OI} : sends'[t] = sends[t]
      /\ UNCHANGED <<event, emitted, done>>
  BY <1>1, TaskNames DEF Sends
<1>3. Waiting(AO)' = Waiting(AO) + 1
  BY <1>1, <1>2, SeqFacts DEF Waiting
<1>4. Hand(sends[OI], "File") = 1 /\ Hand(sends'[OI], "File") = 0
  BY <1>2, Hands DEF NoneLeft
<1>5. /\ Hand(sends'[AO], "App") = Hand(sends[AO], "App")
      /\ Hand(sends'[PT], "Processed") = Hand(sends[PT], "Processed")
      /\ Hand(sends'[TT], "Transformed") = Hand(sends[TT], "Transformed")
      /\ Waiting(OI)' = Waiting(OI) /\ Waiting(TT)' = Waiting(TT)
      /\ Waiting(RT)' = Waiting(RT)
      /\ emitted' = emitted /\ Reported' = Reported
  BY <1>2, TaskNames DEF Waiting, Reported
<1>6. /\ queue'[OI] = queue[OI] /\ queue'[PT] = queue[PT] /\ queue'[TT] = queue[TT]
      /\ queue'[RT] = queue[RT] /\ done' = done
  BY <1>2, TaskNames
<1>7. /\ SentFile' = SentFile + 1 /\ TakenFile' = TakenFile /\ SentApp' = SentApp
      /\ TakenProcessed' = TakenProcessed /\ TakenApp' = TakenApp
  BY <1>0, <1>3, <1>4, <1>5 DEF Numbers
<1>8. Row(queue'[AO], "File", TakenFile)
  <2>1. event[OI] = TakenFile + Waiting(AO) + 1
    BY <1>0, <1>4 DEF InOrder, Numbers
  <2>2. TakenFile \in Int /\ Row(queue[AO], "File", TakenFile)
    BY <1>0 DEF InOrder, Numbers
  <2> QED BY <1>1, <1>2, <2>1, <2>2, RowAppend DEF Waiting
<1>9. InOrder'
  BY <1>0, <1>2, <1>4, <1>5, <1>6, <1>7, <1>8, TaskNames DEF InOrder
<1>10. Mirrored'
  BY <1>0, <1>2, <1>5, <1>6, <1>7, TaskNames DEF Mirrored
<1> QED BY <1>9, <1>10

(* The DirectEvent goes past the observer's neighbour and counts for nothing. *)
LEMMA SendDirect ==
  ASSUME Good, Numbers', Sends(OI, DirectLeft, PT, "Direct", NoneLeft)
  PROVE  InOrder' /\ Mirrored'
<1>0. TypeOK /\ SendsLeft /\ Numbers /\ InOrder /\ Mirrored
  BY DEF Good
<1>1. /\ DOMAIN queue = Tasks /\ DOMAIN sends = Tasks /\ queue[PT] \in Seq(Message)
      /\ [kind |-> "Direct", id |-> event[OI]] \in Message
  BY <1>0, TaskNames DEF TypeOK, SendsLeft, Message, Kinds
<1>2. /\ queue'[PT] = Append(queue[PT], [kind |-> "Direct", id |-> event[OI]])
      /\ \A t \in Tasks \ {PT} : queue'[t] = queue[t]
      /\ sends[OI] = DirectLeft /\ sends'[OI] = NoneLeft
      /\ \A t \in Tasks \ {OI} : sends'[t] = sends[t]
      /\ UNCHANGED <<event, emitted, done>>
  BY <1>1, TaskNames DEF Sends
<1>3. Waiting(PT)' = Waiting(PT) + 1
  BY <1>1, <1>2, SeqFacts DEF Waiting
<1>4. Hand(sends[OI], "File") = 0 /\ Hand(sends'[OI], "File") = 0
  BY <1>2, Hands DEF NoneLeft
<1>5. /\ Hand(sends'[AO], "App") = Hand(sends[AO], "App")
      /\ Hand(sends'[PT], "Processed") = Hand(sends[PT], "Processed")
      /\ Hand(sends'[TT], "Transformed") = Hand(sends[TT], "Transformed")
      /\ Waiting(OI)' = Waiting(OI) /\ Waiting(AO)' = Waiting(AO)
      /\ Waiting(TT)' = Waiting(TT) /\ Waiting(RT)' = Waiting(RT)
      /\ emitted' = emitted /\ Reported' = Reported
  BY <1>2, TaskNames DEF Waiting, Reported
<1>6. /\ queue'[OI] = queue[OI] /\ queue'[AO] = queue[AO] /\ queue'[TT] = queue[TT]
      /\ queue'[RT] = queue[RT] /\ done' = done
  BY <1>2, TaskNames
<1>7. /\ SentFile' = SentFile /\ TakenFile' = TakenFile /\ SentApp' = SentApp
      /\ TakenProcessed' = TakenProcessed /\ TakenApp' = TakenApp
  BY <1>0, <1>3, <1>4, <1>5 DEF Numbers
<1>8. MixedRow(queue'[PT], "App", TakenApp, SentApp)
  <2>1. /\ TakenApp \in Int /\ SentApp \in Int
        /\ MixedRow(queue[PT], "App", TakenApp, SentApp)
    BY <1>0 DEF InOrder, Numbers
  <2> QED BY <1>1, <1>2, <2>1, MixedAppend
<1>9. InOrder'
  BY <1>0, <1>2, <1>4, <1>5, <1>6, <1>7, <1>8, TaskNames DEF InOrder
<1>10. Mirrored'
  BY <1>0, <1>2, <1>5, <1>6, <1>7, TaskNames DEF Mirrored
<1> QED BY <1>9, <1>10

(* ApplicationObserver mirrors the event it holds. *)
LEMMA SendMirror ==
  ASSUME Good, Numbers', Sends(AO, Outputs[AO], OI, "Mirror", AppLeft)
  PROVE  InOrder' /\ Mirrored'
<1>0. TypeOK /\ SendsLeft /\ Numbers /\ InOrder /\ Mirrored
  BY DEF Good
<1>1. /\ DOMAIN queue = Tasks /\ DOMAIN sends = Tasks /\ queue[OI] \in Seq(Message)
      /\ [kind |-> "Mirror", id |-> event[AO]] \in Message
  BY <1>0, TaskNames DEF TypeOK, SendsLeft, Message, Kinds
<1>2. /\ queue'[OI] = Append(queue[OI], [kind |-> "Mirror", id |-> event[AO]])
      /\ \A t \in Tasks \ {OI} : queue'[t] = queue[t]
      /\ sends[AO] = Outputs[AO] /\ sends'[AO] = AppLeft
      /\ \A t \in Tasks \ {AO} : sends'[t] = sends[t]
      /\ UNCHANGED <<event, emitted, done>>
  BY <1>1, TaskNames DEF Sends
<1>3. Waiting(OI)' = Waiting(OI) + 1
  BY <1>1, <1>2, SeqFacts DEF Waiting
<1>4. /\ Hand(sends[AO], "Mirror") = 1 /\ Hand(sends'[AO], "Mirror") = 0
      /\ Hand(sends[AO], "App") = 1 /\ Hand(sends'[AO], "App") = 1
  BY <1>2, Hands DEF NoneLeft
<1>5. /\ Hand(sends'[OI], "File") = Hand(sends[OI], "File")
      /\ Hand(sends'[PT], "Processed") = Hand(sends[PT], "Processed")
      /\ Hand(sends'[TT], "Transformed") = Hand(sends[TT], "Transformed")
      /\ Waiting(AO)' = Waiting(AO) /\ Waiting(TT)' = Waiting(TT)
      /\ Waiting(RT)' = Waiting(RT)
      /\ emitted' = emitted /\ Reported' = Reported
  BY <1>2, TaskNames DEF Waiting, Reported
<1>6. /\ queue'[AO] = queue[AO] /\ queue'[PT] = queue[PT] /\ queue'[TT] = queue[TT]
      /\ queue'[RT] = queue[RT] /\ done' = done
  BY <1>2, TaskNames
<1>7. /\ SentFile' = SentFile /\ TakenFile' = TakenFile /\ SentApp' = SentApp
      /\ TakenProcessed' = TakenProcessed /\ TakenApp' = TakenApp
  BY <1>0, <1>3, <1>4, <1>5 DEF Numbers
<1>8. Row(queue'[OI], "Mirror", 0)
  <2>1. event[AO] = 0 + Waiting(OI) + 1
    BY <1>0, <1>4 DEF Mirrored, Numbers
  <2>2. Row(queue[OI], "Mirror", 0)
    BY <1>0 DEF Mirrored
  <2> QED BY <1>1, <1>2, <2>1, <2>2, RowAppend DEF Waiting
<1>9. InOrder'
  BY <1>0, <1>2, <1>4, <1>5, <1>6, <1>7, TaskNames DEF InOrder
<1>10. Mirrored'
  BY <1>0, <1>2, <1>3, <1>4, <1>5, <1>6, <1>7, <1>8, TaskNames DEF Mirrored, Numbers
<1> QED BY <1>9, <1>10

(* It passes the event on, behind those Processing has not taken yet. *)
LEMMA SendApp ==
  ASSUME Good, Numbers', Sends(AO, AppLeft, PT, "App", NoneLeft)
  PROVE  InOrder' /\ Mirrored'
<1>0. TypeOK /\ SendsLeft /\ Numbers /\ InOrder /\ Mirrored
  BY DEF Good
<1>1. /\ DOMAIN queue = Tasks /\ DOMAIN sends = Tasks /\ queue[PT] \in Seq(Message)
      /\ [kind |-> "App", id |-> event[AO]] \in Message
  BY <1>0, TaskNames DEF TypeOK, SendsLeft, Message, Kinds
<1>2. /\ queue'[PT] = Append(queue[PT], [kind |-> "App", id |-> event[AO]])
      /\ \A t \in Tasks \ {PT} : queue'[t] = queue[t]
      /\ sends[AO] = AppLeft /\ sends'[AO] = NoneLeft
      /\ \A t \in Tasks \ {AO} : sends'[t] = sends[t]
      /\ UNCHANGED <<event, emitted, done>>
  BY <1>1, TaskNames DEF Sends
<1>3. Waiting(PT)' = Waiting(PT) + 1
  BY <1>1, <1>2, SeqFacts DEF Waiting
<1>4. /\ Hand(sends[AO], "Mirror") = 0 /\ Hand(sends'[AO], "Mirror") = 0
      /\ Hand(sends[AO], "App") = 1 /\ Hand(sends'[AO], "App") = 0
  BY <1>2, Hands DEF NoneLeft
<1>5. /\ Hand(sends'[OI], "File") = Hand(sends[OI], "File")
      /\ Hand(sends'[PT], "Processed") = Hand(sends[PT], "Processed")
      /\ Hand(sends'[TT], "Transformed") = Hand(sends[TT], "Transformed")
      /\ Waiting(OI)' = Waiting(OI) /\ Waiting(AO)' = Waiting(AO)
      /\ Waiting(TT)' = Waiting(TT) /\ Waiting(RT)' = Waiting(RT)
      /\ emitted' = emitted /\ Reported' = Reported
  BY <1>2, TaskNames DEF Waiting, Reported
<1>6. /\ queue'[OI] = queue[OI] /\ queue'[AO] = queue[AO] /\ queue'[TT] = queue[TT]
      /\ queue'[RT] = queue[RT] /\ done' = done
  BY <1>2, TaskNames
<1>7. /\ SentFile' = SentFile /\ TakenFile' = TakenFile /\ SentApp' = SentApp + 1
      /\ TakenProcessed' = TakenProcessed /\ TakenApp' = TakenApp
  BY <1>0, <1>3, <1>4, <1>5 DEF Numbers
<1>8. MixedRow(queue'[PT], "App", TakenApp, SentApp + 1)
  <2>1. /\ TakenApp \in Int /\ SentApp \in Int
        /\ MixedRow(queue[PT], "App", TakenApp, SentApp)
    BY <1>0 DEF InOrder, Numbers
  <2>2. event[AO] = SentApp + 1
    <3>1. event[AO] = TakenFile
      BY <1>0, <1>4 DEF InOrder
    <3> QED BY <1>0, <1>4, <3>1 DEF Numbers
  <2> QED BY <1>1, <1>2, <2>1, <2>2, MixedAppend
<1>9. InOrder'
  BY <1>0, <1>2, <1>4, <1>5, <1>6, <1>7, <1>8, TaskNames DEF InOrder
<1>10. Mirrored'
  BY <1>0, <1>2, <1>4, <1>5, <1>6, <1>7, TaskNames DEF Mirrored
<1> QED BY <1>9, <1>10

(* Processing passes its event on. *)
LEMMA SendProcessed ==
  ASSUME Good, Numbers', Sends(PT, Outputs[PT], TT, "Processed", NoneLeft)
  PROVE  InOrder' /\ Mirrored'
<1>0. TypeOK /\ SendsLeft /\ Numbers /\ InOrder /\ Mirrored
  BY DEF Good
<1>1. /\ DOMAIN queue = Tasks /\ DOMAIN sends = Tasks /\ queue[TT] \in Seq(Message)
      /\ [kind |-> "Processed", id |-> event[PT]] \in Message
  BY <1>0, TaskNames DEF TypeOK, SendsLeft, Message, Kinds
<1>2. /\ queue'[TT] = Append(queue[TT], [kind |-> "Processed", id |-> event[PT]])
      /\ \A t \in Tasks \ {TT} : queue'[t] = queue[t]
      /\ sends[PT] = Outputs[PT] /\ sends'[PT] = NoneLeft
      /\ \A t \in Tasks \ {PT} : sends'[t] = sends[t]
      /\ UNCHANGED <<event, emitted, done>>
  BY <1>1, TaskNames DEF Sends
<1>3. Waiting(TT)' = Waiting(TT) + 1
  BY <1>1, <1>2, SeqFacts DEF Waiting
<1>4. Hand(sends[PT], "Processed") = 1 /\ Hand(sends'[PT], "Processed") = 0
  BY <1>2, Hands DEF NoneLeft
<1>5. /\ Hand(sends'[OI], "File") = Hand(sends[OI], "File")
      /\ Hand(sends'[AO], "App") = Hand(sends[AO], "App")
      /\ Hand(sends'[TT], "Transformed") = Hand(sends[TT], "Transformed")
      /\ Waiting(OI)' = Waiting(OI) /\ Waiting(AO)' = Waiting(AO)
      /\ Waiting(RT)' = Waiting(RT)
      /\ emitted' = emitted /\ Reported' = Reported
  BY <1>2, TaskNames DEF Waiting, Reported
<1>6. /\ queue'[OI] = queue[OI] /\ queue'[AO] = queue[AO] /\ queue'[PT] = queue[PT]
      /\ queue'[RT] = queue[RT] /\ done' = done
  BY <1>2, TaskNames
<1>7. /\ SentFile' = SentFile /\ TakenFile' = TakenFile /\ SentApp' = SentApp
      /\ TakenProcessed' = TakenProcessed /\ TakenApp' = TakenApp
  <2>1. SentFile' = SentFile /\ SentTransformed' = SentTransformed
    BY <1>0, <1>3, <1>5 DEF Numbers
  <2>2. TakenFile' = TakenFile /\ TakenProcessed' = TakenProcessed
    BY <1>0, <1>4, <1>5, <2>1 DEF Numbers
  <2>3. SentApp' = SentApp /\ SentProcessed' = SentProcessed + 1
    BY <1>0, <1>3, <1>5, <2>2 DEF Numbers
  <2> QED BY <1>0, <1>4, <1>5, <2>1, <2>2, <2>3 DEF Numbers
<1>8. Row(queue'[TT], "Processed", TakenProcessed)
  <2>1. event[PT] = TakenProcessed + Waiting(TT) + 1
    BY <1>0, <1>4 DEF InOrder, Numbers
  <2>2. TakenProcessed \in Int /\ Row(queue[TT], "Processed", TakenProcessed)
    BY <1>0 DEF InOrder, Numbers
  <2> QED BY <1>1, <1>2, <2>1, <2>2, RowAppend DEF Waiting
<1>9. InOrder'
  BY <1>0, <1>2, <1>4, <1>5, <1>6, <1>7, <1>8, TaskNames DEF InOrder
<1>10. Mirrored'
  BY <1>0, <1>2, <1>5, <1>6, <1>7, TaskNames DEF Mirrored
<1> QED BY <1>9, <1>10

(* Transformation passes its event on. *)
LEMMA SendTransformed ==
  ASSUME Good, Numbers', Sends(TT, Outputs[TT], RT, "Transformed", NoneLeft)
  PROVE  InOrder' /\ Mirrored'
<1>0. TypeOK /\ SendsLeft /\ Numbers /\ InOrder /\ Mirrored
  BY DEF Good
<1>1. /\ DOMAIN queue = Tasks /\ DOMAIN sends = Tasks /\ queue[RT] \in Seq(Message)
      /\ [kind |-> "Transformed", id |-> event[TT]] \in Message
  BY <1>0, TaskNames DEF TypeOK, SendsLeft, Message, Kinds
<1>2. /\ queue'[RT] = Append(queue[RT], [kind |-> "Transformed", id |-> event[TT]])
      /\ \A t \in Tasks \ {RT} : queue'[t] = queue[t]
      /\ sends[TT] = Outputs[TT] /\ sends'[TT] = NoneLeft
      /\ \A t \in Tasks \ {TT} : sends'[t] = sends[t]
      /\ UNCHANGED <<event, emitted, done>>
  BY <1>1, TaskNames DEF Sends
<1>3. Waiting(RT)' = Waiting(RT) + 1
  BY <1>1, <1>2, SeqFacts DEF Waiting
<1>4. Hand(sends[TT], "Transformed") = 1 /\ Hand(sends'[TT], "Transformed") = 0
  BY <1>2, Hands DEF NoneLeft
<1>5. /\ Hand(sends'[OI], "File") = Hand(sends[OI], "File")
      /\ Hand(sends'[AO], "App") = Hand(sends[AO], "App")
      /\ Hand(sends'[PT], "Processed") = Hand(sends[PT], "Processed")
      /\ Waiting(OI)' = Waiting(OI) /\ Waiting(AO)' = Waiting(AO)
      /\ Waiting(TT)' = Waiting(TT)
      /\ emitted' = emitted /\ Reported' = Reported
  BY <1>2, TaskNames DEF Waiting, Reported
<1>6. /\ queue'[OI] = queue[OI] /\ queue'[AO] = queue[AO] /\ queue'[PT] = queue[PT]
      /\ queue'[TT] = queue[TT] /\ done' = done
  BY <1>2, TaskNames
<1>7. /\ SentFile' = SentFile /\ TakenFile' = TakenFile /\ SentApp' = SentApp
      /\ TakenProcessed' = TakenProcessed /\ TakenApp' = TakenApp
  <2>1. SentFile' = SentFile /\ SentTransformed' = SentTransformed + 1
    BY <1>0, <1>3, <1>5 DEF Numbers
  <2>2. TakenFile' = TakenFile /\ TakenProcessed' = TakenProcessed
    BY <1>0, <1>4, <1>5, <2>1 DEF Numbers
  <2>3. SentApp' = SentApp /\ SentProcessed' = SentProcessed
    BY <1>0, <1>3, <1>5, <2>2 DEF Numbers
  <2> QED BY <1>0, <1>4, <1>5, <2>1, <2>2, <2>3 DEF Numbers
<1>8. Row(queue'[RT], "Transformed", Reported)
  <2>1. event[TT] = Reported + Waiting(RT) + 1
    BY <1>0, <1>4 DEF InOrder, Numbers
  <2>2. Reported \in Int /\ Row(queue[RT], "Transformed", Reported)
    BY <1>0 DEF InOrder, Numbers
  <2> QED BY <1>1, <1>2, <2>1, <2>2, RowAppend DEF Waiting
<1>9. InOrder'
  BY <1>0, <1>2, <1>4, <1>5, <1>6, <1>7, <1>8, TaskNames DEF InOrder
<1>10. Mirrored'
  BY <1>0, <1>2, <1>5, <1>6, <1>7, TaskNames DEF Mirrored
<1> QED BY <1>9, <1>10

(* ApplicationObserver takes the next file event. *)
LEMMA TakeFile ==
  ASSUME Good, Numbers', NEW msg \in Message, Handled(AO, msg)
  PROVE  InOrder' /\ Mirrored'
<1>0. TypeOK /\ SendsLeft /\ Numbers /\ InOrder /\ Mirrored
  BY DEF Good
<1>1. /\ DOMAIN queue = Tasks /\ DOMAIN sends = Tasks /\ DOMAIN event = Tasks
      /\ queue[AO] \in Seq(Message) /\ queue[AO] # << >> /\ msg = Head(queue[AO])
  BY <1>0, TaskNames DEF TypeOK, SendsLeft, Handled, Takes
<1>2. /\ queue'[AO] = Tail(queue[AO])
      /\ \A t \in Tasks \ {AO} : queue'[t] = queue[t]
      /\ sends[AO] = NoneLeft /\ sends'[AO] = Outputs[AO]
      /\ \A t \in Tasks \ {AO} : sends'[t] = sends[t] /\ event'[t] = event[t]
      /\ event'[AO] = msg.id
      /\ emitted' = emitted
  BY <1>0, <1>1, TaskNames DEF Handled, Takes, SendsLeft, NoneLeft
<1>3. Waiting(AO)' = Waiting(AO) - 1
  BY <1>1, <1>2, SeqFacts DEF Waiting
<1>4. /\ Hand(sends'[OI], "File") = Hand(sends[OI], "File")
      /\ Hand(sends'[PT], "Processed") = Hand(sends[PT], "Processed")
      /\ Hand(sends'[TT], "Transformed") = Hand(sends[TT], "Transformed")
      /\ Waiting(OI)' = Waiting(OI) /\ Waiting(TT)' = Waiting(TT)
      /\ Waiting(RT)' = Waiting(RT)
  BY <1>2, TaskNames DEF Waiting
<1>5. /\ queue'[OI] = queue[OI] /\ queue'[PT] = queue[PT]
      /\ queue'[TT] = queue[TT] /\ queue'[RT] = queue[RT]
  BY <1>2, TaskNames
<1>6. done' = done /\ Reported' = Reported
  BY TaskNames DEF Handled, Reported
<1>7. /\ Hand(sends[AO], "App") = 0 /\ Hand(sends'[AO], "App") = 1
      /\ Hand(sends[AO], "Mirror") = 0 /\ Hand(sends'[AO], "Mirror") = 1
  BY <1>2, Hands DEF NoneLeft
<1>8. /\ SentFile' = SentFile /\ TakenFile' = TakenFile + 1 /\ SentApp' = SentApp
      /\ TakenProcessed' = TakenProcessed /\ TakenApp' = TakenApp
  BY <1>0, <1>2, <1>3, <1>4, <1>6, <1>7 DEF Numbers
<1>9. msg.id = TakenFile + 1 /\ Row(queue'[AO], "File", TakenFile + 1)
  <2>1. TakenFile \in Int /\ Row(queue[AO], "File", TakenFile)
    BY <1>0 DEF InOrder, Numbers
  <2> QED BY <1>1, <1>2, <2>1, RowTail
<1>10. InOrder'
  BY <1>0, <1>2, <1>4, <1>5, <1>6, <1>8, <1>9, TaskNames DEF InOrder
<1>11. Mirrored'
  BY <1>0, <1>2, <1>4, <1>5, <1>7, <1>8, <1>9 DEF Mirrored, Numbers
<1> QED BY <1>10, <1>11

(* Processing takes the next AppEvent, whatever lies in between. *)
LEMMA TakeApp ==
  ASSUME Good, Numbers', NEW msg \in Message, Handled(PT, msg)
  PROVE  InOrder' /\ Mirrored'
<1>0. TypeOK /\ SendsLeft /\ Numbers /\ InOrder /\ Mirrored
  BY DEF Good
<1>1. /\ DOMAIN queue = Tasks /\ DOMAIN sends = Tasks /\ DOMAIN event = Tasks
      /\ queue[PT] \in Seq(Message) /\ queue[PT] # << >> /\ msg = Head(queue[PT])
  BY <1>0, TaskNames DEF TypeOK, SendsLeft, Handled, Takes
<1>2. /\ queue'[PT] = Tail(queue[PT])
      /\ \A t \in Tasks \ {PT} : queue'[t] = queue[t]
      /\ sends[PT] = NoneLeft /\ sends'[PT] = Outputs[PT]
      /\ \A t \in Tasks \ {PT} : sends'[t] = sends[t] /\ event'[t] = event[t]
      /\ event'[PT] = msg.id
      /\ emitted' = emitted
  BY <1>0, <1>1, TaskNames DEF Handled, Takes, SendsLeft, NoneLeft
<1>3. Waiting(PT)' = Waiting(PT) - 1
  BY <1>1, <1>2, SeqFacts DEF Waiting
<1>4. /\ Hand(sends'[OI], "File") = Hand(sends[OI], "File")
      /\ Hand(sends'[AO], "App") = Hand(sends[AO], "App")
      /\ Hand(sends'[TT], "Transformed") = Hand(sends[TT], "Transformed")
      /\ Waiting(OI)' = Waiting(OI) /\ Waiting(AO)' = Waiting(AO)
      /\ Waiting(TT)' = Waiting(TT) /\ Waiting(RT)' = Waiting(RT)
  BY <1>2, TaskNames DEF Waiting
<1>5. /\ queue'[OI] = queue[OI] /\ queue'[AO] = queue[AO]
      /\ queue'[TT] = queue[TT] /\ queue'[RT] = queue[RT]
  BY <1>2, TaskNames
<1>6. done' = done /\ Reported' = Reported
  BY TaskNames DEF Handled, Reported
<1>7. Hand(sends[PT], "Processed") = 0 /\ Hand(sends'[PT], "Processed") = 1
  BY <1>2, Hands DEF NoneLeft
<1>8. /\ SentFile' = SentFile /\ TakenFile' = TakenFile /\ SentApp' = SentApp
      /\ TakenProcessed' = TakenProcessed /\ TakenApp' = TakenApp + 1
  BY <1>0, <1>2, <1>4, <1>6, <1>7 DEF Numbers
<1>9. msg.id = TakenApp + 1 /\ MixedRow(queue'[PT], "App", TakenApp + 1, SentApp)
  <2>1. /\ TakenApp \in Int /\ SentApp \in Int
        /\ MixedRow(queue[PT], "App", TakenApp, SentApp)
    BY <1>0 DEF InOrder, Numbers
  <2>2. msg.kind = "App"
    BY DEF Handled, Handles, Tasks, OI, AO, PT, TT, RT
  <2> QED BY <1>1, <1>2, <2>1, <2>2, MixedTail
<1>10. InOrder'
  BY <1>0, <1>2, <1>4, <1>5, <1>6, <1>8, <1>9, TaskNames DEF InOrder
<1>11. Mirrored'
  BY <1>0, <1>2, <1>4, <1>5, <1>8, TaskNames DEF Mirrored
<1> QED BY <1>10, <1>11

(* Transformation takes the next event. *)
LEMMA TakeProcessed ==
  ASSUME Good, Numbers', NEW msg \in Message, Handled(TT, msg)
  PROVE  InOrder' /\ Mirrored'
<1>0. TypeOK /\ SendsLeft /\ Numbers /\ InOrder /\ Mirrored
  BY DEF Good
<1>1. /\ DOMAIN queue = Tasks /\ DOMAIN sends = Tasks /\ DOMAIN event = Tasks
      /\ queue[TT] \in Seq(Message) /\ queue[TT] # << >> /\ msg = Head(queue[TT])
  BY <1>0, TaskNames DEF TypeOK, SendsLeft, Handled, Takes
<1>2. /\ queue'[TT] = Tail(queue[TT])
      /\ \A t \in Tasks \ {TT} : queue'[t] = queue[t]
      /\ sends[TT] = NoneLeft /\ sends'[TT] = Outputs[TT]
      /\ \A t \in Tasks \ {TT} : sends'[t] = sends[t] /\ event'[t] = event[t]
      /\ event'[TT] = msg.id
      /\ emitted' = emitted
  BY <1>0, <1>1, TaskNames DEF Handled, Takes, SendsLeft, NoneLeft
<1>3. Waiting(TT)' = Waiting(TT) - 1
  BY <1>1, <1>2, SeqFacts DEF Waiting
<1>4. /\ Hand(sends'[OI], "File") = Hand(sends[OI], "File")
      /\ Hand(sends'[AO], "App") = Hand(sends[AO], "App")
      /\ Hand(sends'[PT], "Processed") = Hand(sends[PT], "Processed")
      /\ Waiting(OI)' = Waiting(OI) /\ Waiting(AO)' = Waiting(AO)
      /\ Waiting(RT)' = Waiting(RT)
  BY <1>2, TaskNames DEF Waiting
<1>5. /\ queue'[OI] = queue[OI] /\ queue'[AO] = queue[AO]
      /\ queue'[PT] = queue[PT] /\ queue'[RT] = queue[RT]
  BY <1>2, TaskNames
<1>6. done' = done /\ Reported' = Reported
  BY TaskNames DEF Handled, Reported
<1>7. Hand(sends[TT], "Transformed") = 0 /\ Hand(sends'[TT], "Transformed") = 1
  BY <1>2, Hands DEF NoneLeft
<1>8. /\ SentFile' = SentFile /\ TakenFile' = TakenFile /\ SentApp' = SentApp
      /\ TakenProcessed' = TakenProcessed + 1 /\ TakenApp' = TakenApp
  BY <1>0, <1>2, <1>3, <1>4, <1>6, <1>7 DEF Numbers
<1>9. msg.id = TakenProcessed + 1 /\ Row(queue'[TT], "Processed", TakenProcessed + 1)
  <2>1. TakenProcessed \in Int /\ Row(queue[TT], "Processed", TakenProcessed)
    BY <1>0 DEF InOrder, Numbers
  <2> QED BY <1>1, <1>2, <2>1, RowTail
<1>10. InOrder'
  BY <1>0, <1>2, <1>4, <1>5, <1>6, <1>8, <1>9, TaskNames DEF InOrder
<1>11. Mirrored'
  BY <1>0, <1>2, <1>4, <1>5, <1>8, TaskNames DEF Mirrored
<1> QED BY <1>10, <1>11

(* ResultThread reports the next event. *)
LEMMA Report ==
  ASSUME Good, Numbers', NEW msg \in Message, Handled(RT, msg)
  PROVE  InOrder' /\ Mirrored'
<1>0. TypeOK /\ SendsLeft /\ Numbers /\ InOrder /\ Mirrored
  BY DEF Good
<1>1. /\ DOMAIN queue = Tasks /\ DOMAIN sends = Tasks /\ DOMAIN event = Tasks
      /\ queue[RT] \in Seq(Message) /\ queue[RT] # << >> /\ msg = Head(queue[RT])
  BY <1>0, TaskNames DEF TypeOK, SendsLeft, Handled, Takes
<1>2. /\ queue'[RT] = Tail(queue[RT])
      /\ \A t \in Tasks \ {RT} : queue'[t] = queue[t]
      /\ sends[RT] = NoneLeft /\ sends'[RT] = Outputs[RT]
      /\ \A t \in Tasks \ {RT} : sends'[t] = sends[t] /\ event'[t] = event[t]
      /\ event'[RT] = msg.id
      /\ emitted' = emitted
  BY <1>0, <1>1, TaskNames DEF Handled, Takes, SendsLeft, NoneLeft
<1>3. Waiting(RT)' = Waiting(RT) - 1
  BY <1>1, <1>2, SeqFacts DEF Waiting
<1>4. /\ Hand(sends'[OI], "File") = Hand(sends[OI], "File")
      /\ Hand(sends'[AO], "App") = Hand(sends[AO], "App")
      /\ Hand(sends'[PT], "Processed") = Hand(sends[PT], "Processed")
      /\ Hand(sends'[TT], "Transformed") = Hand(sends[TT], "Transformed")
      /\ Waiting(OI)' = Waiting(OI) /\ Waiting(AO)' = Waiting(AO)
      /\ Waiting(TT)' = Waiting(TT)
  BY <1>2, TaskNames DEF Waiting
<1>5. /\ queue'[OI] = queue[OI] /\ queue'[AO] = queue[AO]
      /\ queue'[PT] = queue[PT] /\ queue'[TT] = queue[TT]
  BY <1>2, TaskNames
<1>6. done' = Append(done, msg.id)
  BY DEF Handled
<1>7. /\ Reported' = Reported + 1
      /\ msg.id = Reported + 1 => \A j \in DOMAIN done' : done'[j] = j
  <2>1. done \in Seq(Int) /\ msg.id \in Int /\ \A j \in DOMAIN done : done[j] = j
    BY <1>0 DEF TypeOK, Message, InOrder
  <2> QED BY <1>6, <2>1, SeqFacts DEF Reported
<1>8. /\ SentFile' = SentFile /\ TakenFile' = TakenFile /\ SentApp' = SentApp
      /\ TakenProcessed' = TakenProcessed /\ TakenApp' = TakenApp
  <2>1. Reported' = Reported + 1
    BY <1>7
  <2>2. SentTransformed' = SentTransformed
    BY <1>0, <1>3, <2>1 DEF Numbers
  <2> QED BY <1>0, <1>2, <1>4, <2>2 DEF Numbers
<1>9. msg.id = Reported + 1 /\ Row(queue'[RT], "Transformed", Reported + 1)
  <2>1. Reported \in Int /\ Row(queue[RT], "Transformed", Reported)
    BY <1>0 DEF InOrder, Numbers
  <2> QED BY <1>1, <1>2, <2>1, RowTail
<1>10. InOrder'
  BY <1>0, <1>2, <1>4, <1>5, <1>7, <1>8, <1>9, TaskNames DEF InOrder
<1>11. Mirrored'
  BY <1>0, <1>2, <1>4, <1>5, <1>8, TaskNames DEF Mirrored
<1> QED BY <1>10, <1>11

(* A task drops what it does not handle: only Processing finds such a      *)
(* message, a DirectEvent.                                                 *)
LEMMA Drop ==
  ASSUME Good, Numbers', NEW t \in Tasks \ {OI}, NEW msg \in Message, Dropped(t, msg)
  PROVE  InOrder' /\ Mirrored'
<1>0. TypeOK /\ SendsLeft /\ Numbers /\ InOrder /\ Mirrored
  BY DEF Good
<1>1. /\ DOMAIN queue = Tasks /\ \A u \in Tasks : queue[u] \in Seq(Message)
      /\ queue[t] # << >> /\ msg = Head(queue[t]) /\ msg.kind # Handles[t]
  BY <1>0 DEF TypeOK, Dropped, Takes
<1>2. /\ Handles[AO] = "File" /\ Handles[PT] = "App" /\ Handles[TT] = "Processed"
      /\ Handles[RT] = "Transformed"
  BY DEF Handles, Tasks, OI, AO, PT, TT, RT
<1>3. t # AO
  <2>1. TakenFile \in Int /\ Row(queue[AO], "File", TakenFile)
    BY <1>0 DEF InOrder, Numbers
  <2> QED BY <1>1, <1>2, <2>1, RowTail
<1>4. t # TT
  <2>1. TakenProcessed \in Int /\ Row(queue[TT], "Processed", TakenProcessed)
    BY <1>0 DEF InOrder, Numbers
  <2> QED BY <1>1, <1>2, <2>1, RowTail
<1>5. t # RT
  <2>1. Reported \in Int /\ Row(queue[RT], "Transformed", Reported)
    BY <1>0 DEF InOrder, Numbers
  <2> QED BY <1>1, <1>2, <2>1, RowTail
<1>6. t = PT
  BY <1>3, <1>4, <1>5, TaskNames
<1>7. /\ queue'[PT] = Tail(queue[PT]) /\ \A u \in Tasks \ {PT} : queue'[u] = queue[u]
      /\ UNCHANGED <<event, sends, emitted, done>>
  BY <1>1, <1>6, TaskNames DEF Dropped, Takes
<1>8. /\ Waiting(OI)' = Waiting(OI) /\ Waiting(AO)' = Waiting(AO)
      /\ Waiting(TT)' = Waiting(TT) /\ Waiting(RT)' = Waiting(RT) /\ Reported' = Reported
  BY <1>7, TaskNames DEF Waiting, Reported
<1>9. /\ TakenFile' = TakenFile /\ SentApp' = SentApp
      /\ TakenProcessed' = TakenProcessed /\ TakenApp' = TakenApp
  BY <1>0, <1>7, <1>8 DEF Numbers
<1>10. MixedRow(queue'[PT], "App", TakenApp, SentApp)
  <2>1. /\ TakenApp \in Int /\ SentApp \in Int
        /\ MixedRow(queue[PT], "App", TakenApp, SentApp)
    BY <1>0 DEF InOrder, Numbers
  <2> QED BY <1>1, <1>2, <1>6, <1>7, <2>1, MixedTail
<1> QED BY <1>0, <1>7, <1>8, <1>9, <1>10, TaskNames DEF InOrder, Mirrored

(* The observer makes the next event. *)
LEMMA Emitted ==
  ASSUME Good, Numbers', Emit
  PROVE  InOrder' /\ Mirrored'
<1>0. TypeOK /\ SendsLeft /\ Numbers /\ InOrder /\ Mirrored
  BY DEF Good
<1>1. /\ sends[OI] = NoneLeft /\ sends'[OI] = Outputs[OI] /\ event'[OI] = emitted'
      /\ \A t \in Tasks \ {OI} : sends'[t] = sends[t] /\ event'[t] = event[t]
      /\ emitted' = emitted + 1 /\ UNCHANGED <<queue, done>>
  BY <1>0, TaskNames DEF Emit, TypeOK, SendsLeft, NoneLeft
<1>2. Hand(sends[OI], "File") = 0 /\ Hand(sends'[OI], "File") = 1
  BY <1>1, Hands DEF NoneLeft
<1>3. /\ Waiting(OI)' = Waiting(OI) /\ Waiting(AO)' = Waiting(AO)
      /\ Waiting(TT)' = Waiting(TT) /\ Waiting(RT)' = Waiting(RT) /\ Reported' = Reported
      /\ Hand(sends'[AO], "App") = Hand(sends[AO], "App")
      /\ Hand(sends'[PT], "Processed") = Hand(sends[PT], "Processed")
      /\ Hand(sends'[TT], "Transformed") = Hand(sends[TT], "Transformed")
      /\ emitted' = emitted + 1
  BY <1>1, TaskNames DEF Waiting, Reported
<1>4. /\ TakenFile' = TakenFile /\ SentApp' = SentApp
      /\ TakenProcessed' = TakenProcessed /\ TakenApp' = TakenApp
  BY <1>0, <1>2, <1>3 DEF Numbers
<1> QED BY <1>0, <1>1, <1>3, <1>4, TaskNames DEF InOrder, Mirrored

(* A restart: no task holds an event, and the queues are as they were. *)
LEMMA Restarted ==
  ASSUME Good, Numbers', RestartAll
  PROVE  InOrder' /\ Mirrored'
<1>0. TypeOK /\ SendsLeft /\ Numbers /\ InOrder /\ Mirrored
  BY DEF Good
<1>1. \A t \in Tasks : sends[t] = NoneLeft /\ sends'[t] = NoneLeft
  BY <1>0 DEF RestartAll, SendsLeft, NoneLeft
<1>2. \A t \in Tasks : \A kind : Hand(sends[t], kind) = 0 /\ Hand(sends'[t], kind) = 0
  BY <1>1, Hands DEF NoneLeft
<1>3. /\ Waiting(OI)' = Waiting(OI) /\ Waiting(AO)' = Waiting(AO)
      /\ Waiting(TT)' = Waiting(TT) /\ Waiting(RT)' = Waiting(RT) /\ Reported' = Reported
      /\ UNCHANGED <<queue, done, emitted>>
  BY DEF RestartAll, Waiting, Reported
<1>4. /\ TakenFile' = TakenFile /\ SentApp' = SentApp
      /\ TakenProcessed' = TakenProcessed /\ TakenApp' = TakenApp
  BY <1>0, <1>2, <1>3, TaskNames DEF Numbers
<1> QED BY <1>0, <1>2, <1>3, <1>4, TaskNames DEF InOrder, Mirrored

LEMMA QuietStep ==
  ASSUME Good, Quiet
  PROVE  InOrder' /\ Mirrored'
BY DEF Good, Quiet, InOrder, Mirrored, Waiting, Reported, InHand, SentFile, TakenFile,
   SentApp, SentTransformed, TakenProcessed, SentProcessed, TakenApp

LEMMA Inductive == Spec => []IInv
<1>1. Init => IInv
  <2> SUFFICES ASSUME Init PROVE IInv
    OBVIOUS
  <2>1. TypeOK
    BY DEF Init, TypeOK
  <2>2. SendsLeft
    BY TaskNames DEF Init, SendsLeft
  <2>3. /\ \A t \in Tasks : queue[t] = << >> /\ sends[t] = << >>
        /\ done = << >> /\ emitted = 0
    BY DEF Init
  <2>4. \A t \in Tasks : \A kind : Hand(sends[t], kind) = 0
    BY <2>3, Hands
  <2>5. /\ Waiting(OI) = 0 /\ Waiting(AO) = 0 /\ Waiting(TT) = 0
        /\ Waiting(RT) = 0 /\ Reported = 0
    BY <2>3, TaskNames DEF Waiting, Reported
  <2>6. TakenFile = 0 /\ SentApp = 0 /\ TakenProcessed = 0 /\ TakenApp = 0
    BY <2>1, <2>3, <2>4, <2>5, NumbersFollow, TaskNames DEF Numbers
  <2>7. /\ \A kind, lo : Row(<< >>, kind, lo)
        /\ \A kind : MixedRow(<< >>, kind, 0, 0)
    BY DEF Row, MixedRow
  <2>8. InOrder /\ Mirrored
    BY <2>3, <2>4, <2>5, <2>6, <2>7, TaskNames DEF InOrder, Mirrored
  <2> QED BY <2>1, <2>2, <2>8, InOrderIs DEF IInv
<1>2. (TypeOK => Numbers)' /\ (TypeOK => Numbers)
  BY NumbersFollow, PTL
<1>3. /\ (NothingLostOrReordered <=> InOrder)' /\ (MirrorsPileUp <=> Mirrored)'
      /\ (NothingLostOrReordered <=> InOrder) /\ (MirrorsPileUp <=> Mirrored)
  BY InOrderIs, PTL
<1>4. IInv /\ [Next]_vars => IInv'
  <2> SUFFICES ASSUME IInv, [Next]_vars PROVE IInv'
    OBVIOUS
  <2>1. TypeOK' /\ SendsLeft' /\ Numbers' /\ Good
    BY <1>2, <1>3, TypeStep DEF IInv, Good
  <2>2. TypeOK /\ SendsLeft
    BY DEF IInv
  <2>3. ASSUME Emit PROVE InOrder' /\ Mirrored'
    BY <2>1, <2>3, Emitted
  <2>4. ASSUME RestartAll PROVE InOrder' /\ Mirrored'
    BY <2>1, <2>4, Restarted
  <2>5. ASSUME \/ \E t \in Tasks : LoopHead(t) \/ NoMessage(t)
               \/ Paused \/ StopAll \/ UNCHANGED vars
        PROVE  InOrder' /\ Mirrored'
    BY <2>1, <2>2, <2>5, QuietCases, QuietStep
  <2>6. ASSUME NEW t \in Tasks, Send(t) PROVE InOrder' /\ Mirrored'
    BY <2>1, <2>2, <2>6, SendCases, SendFile, SendDirect, SendMirror, SendApp, SendProcessed,
       SendTransformed DEF NoneLeft
  <2>7. ASSUME NEW t \in Tasks \ {OI}, Receive(t) PROVE InOrder' /\ Mirrored'
    <3>1. PICK msg \in Message : Handled(t, msg) \/ Dropped(t, msg)
      BY <2>2, <2>7, ReceiveCases
    <3> QED BY <2>1, <3>1, Drop, TakeFile, TakeApp, TakeProcessed, Report, TaskNames
  <2>8. InOrder' /\ Mirrored'
    BY <2>3, <2>4, <2>5, <2>6, <2>7, TaskNames DEF Next, Observe, Relay
  <2> QED BY <1>3, <2>1, <2>8 DEF IInv
<1> QED BY <1>1, <1>4, PTL DEF Spec

(* The events pass the five threads in order and none is lost or doubled,  *)
(* however many there are and whenever main stops and restarts the chain:  *)
(* the task's run() looks at its token only when its hands are empty, and  *)
(* Processing picks the AppEvents out of its queue in the order they came. *)
THEOREM OrderCorrect == Spec => []NothingLostOrReordered
  BY Inductive, PTL DEF IInv

(* The repository's README.md:92 lists MirrorEvent among what              *)
(* ObserverIncomingThread receives, and :226 calls it a feedback loop.     *)
(* Its run() reads only the command buffer, so the opposite is true: the   *)
(* mirror of every event that ApplicationObserver has passed on is still   *)
(* in the observer's queue, for any number of events, stops and restarts.  *)
THEOREM MirrorsNeverReceived == Spec => []MirrorsPileUp
  BY Inductive, PTL DEF IInv
=============================================================================
