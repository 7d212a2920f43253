----------------------------- MODULE SidecarProofs -----------------------------
(***************************************************************************)
(* Proofs about Sidecar for any documents, batches, numbers of lines,      *)
(* lengths of the pipes and sizes of the suites: replies come in the order *)
(* of the requests, what is answered as applied is what was traced, and no *)
(* suite raises a false alarm.                                             *)
(***************************************************************************)
EXTENDS Sidecar, FiniteSetTheorems, SequenceTheorems, FunctionTheorems, TLAPS

USE SidecarsAssumption, BatchesAssumption, BoundsAssumption

--------------------------------------------------------------------------------
(* The inductive invariant of an IDE host's session *)

Docs == Documents \cup {"none"}
Lines == [form : {"request", "blank", "malformed"}, v2 : BOOLEAN, fit : BOOLEAN,
          method : Methods, doc : Docs, muts : Seq(Mutations), format : Formats \cup {"none"}]
Replies == [id : Nat \ {0}, code : Int, applied : Nat, errors : Seq(Nat), artifacts : Nat]
Applying == [id : Nat \ {0}, doc : Docs, muts : Seq(Mutations), at : Nat \ {0},
             half : BOOLEAN, applied : Nat, errors : Seq(Nat)]
IdeClients == [next : {1}, pending : {0}, replies : {<<>>}, traces : {<<>>}, closed : BOOLEAN,
               gone : BOOLEAN, out : Nat, err : Nat, verdict : {"none"}]
NodeTypes == {"kicad.schematic.element", "kicad.pcb.element", "kicad.mutation"}
Traces == [line : Nat, method : {"upsertNodes", "upsertEdges"}, commit : Docs \X Nat,
           node : Kinds \X Nat, type : NodeTypes \cup {"applies_mutation"}]

Types ==
  /\ session.sidecar \in AllSidecars
  /\ stdin \in Seq(Lines) /\ sent \in Seq(Lines)
  /\ stdout \in Seq(Replies) /\ stderr \in Seq(Traces)
  /\ open \in BOOLEAN
  /\ batch \in {NoBatch} \cup Applying
  /\ client \in IdeClients

\* The number of lines read; the others are the end of what was sent.
LinesRead == Len(sent) - Len(stdin)

StdinIsRest ==
  /\ Len(stdin) <= Len(sent)
  /\ \A i \in 1 .. Len(stdin) : stdin[i] = sent[LinesRead + i]

\* In a sidecar that runs a project is open only if its opening was answered.
Opened == \E j \in DOMAIN stdout : sent[stdout[j].id].method = "open" /\ stdout[j].code = 0
OpenValid == open /\ proc = "running" => Opened

\* The batch under way is that of the last line read, and has counted or
\* reported every mutation before the one at hand.
BatchValid ==
  batch # NoBatch =>
    /\ batch.id = LinesRead
    /\ sent[batch.id].form = "request"
    /\ batch.doc = sent[batch.id].doc /\ batch.muts = sent[batch.id].muts
    /\ batch.at <= Len(batch.muts) + 1
    /\ batch.applied + Len(batch.errors) = batch.at - 1
    /\ session.sidecar = "kicad" => batch.applied = batch.at - 1
    /\ batch.half => session.sidecar = "kicad" /\ batch.at <= Len(batch.muts)
    /\ open

IdeInv ==
  /\ Types /\ StdinIsRest /\ OpenValid /\ BatchValid
  /\ RepliesInOrder /\ AppliedIsTraced

--------------------------------------------------------------------------------
(* Lines, replies and traces *)

\* The line that is read next is the first of those that were not.
LEMMA LineRead ==
  ASSUME Types, StdinIsRest, Reading
  PROVE  /\ LineId = LinesRead + 1 /\ LineId \in 1 .. Len(sent)
         /\ Line \in Lines /\ Line = sent[LineId]
         /\ Tail(stdin) \in Seq(Lines) /\ Len(Tail(stdin)) = Len(stdin) - 1
         /\ \A i \in 1 .. Len(Tail(stdin)) : Tail(stdin)[i] = sent[LineId + i]
<1>1. /\ stdin \in Seq(Lines) /\ sent \in Seq(Lines) /\ stdin # <<>>
      /\ Len(stdin) \in Nat \ {0} /\ Len(sent) \in Nat /\ Len(stdin) <= Len(sent)
  BY DEF Types, StdinIsRest, Reading
<1>2. LineId = LinesRead + 1 /\ LineId \in 1 .. Len(sent)
  BY <1>1 DEF LineId, LinesRead
<1>3. Line = stdin[1] /\ stdin[1] \in Lines
  BY <1>1 DEF Line
<1>4. stdin[1] = sent[LineId]
  BY <1>1, <1>2 DEF StdinIsRest
<1>5. /\ Tail(stdin) \in Seq(Lines) /\ Len(Tail(stdin)) = Len(stdin) - 1
      /\ \A i \in 1 .. Len(stdin) - 1 : Tail(stdin)[i] = stdin[i + 1]
  BY <1>1
<1>6. \A i \in 1 .. Len(stdin) - 1 : stdin[i + 1] = sent[LineId + i]
  <2>1. \A i \in 1 .. Len(stdin) - 1 :
          i + 1 \in 1 .. Len(stdin) /\ LinesRead + (i + 1) = LineId + i
    BY <1>1, <1>2 DEF LinesRead
  <2> QED BY <2>1 DEF StdinIsRest
<1> QED BY <1>2, <1>3, <1>4, <1>5, <1>6

\* Reading a line leaves the rest.
LEMMA RestRead ==
  ASSUME Types, StdinIsRest, Reading, stdin' = Tail(stdin), sent' = sent
  PROVE  /\ stdin' \in Seq(Lines) /\ StdinIsRest'
         /\ LinesRead' = LinesRead + 1 /\ LinesRead \in Nat
         /\ ReadLines' = ReadLines \cup {LineId} /\ LineId \notin ReadLines
<1>1. /\ Len(sent) \in Nat /\ Len(stdin) \in Nat /\ Len(stdin) <= Len(sent)
      /\ Len(stdin') = Len(stdin) - 1 /\ LineId = LinesRead + 1
      /\ stdin' \in Seq(Lines)
      /\ \A i \in 1 .. Len(stdin') : stdin'[i] = sent[LineId + i]
  BY LineRead DEF Types, StdinIsRest
<1>2. LinesRead' = LinesRead + 1 /\ LinesRead \in Nat
  BY <1>1 DEF LinesRead
<1>3. StdinIsRest'
  BY <1>1, <1>2 DEF StdinIsRest
<1>4. ReadLines = 1 .. LinesRead /\ ReadLines' = 1 .. LinesRead'
  BY DEF ReadLines, LinesRead
<1> QED BY <1>1, <1>2, <1>3, <1>4

\* A sequence with one more.
LEMMA OneMore ==
  ASSUME NEW S, NEW s \in Seq(S), NEW e \in S
  PROVE  /\ Append(s, e) \in Seq(S)
         /\ Len(s) \in Nat /\ DOMAIN s = 1 .. Len(s)
         /\ Len(Append(s, e)) = Len(s) + 1 /\ DOMAIN Append(s, e) = 1 .. Len(s) + 1
         /\ Append(s, e)[Len(s) + 1] = e
         /\ \A i \in 1 .. Len(s) : Append(s, e)[i] = s[i]
  OBVIOUS

\* A sequence after another.
LEMMA ConcatElements ==
  ASSUME NEW S, NEW s \in Seq(S), NEW d \in Seq(S)
  PROVE  /\ s \o d \in Seq(S) /\ Len(s \o d) = Len(s) + Len(d)
         /\ \A i \in 1 .. Len(s) : (s \o d)[i] = s[i]
         /\ \A j \in 1 .. Len(d) : (s \o d)[Len(s) + j] = d[j]
<1>1. /\ s \o d \in Seq(S) /\ Len(s \o d) = Len(s) + Len(d)
      /\ \A i \in 1 .. Len(s) + Len(d) :
           (s \o d)[i] = IF i <= Len(s) THEN s[i] ELSE d[i - Len(s)]
  BY ConcatProperties
<1>2. PICK n \in Nat, m \in Nat : n = Len(s) /\ m = Len(d)
  OBVIOUS
<1>3. \A i \in 1 .. n + m : (s \o d)[i] = IF i <= n THEN s[i] ELSE d[i - n]
  BY <1>1, <1>2
<1>4. \A i \in 1 .. n : (s \o d)[i] = s[i]
  <2>1. \A i \in 1 .. n : i \in 1 .. n + m /\ i <= n
    OBVIOUS
  <2> QED BY <1>3, <2>1
<1>5. ASSUME NEW j \in 1 .. m
      PROVE  (s \o d)[n + j] = d[j]
  <2>1. n + j \in 1 .. n + m /\ ~(n + j <= n) /\ (n + j) - n = j
    OBVIOUS
  <2>2. (s \o d)[n + j] = d[(n + j) - n]
    BY <1>3, <2>1
  <2> QED BY <2>1, <2>2
<1> QED BY <1>1, <1>2, <1>4, <1>5

LEMMA OneAfter ==
  ASSUME NEW S, NEW s \in Seq(S), NEW a \in S
  PROVE  /\ s \o << a >> \in Seq(S) /\ Len(s \o << a >>) = Len(s) + 1
         /\ (s \o << a >>)[Len(s) + 1] = a
         /\ \A i \in 1 .. Len(s) : (s \o << a >>)[i] = s[i]
<1>1. << a >> \in Seq(S) /\ Len(<< a >>) = 1 /\ << a >>[1] = a
  OBVIOUS
<1> QED BY <1>1, ConcatElements

LEMMA TwoAfter ==
  ASSUME NEW S, NEW s \in Seq(S), NEW a \in S, NEW b \in S
  PROVE  /\ s \o << a, b >> \in Seq(S) /\ Len(s \o << a, b >>) = Len(s) + 2
         /\ (s \o << a, b >>)[Len(s) + 1] = a /\ (s \o << a, b >>)[Len(s) + 2] = b
         /\ \A i \in 1 .. Len(s) : (s \o << a, b >>)[i] = s[i]
<1>1. << a, b >> \in Seq(S) /\ Len(<< a, b >>) = 2 /\ << a, b >>[1] = a /\ << a, b >>[2] = b
  OBVIOUS
<1> QED BY <1>1, ConcatElements

--------------------------------------------------------------------------------
(* The steps of an IDE host's session *)

\* What is known of the replies so far.
LEMMA RepliesKnown ==
  ASSUME IdeInv, session.driver = "ide"
  PROVE  \A k \in DOMAIN stdout :
           /\ stdout[k] \in Replies /\ stdout[k].id \in ReadLines
           /\ stdout[k].id \in 1 .. Len(sent) /\ stdout[k].id # batch.id
<1>1. \A k \in DOMAIN stdout : stdout[k].id \in ReadLines /\ stdout[k].id # batch.id
  BY DEF IdeInv, RepliesInOrder
<1>2. \A i \in ReadLines : i \in 1 .. Len(sent)
  BY DEF ReadLines, IdeInv, Types, StdinIsRest
<1> QED BY <1>1, <1>2 DEF IdeInv, Types

\* Whose replies are due is as before, and so are the replies.
LEMMA SameReplies ==
  ASSUME IdeInv, UNCHANGED <<session, stdout>>, LostReply \subseteq LostReply',
         {i \in ReadLines' : sent'[i].form = "request" /\ i # batch'.id}
           = {i \in ReadLines : sent[i].form = "request" /\ i # batch.id}
  PROVE  RepliesInOrder'
<1> DEFINE due == {i \in ReadLines : sent[i].form = "request" /\ i # batch.id}
           ids == {stdout[k].id : k \in DOMAIN stdout}
<1>1. SUFFICES ASSUME session.driver = "ide"
               PROVE  RepliesInOrder'
  BY DEF RepliesInOrder
<1>2. /\ \A j, k \in DOMAIN stdout : j < k => stdout[j].id < stdout[k].id
      /\ ids \subseteq due /\ due \ ids \subseteq LostReply
  BY <1>1 DEF IdeInv, RepliesInOrder
<1>3. stdout' = stdout /\ due' = due /\ ids' = ids
  OBVIOUS
<1>4. /\ \A j, k \in DOMAIN stdout' : j < k => stdout'[j].id < stdout'[k].id
      /\ ids' \subseteq due' /\ due' \ ids' \subseteq LostReply'
  <2> HIDE DEF due, ids
  <2> QED BY <1>2, <1>3
<1> QED BY <1>4 DEF RepliesInOrder

\* A sidecar that runs has lost no reply.
LEMMA NoneLost ==
  ASSUME proc = "running"
  PROVE  LostReply = {}
BY DEF LostReply

\* A step that adds no reply and no trace, and leaves what was read in place.
LEMMA QuietStep ==
  ASSUME IdeInv, session.driver = "ide", UNCHANGED <<session, stdout, stderr>>,
         Types', StdinIsRest', BatchValid', RepliesInOrder',
         open' /\ proc' = "running" => open /\ proc = "running",
         \A i \in 1 .. Len(sent) : sent'[i] = sent[i],
         \/ batch' = batch
         \/ batch = NoBatch /\ batch' # NoBatch /\ batch'.at = 1 /\ batch'.half = FALSE
  PROVE  IdeInv'
<1>1. \A k \in DOMAIN stdout : stdout[k].id \in 1 .. Len(sent) /\ stdout[k] \in Replies
  BY RepliesKnown
<1>2. /\ session' = session /\ stdout' = stdout /\ stderr' = stderr
      /\ \A k \in DOMAIN stdout : sent'[stdout[k].id] = sent[stdout[k].id]
  BY <1>1
<1>3. OpenValid'
  BY <1>2 DEF IdeInv, OpenValid, Opened
<1>5. \A k \in DOMAIN stdout : OpenedBefore(k)' <=> OpenedBefore(k)
  <2>1. \A k \in DOMAIN stdout : \A j \in 1 .. k - 1 : j \in DOMAIN stdout
    BY DEF IdeInv, Types
  <2> QED BY <1>2, <2>1 DEF OpenedBefore
<1>6. TracesApplied' = TracesApplied
  <2>1. TracesAnswered' = TracesAnswered
    BY <1>2 DEF TracesAnswered, TracesOfLine
  <2>2. CASE batch' = batch
    <3>1. batch # NoBatch => sent'[batch.id] = sent[batch.id]
      <4>1. batch # NoBatch => batch.id \in Nat \ {0} /\ batch.id = LinesRead
        BY DEF IdeInv, Types, BatchValid, Applying
      <4>2. LinesRead <= Len(sent) /\ Len(sent) \in Nat /\ LinesRead \in Int
        BY DEF IdeInv, Types, StdinIsRest, LinesRead
      <4> QED BY <4>1, <4>2
    <3>2. TracesUnderWay' = TracesUnderWay
      <4>1. CASE batch = NoBatch
        BY <2>2, <4>1 DEF TracesUnderWay
      <4>2. CASE batch # NoBatch
        <5>1. TracesOfLine(batch.id, batch.at - 1)' = TracesOfLine(batch.id, batch.at - 1)
          BY <2>2, <3>1, <4>2 DEF TracesOfLine
        <5>2. Delta' = Delta
          BY <2>2 DEF Delta
        <5> QED BY <2>2, <4>2, <5>1, <5>2 DEF TracesUnderWay
      <4> QED BY <4>1, <4>2
    <3> QED BY <2>1, <3>2 DEF TracesApplied
  <2>3. CASE batch = NoBatch /\ batch' # NoBatch /\ batch'.at = 1 /\ batch'.half = FALSE
    <3>1. TracesUnderWay = {} /\ TracesUnderWay' = {}
      BY <2>3 DEF TracesUnderWay, TracesOfLine
    <3> QED BY <2>1, <3>1 DEF TracesApplied
  <2> QED BY <2>2, <2>3
<1>7. AppliedIsTraced'
  BY <1>2, <1>5, <1>6 DEF IdeInv, AppliedIsTraced
<1> QED BY <1>3, <1>7 DEF IdeInv

\* What is answered next adds the traces of what it says was applied.
LEMMA AnsweredMore ==
  ASSUME stdout \in Seq(Replies), NEW reply \in Replies,
         stdout' = Append(stdout, reply), sent' = sent
  PROVE  TracesAnswered' = TracesAnswered \cup TracesOfLine(reply.id, reply.applied)
<1>1. PICK n \in Nat : n = Len(stdout)
  OBVIOUS
<1>2. /\ DOMAIN stdout = 1 .. n /\ DOMAIN stdout' = (1 .. n) \cup {n + 1}
      /\ stdout'[n + 1] = reply /\ \A k \in 1 .. n : stdout'[k] = stdout[k]
  BY <1>1, OneMore
<1>3. \A i, k : TracesOfLine(i, k)' = TracesOfLine(i, k)
  BY DEF TracesOfLine
<1> DEFINE Old(k) == TracesOfLine(stdout[k].id, stdout[k].applied)
           last == TracesOfLine(reply.id, reply.applied)
<1>4. \A k \in 1 .. n : Old(k)' = Old(k)
  BY <1>2 DEF TracesOfLine
<1>5. Old(n + 1)' = last
  BY <1>2 DEF TracesOfLine
<1>6. TracesAnswered = UNION {Old(k) : k \in 1 .. n}
  BY <1>2 DEF TracesAnswered
<1>7. TracesAnswered' = UNION {Old(k)' : k \in (1 .. n) \cup {n + 1}}
  BY <1>2 DEF TracesAnswered
<1> HIDE DEF Old, last
<1>8. {Old(k)' : k \in (1 .. n) \cup {n + 1}} = {Old(k) : k \in 1 .. n} \cup {last}
  BY <1>4, <1>5
<1>9. TracesAnswered' = TracesAnswered \cup last
  BY <1>6, <1>7, <1>8
<1> QED BY <1>9 DEF last

\* A request that is answered at once, without a trace.
LEMMA AnswerWritten ==
  ASSUME IdeInv, session.driver = "ide", Reading, Line.form = "request",
         NEW reply \in Replies, stdin' = Tail(stdin), stdout' = Append(stdout, reply),
         UNCHANGED <<stderr, proc, batch>>, UnchangedClient,
         reply.id = LineId, reply.applied = 0,
         Line.method = "apply" /\ reply.code = 0 => reply.errors = << 0 >>,
         reply.artifacts > 0 => open,
         open' \in BOOLEAN,
         open' => open \/ (Line.method = "open" /\ reply.code = 0)
  PROVE  IdeInv'
<1>1. PICK n \in Nat : n = Len(stdout)
  BY DEF IdeInv, Types
<1>2. /\ stdin' = Tail(stdin) /\ stdout' = Append(stdout, reply)
      /\ session' = session /\ sent' = sent /\ stderr' = stderr /\ batch' = batch
      /\ client' = client /\ batch = NoBatch /\ proc = "running" /\ proc' = "running"
  BY DEF UnchangedClient, Reading
<1>3. /\ n \in Nat /\ DOMAIN stdout = 1 .. n /\ DOMAIN stdout' = 1 .. n + 1
      /\ stdout' \in Seq(Replies) /\ stdout'[n + 1] = reply
      /\ \A k \in 1 .. n : stdout'[k] = stdout[k]
  BY <1>1, <1>2, OneMore DEF IdeInv, Types
<1>4. /\ stdin' \in Seq(Lines) /\ StdinIsRest' /\ ReadLines' = ReadLines \cup {LineId}
      /\ LineId \notin ReadLines /\ LineId \in Nat
      /\ Line = sent[LineId]
  BY <1>2, LineRead, RestRead DEF IdeInv
<1>5. \A k \in 1 .. n : stdout[k] \in Replies /\ stdout[k].id \in ReadLines /\ stdout[k].id < LineId
  <2>1. ReadLines = 1 .. LinesRead /\ LineId = LinesRead + 1 /\ LinesRead \in Nat
    BY <1>2, LineRead, RestRead DEF ReadLines, LinesRead, IdeInv
  <2> QED BY <1>3, <2>1, RepliesKnown
<1>6. Types'
  BY <1>2, <1>3, <1>4 DEF IdeInv, Types
<1>7. BatchValid'
  BY <1>2 DEF BatchValid
<1>8. Opened => Opened'
  BY <1>2, <1>3 DEF Opened
<1>9. OpenValid'
  <2>1. CASE open
    BY <1>2, <1>8, <2>1 DEF IdeInv, OpenValid
  <2>2. CASE ~open
    <3> SUFFICES ASSUME open'
                 PROVE  Opened'
      BY DEF OpenValid
    <3>1. n + 1 \in DOMAIN stdout' /\ sent'[stdout'[n + 1].id].method = "open" /\ stdout'[n + 1].code = 0
      BY <1>2, <1>3, <1>4, <2>2
    <3> QED BY <3>1 DEF Opened
  <2> QED BY <2>1, <2>2
<1>10. RepliesInOrder'
  <2>1. ASSUME NEW j \in DOMAIN stdout', NEW k \in DOMAIN stdout', j < k
        PROVE  stdout'[j].id < stdout'[k].id
    <3>1. CASE k \in 1 .. n
      BY <1>3, <2>1, <3>1 DEF IdeInv, RepliesInOrder
    <3>2. CASE k = n + 1
      BY <1>3, <1>5, <2>1, <3>2
    <3> QED BY <1>3, <3>1, <3>2
  <2>2. {stdout'[k].id : k \in DOMAIN stdout'} = {stdout[k].id : k \in DOMAIN stdout} \cup {LineId}
    BY <1>3
  <2>3. LineId # batch.id /\ sent'[LineId].form = "request"
    BY <1>2, <1>4, LineRead DEF IdeInv, NoBatch
  <2>4. {i \in ReadLines' : sent'[i].form = "request" /\ i # batch'.id}
          = {i \in ReadLines : sent[i].form = "request" /\ i # batch.id} \cup {LineId}
    BY <1>2, <1>4, <2>3
  <2> DEFINE due == {i \in ReadLines : sent[i].form = "request" /\ i # batch.id}
             ids == {stdout[k].id : k \in DOMAIN stdout}
  <2>5. ids = due
    BY <1>2, NoneLost DEF IdeInv, RepliesInOrder
  <2>6. ids' \subseteq due' /\ due' \ ids' = {}
    <3>1. ids' = ids \cup {LineId} /\ due' = due \cup {LineId}
      BY <2>2, <2>4
    <3> HIDE DEF ids, due
    <3> QED BY <2>5, <3>1
  <2> QED BY <2>1, <2>6 DEF RepliesInOrder
<1>11. \A k \in 1 .. n : OpenedBefore(k)' <=> OpenedBefore(k)
  <2>1. \A k \in 1 .. n : \A j \in 1 .. k - 1 : j \in 1 .. n
    BY <1>3
  <2> QED BY <1>2, <1>3, <2>1 DEF OpenedBefore
<1>12. \A k \in DOMAIN stdout' :
         stdout'[k].applied > 0 \/ stdout'[k].artifacts > 0 => OpenedBefore(k)'
  <2> SUFFICES ASSUME NEW k \in DOMAIN stdout',
                      stdout'[k].applied > 0 \/ stdout'[k].artifacts > 0
               PROVE  OpenedBefore(k)'
    OBVIOUS
  <2>1. CASE k \in 1 .. n
    BY <1>3, <1>11, <2>1 DEF IdeInv, AppliedIsTraced
  <2>2. CASE k = n + 1
    <3>1. reply.artifacts > 0
      BY <1>3, <2>2
    <3>2. Opened
      BY <1>2, <3>1 DEF IdeInv, OpenValid
    <3> QED BY <1>2, <1>3, <2>2, <3>2 DEF OpenedBefore, Opened
  <2> QED BY <1>3, <2>1, <2>2
<1>13. TracesApplied' = TracesApplied
  <2>1. TracesAnswered' = TracesAnswered \cup TracesOfLine(LineId, 0)
    BY <1>1, <1>2, <1>3, AnsweredMore DEF IdeInv, Types
  <2>2. TracesOfLine(LineId, 0) = {}
    BY DEF TracesOfLine
  <2>3. TracesUnderWay = {} /\ TracesUnderWay' = {}
    BY <1>2 DEF TracesUnderWay
  <2> QED BY <2>1, <2>2, <2>3 DEF TracesApplied
<1>14. ASSUME NEW k \in DOMAIN stdout',
              sent'[stdout'[k].id].method = "apply" /\ stdout'[k].code = 0 /\ stdout'[k].errors # << 0 >>
       PROVE  stdout'[k].applied + Len(stdout'[k].errors) = Len(sent'[stdout'[k].id].muts)
  <2>1. CASE k \in 1 .. n
    BY <1>2, <1>3, <1>14, <2>1 DEF IdeInv, AppliedIsTraced
  <2>2. CASE k = n + 1
    BY <1>2, <1>3, <1>4, <1>14, <2>2
  <2> QED BY <1>3, <2>1, <2>2
<1>15. AppliedIsTraced'
  BY <1>2, <1>12, <1>13, <1>14 DEF IdeInv, AppliedIsTraced
<1> QED BY <1>4, <1>6, <1>7, <1>9, <1>10, <1>15 DEF IdeInv

\* The line is read and its reply lost: the sidecar ends.
LEMMA AnswerBroken ==
  ASSUME IdeInv, session.driver = "ide", Reading, stdin' = Tail(stdin), BrokenPipe,
         UNCHANGED <<stdout, stderr, batch>>, UnchangedClient, open' \in BOOLEAN
  PROVE  IdeInv'
<1>1. /\ sent' = sent /\ session' = session /\ client' = client /\ batch' = batch
      /\ batch = NoBatch /\ proc = "running" /\ proc' = "failed" /\ client.gone
      /\ stdout' = stdout /\ stderr' = stderr
  BY DEF UnchangedClient, Reading, BrokenPipe
<1>2. /\ stdin' \in Seq(Lines) /\ StdinIsRest' /\ ReadLines' = ReadLines \cup {LineId}
      /\ LinesRead' = LineId
  BY <1>1, LineRead, RestRead DEF IdeInv
<1>3. Types'
  BY <1>1, <1>2 DEF IdeInv, Types
<1>4. BatchValid'
  BY <1>1 DEF BatchValid
<1>5. RepliesInOrder'
  <2> DEFINE due == {i \in ReadLines : sent[i].form = "request" /\ i # batch.id}
             ids == {stdout[k].id : k \in DOMAIN stdout}
  <2>1. ids = due
    BY <1>1, NoneLost DEF IdeInv, RepliesInOrder
  <2>2. LostReply' = {LineId}
    BY <1>1, <1>2 DEF LostReply, LinesRead
  <2>3. ids' = ids /\ due \subseteq due' /\ due' \subseteq due \cup {LineId}
    BY <1>1, <1>2
  <2>4. ids' \subseteq due' /\ due' \ ids' \subseteq LostReply'
    <3> HIDE DEF ids, due
    <3> QED BY <2>1, <2>2, <2>3
  <2>5. \A j, k \in DOMAIN stdout' : j < k => stdout'[j].id < stdout'[k].id
    BY <1>1 DEF IdeInv, RepliesInOrder
  <2> QED BY <2>4, <2>5 DEF RepliesInOrder
<1> QED BY <1>1, <1>2, <1>3, <1>4, <1>5, QuietStep

LEMMA AnswerIde ==
  ASSUME IdeInv, session.driver = "ide", Reading, Line.form = "request",
         NEW reply \in Replies, Answer(reply), reply.id = LineId, reply.applied = 0,
         Line.method = "apply" /\ reply.code = 0 => reply.errors = << 0 >>,
         reply.artifacts > 0 => open,
         open' \in BOOLEAN,
         open' => open \/ (Line.method = "open" /\ reply.code = 0)
  PROVE  IdeInv'
<1>1. stdin' = Tail(stdin) /\ UNCHANGED <<stderr, batch>> /\ UnchangedClient
  BY DEF Answer
<1>2. CASE stdout' = Append(stdout, reply) /\ UNCHANGED proc
  BY <1>1, <1>2, AnswerWritten
<1>3. CASE BrokenPipe /\ UNCHANGED stdout
  BY <1>1, <1>3, AnswerBroken
<1> QED BY <1>2, <1>3 DEF Answer, WriteReply

LEMMA AnswersIde ==
  ASSUME IdeInv, session.driver = "ide",
         RefuseVersion \/ AnswerPing \/ RefuseMethod \/ RefuseParams
           \/ HandleProjectOpen \/ RefuseApply \/ HandleExport
  PROVE  IdeInv'
<1>1. Reading /\ Line.form = "request" /\ LineId \in Nat \ {0} /\ open \in BOOLEAN
  <2>1. Reading /\ Line.form = "request"
    <3>1. RefuseVersion \/ AnswerPing \/ RefuseMethod \/ RefuseParams
            => Reading /\ Line.form = "request"
      BY DEF RefuseVersion, AnswerPing, RefuseMethod, RefuseParams, Served
    <3>2. HandleProjectOpen => Reading /\ Line.form = "request"
      BY DEF HandleProjectOpen, Served
    <3>3. RefuseApply => Reading /\ Line.form = "request"
      BY DEF RefuseApply, Served
    <3>4. HandleExport => Reading /\ Line.form = "request"
      BY DEF HandleExport, Served
    <3> QED BY <3>1, <3>2, <3>3, <3>4
  <2> QED BY <2>1, LineRead DEF IdeInv, Types
<1>2. /\ <<>> \in Seq(Nat) /\ << 0 >> \in Seq(Nat)
      /\ 0 \in Int /\ -32600 \in Int /\ -32601 \in Int /\ InvalidParamsCode \in Int \ {0}
      /\ ExportFailedCode \in Int \ {0} /\ -32010 \in Int \ {0} /\ -32001 \in Int \ {0}
  BY DEF InvalidParamsCode, ExportFailedCode
<1>3. ASSUME NEW code \in Int \ {0}, Answer(Failure(LineId, code)), open' = open
      PROVE  IdeInv'
  <2> DEFINE r == Failure(LineId, code)
  <2>1. r \in Replies /\ r.id = LineId /\ r.code # 0 /\ r.applied = 0 /\ r.artifacts = 0
    BY <1>1, <1>2, <1>3 DEF Failure, Reply, Replies
  <2> HIDE DEF r
  <2> QED BY <1>1, <1>3, <2>1, AnswerIde DEF r
<1>4. ASSUME NEW n \in Nat, Answer(Reply(LineId, 0, 0, <<>>, n)), open' \in BOOLEAN,
             Line.method # "apply",
             n > 0 => open,
             open' => open \/ Line.method = "open"
      PROVE  IdeInv'
  <2> DEFINE r == Reply(LineId, 0, 0, <<>>, n)
  <2>1. r \in Replies /\ r.id = LineId /\ r.code = 0 /\ r.applied = 0 /\ r.artifacts = n
    BY <1>1, <1>2 DEF Reply, Replies
  <2> HIDE DEF r
  <2>2. Answer(r)
    BY <1>4 DEF r
  <2> QED BY <1>1, <1>4, <2>1, <2>2, AnswerIde
<1>5. CASE RefuseVersion \/ RefuseMethod \/ RefuseParams
  BY <1>2, <1>3, <1>5 DEF RefuseVersion, RefuseMethod, RefuseParams
<1>6. CASE AnswerPing
  BY <1>1, <1>4, <1>6 DEF AnswerPing, Served, Success
<1>7. CASE HandleProjectOpen
  <2>1. CASE open' = TRUE /\ Answer(Success(LineId))
    BY <1>4, <1>7, <2>1 DEF HandleProjectOpen, Served, Success
  <2>2. CASE Answer(Failure(LineId, -32010)) /\ UNCHANGED open
    BY <1>2, <1>3, <2>2
  <2>3. \/ open' = TRUE /\ Answer(Success(LineId))
        \/ Answer(Failure(LineId, -32010))
    BY <1>7 DEF HandleProjectOpen
  <2>4. \/ open' = TRUE /\ Answer(Success(LineId))
        \/ UNCHANGED open
    BY <1>7 DEF HandleProjectOpen
  <2>5. Answer(Failure(LineId, -32010)) /\ UNCHANGED open => IdeInv'
    BY <2>2
  <2>6. open' = TRUE /\ Answer(Success(LineId)) => IdeInv'
    BY <2>1
  <2> QED BY <2>3, <2>4, <2>5, <2>6
<1>8. CASE RefuseApply
  <2>1. CASE session.sidecar = "kicad"
    <3> DEFINE r == Reply(LineId, 0, 0, << 0 >>, 0)
    <3>1. /\ r \in Replies /\ r.id = LineId /\ r.applied = 0 /\ r.artifacts = 0
          /\ r.errors = << 0 >>
      BY <1>1, <1>2 DEF Reply, Replies
    <3>2. Answer(r) /\ open' = open
      BY <1>8, <2>1 DEF RefuseApply
    <3> HIDE DEF r
    <3> QED BY <1>1, <3>1, <3>2, AnswerIde
  <2>2. CASE session.sidecar # "kicad"
    BY <1>2, <1>3, <1>8, <2>2 DEF RefuseApply
  <2> QED BY <2>1, <2>2
<1>9. CASE HandleExport
  <2>1. open' = open /\ Line.method = "export" /\ session.sidecar \in AllSidecars
    BY <1>9 DEF HandleExport, Served, IdeInv, Types
  <2>2. CASE Answer(Failure(LineId, ExportFailedCode))
    BY <1>2, <1>3, <2>1, <2>2
  <2>3. ASSUME NEW n \in {0, 1}, Answer(Reply(LineId, 0, 0, <<>>, n)), open
        PROVE  IdeInv'
    BY <1>1, <1>4, <2>1, <2>3
  <2>4. CASE NeedsProject
    BY <1>9, <2>2, <2>4 DEF HandleExport, NeedsProject
  <2>5. CASE ~NeedsProject /\ session.sidecar = "kicad"
    <3>1. PICK n \in KiCadArtifacts(Line.format) : Answer(Reply(LineId, 0, 0, <<>>, n))
      BY <1>9, <2>5 DEF HandleExport
    <3>2. n \in {0, 1}
      BY <3>1 DEF KiCadArtifacts, KiCadHostExport, KiCadStubExport
    <3> QED BY <2>3, <2>5, <3>1, <3>2 DEF NeedsProject
  <2>6. CASE ~NeedsProject /\ session.sidecar = "freecad"
    <3>1. PICK n \in FreecadArtifacts(Line.format) : Answer(Reply(LineId, 0, 0, <<>>, n))
      BY <1>9, <2>6 DEF HandleExport
    <3>2. n \in {0, 1}
      BY <3>1 DEF FreecadArtifacts
    <3> QED BY <2>3, <2>6, <3>1, <3>2 DEF NeedsProject
  <2> QED BY <2>1, <2>4, <2>5, <2>6 DEF AllSidecars
<1> QED BY <1>5, <1>6, <1>7, <1>8, <1>9

\* A line that is no request has no reply.
LEMMA BlanksIde ==
  ASSUME IdeInv, session.driver = "ide", ReadBlank \/ ReadMalformed
  PROVE  IdeInv'
<1>1. /\ Reading /\ Line.form # "request" /\ batch = NoBatch
      /\ stdin' = Tail(stdin) /\ sent' = sent /\ batch' = batch
      /\ UNCHANGED <<session, stdout, stderr, open, client>> /\ proc = "running"
  <2>1. CASE ReadBlank
    BY <2>1 DEF ReadBlank, Reading, UnchangedClient
  <2>2. CASE ReadMalformed
    BY <2>2 DEF ReadMalformed, Reading, UnchangedClient
  <2> QED BY <2>1, <2>2
<1>2. /\ stdin' \in Seq(Lines) /\ StdinIsRest' /\ ReadLines' = ReadLines \cup {LineId}
      /\ sent[LineId].form # "request"
  BY <1>1, LineRead, RestRead DEF IdeInv
<1>3. Types'
  BY <1>1, <1>2 DEF IdeInv, Types
<1>4. BatchValid'
  BY <1>1 DEF BatchValid
<1>5. {i \in ReadLines' : sent'[i].form = "request" /\ i # batch'.id}
        = {i \in ReadLines : sent[i].form = "request" /\ i # batch.id}
  BY <1>1, <1>2
<1>6. RepliesInOrder'
  BY <1>1, <1>5, NoneLost, SameReplies
<1> QED BY <1>1, <1>2, <1>3, <1>4, <1>6, QuietStep

\* The batch of the line read begins, and has no reply yet.
LEMMA BeginIde ==
  ASSUME IdeInv, session.driver = "ide", BeginApply
  PROVE  IdeInv'
<1>1. /\ Reading /\ Line.form = "request" /\ batch = NoBatch
      /\ stdin' = Tail(stdin) /\ sent' = sent
      /\ UNCHANGED <<session, stdout, stderr, open, client>> /\ open
      /\ proc = "running"
  BY DEF BeginApply, Served, NeedsProject, Reading, UnchangedClient
<1>2. batch' = [id |-> LineId, doc |-> Line.doc, muts |-> Line.muts, at |-> 1,
                half |-> FALSE, applied |-> 0, errors |-> <<>>]
  BY DEF BeginApply
<1>3. /\ stdin' \in Seq(Lines) /\ StdinIsRest' /\ ReadLines' = ReadLines \cup {LineId}
      /\ LineId \notin ReadLines /\ LinesRead' = LineId
      /\ Line \in Lines /\ Line = sent[LineId] /\ LineId \in Nat \ {0}
  BY <1>1, LineRead, RestRead DEF IdeInv, Types
<1>4. /\ Line.doc \in Docs /\ Line.muts \in Seq(Mutations) /\ <<>> \in Seq(Nat)
      /\ Len(Line.muts) \in Nat /\ Len(<<>>) = 0
  BY <1>3 DEF Lines
<1>5. batch' \in Applying
  BY <1>2, <1>3, <1>4 DEF Applying
<1>6. /\ batch'.id = LineId /\ batch'.doc = Line.doc /\ batch'.muts = Line.muts
      /\ batch'.at = 1 /\ batch'.half = FALSE /\ batch'.applied = 0 /\ batch'.errors = <<>>
  BY <1>2
<1>7. batch' # NoBatch
  BY <1>2 DEF NoBatch
<1>8. Types'
  BY <1>1, <1>3, <1>5 DEF IdeInv, Types
<1>9. BatchValid'
  BY <1>1, <1>3, <1>4, <1>6 DEF BatchValid
<1>10. {i \in ReadLines' : sent'[i].form = "request" /\ i # batch'.id}
         = {i \in ReadLines : sent[i].form = "request" /\ i # batch.id}
  <2>1. \A i \in ReadLines : i # batch.id
    BY <1>1 DEF ReadLines, NoBatch
  <2> QED BY <1>1, <1>3, <1>6, <2>1
<1>11. RepliesInOrder'
  BY <1>1, <1>10, NoneLost, SameReplies
<1> QED BY <1>1, <1>3, <1>6, <1>7, <1>8, <1>9, <1>11, QuietStep

\* A step of the client or of the process alone.
LEMMA IdleIde ==
  ASSUME IdeInv, session.driver = "ide",
         UNCHANGED <<session, stdin, stdout, stderr, open, batch, sent>>,
         client' \in IdeClients, client.gone => client'.gone, proc = "failed" => proc' = "failed",
         proc' = "running" => proc = "running"
  PROVE  IdeInv'
<1>1. Types' /\ StdinIsRest' /\ BatchValid'
  BY DEF IdeInv, Types, StdinIsRest, LinesRead, BatchValid
<1>2. LostReply \subseteq LostReply'
  BY DEF LostReply
<1>3. ReadLines' = ReadLines /\ batch' = batch /\ sent' = sent
  BY DEF ReadLines
<1>4. RepliesInOrder'
  BY <1>2, <1>3, SameReplies
<1> QED BY <1>1, <1>3, <1>4, QuietStep

\* A line is written: what was read stays where it is.
LEMMA WritesIde ==
  ASSUME IdeInv, session.driver = "ide", IdeWrites
  PROVE  IdeInv'
<1>1. PICK line \in IdeLines : stdin' = Append(stdin, line) /\ sent' = Append(sent, line)
  BY DEF IdeWrites, Write
<1>2. UNCHANGED <<session, stdout, stderr, open, batch, proc, client>>
  BY DEF IdeWrites, UnchangedRunner
<1>3. line \in Lines
  <2>1. /\ <<>> \in Seq(Mutations) /\ "none" \in Docs /\ "none" \in Formats \cup {"none"}
        /\ IdeBatches \subseteq Seq(Mutations)
    BY DEF Docs, Mutations, Kinds
  <2>2. \A m \in Methods, d \in Docs, b \in Seq(Mutations), f \in Formats \cup {"none"} :
          Request(m, d, b, f) \in Lines
    BY DEF Request, Lines
  <2>3. Ping \in Lines /\ Open \in Lines /\ Unknown \in Lines
    BY <2>1, <2>2 DEF Ping, Open, Unknown, Methods
  <2>4. Blank \in Lines /\ Malformed \in Lines
    BY <2>3 DEF Blank, Malformed, Lines
  <2>5. [Ping EXCEPT !.v2 = FALSE] \in Lines /\ [Open EXCEPT !.fit = FALSE] \in Lines
    BY <2>3 DEF Lines
  <2>6. \A d \in Documents, f \in Formats : Export(d, f) \in Lines
    BY <2>1, <2>2 DEF Export, Methods, Docs
  <2>7. \A d \in Documents, m \in IdeBatches : Apply(d, m) \in Lines
    BY <2>1, <2>2 DEF Apply, Methods, Docs
  <2> DEFINE plain == { Ping, Open, Unknown, Blank, Malformed, [Ping EXCEPT !.v2 = FALSE] }
             exports == { Export(d, f) : d \in Documents, f \in Formats }
             applies == { Apply(d, m) : d \in Documents, m \in IdeBatches }
             unfit == { [Open EXCEPT !.fit = FALSE] }
  <2>8. plain \subseteq Lines /\ unfit \subseteq Lines
    BY <2>3, <2>4, <2>5
  <2>9. exports \subseteq Lines /\ applies \subseteq Lines
    BY <2>6, <2>7
  <2>10. IdeLines = plain \cup exports \cup applies \cup unfit
    BY DEF IdeLines
  <2> HIDE DEF plain, exports, applies, unfit
  <2> QED BY <1>1, <2>8, <2>9, <2>10
<1>4. /\ Len(stdin) \in Nat /\ Len(sent) \in Nat /\ Len(stdin) <= Len(sent)
      /\ Len(stdin') = Len(stdin) + 1 /\ Len(sent') = Len(sent) + 1
      /\ stdin' \in Seq(Lines) /\ sent' \in Seq(Lines)
      /\ \A i \in 1 .. Len(stdin) : stdin'[i] = stdin[i]
      /\ \A i \in 1 .. Len(sent) : sent'[i] = sent[i]
      /\ stdin'[Len(stdin) + 1] = line /\ sent'[Len(sent) + 1] = line
  BY <1>1, <1>3 DEF IdeInv, Types, StdinIsRest
<1>5. LinesRead' = LinesRead /\ ReadLines' = ReadLines /\ LinesRead \in Nat
      /\ LinesRead + Len(stdin) = Len(sent)
  BY <1>4 DEF LinesRead, ReadLines
<1>6. StdinIsRest'
  <2>1. ASSUME NEW i \in 1 .. Len(stdin')
        PROVE  stdin'[i] = sent'[LinesRead + i]
    <3>1. CASE i \in 1 .. Len(stdin)
      <4>1. LinesRead + i \in 1 .. Len(sent)
        BY <1>4, <1>5, <3>1
      <4> QED BY <1>4, <3>1, <4>1 DEF IdeInv, StdinIsRest
    <3>2. CASE i = Len(stdin) + 1
      BY <1>4, <1>5, <3>2
    <3> QED BY <1>4, <3>1, <3>2
  <2> QED BY <1>4, <1>5, <2>1 DEF StdinIsRest
<1>7. Types'
  BY <1>2, <1>4 DEF IdeInv, Types
<1>8. BatchValid'
  <2>1. batch # NoBatch => batch.id \in 1 .. Len(sent)
    BY <1>4, <1>5 DEF IdeInv, BatchValid, Types, Applying
  <2> QED BY <1>2, <1>4, <1>5, <2>1 DEF IdeInv, BatchValid
<1>9. {i \in ReadLines' : sent'[i].form = "request" /\ i # batch'.id}
        = {i \in ReadLines : sent[i].form = "request" /\ i # batch.id}
  BY <1>2, <1>4, <1>5 DEF ReadLines, LinesRead
<1>10. LostReply' = LostReply
  BY <1>2, <1>5 DEF LostReply, LinesRead
<1>11. RepliesInOrder'
  BY <1>2, <1>9, <1>10, SameReplies
<1> QED BY <1>2, <1>4, <1>6, <1>7, <1>8, <1>11, QuietStep

\* The batch is over, and its line is answered with what was counted.
LEMMA EndWritten ==
  ASSUME IdeInv, session.driver = "ide", proc = "running", batch # NoBatch,
         batch.at > Len(batch.muts), batch' = NoBatch,
         stdout' = Append(stdout, Reply(batch.id, 0, batch.applied, batch.errors, 0)),
         UNCHANGED <<session, stdin, stderr, proc, open, client, sent>>
  PROVE  IdeInv'
<1> DEFINE reply == Reply(batch.id, 0, batch.applied, batch.errors, 0)
<1>1. /\ batch # NoBatch /\ batch' = NoBatch /\ stdout' = Append(stdout, reply)
      /\ UNCHANGED <<session, stdin, stderr, open, client, sent>>
      /\ batch.at > Len(batch.muts) /\ proc = "running" /\ proc' = "running"
  OBVIOUS
<1>2. /\ batch \in Applying /\ batch.id \in Nat \ {0} /\ batch.applied \in Nat
      /\ batch.errors \in Seq(Nat) /\ batch.at \in Nat \ {0} /\ Len(batch.muts) \in Nat
  BY <1>1 DEF IdeInv, Types, Applying
<1>3. /\ batch.id = LinesRead /\ sent[batch.id].form = "request"
      /\ batch.applied + Len(batch.errors) = Len(sent[batch.id].muts)
      /\ session.sidecar = "kicad" => batch.applied = batch.at - 1
      /\ ~batch.half /\ open
  BY <1>1, <1>2 DEF IdeInv, BatchValid
<1>4. /\ reply \in Replies /\ reply.id = batch.id /\ reply.code = 0
      /\ reply.applied = batch.applied /\ reply.errors = batch.errors /\ reply.artifacts = 0
  BY <1>2 DEF Reply, Replies
<1> HIDE DEF reply
<1>5. PICK n \in Nat : n = Len(stdout)
  BY DEF IdeInv, Types
<1>6. /\ DOMAIN stdout = 1 .. n /\ DOMAIN stdout' = 1 .. n + 1
      /\ stdout' \in Seq(Replies) /\ stdout'[n + 1] = reply
      /\ \A k \in 1 .. n : stdout'[k] = stdout[k]
  BY <1>1, <1>4, <1>5, OneMore DEF IdeInv, Types
<1>7. \A k \in 1 .. n : stdout[k] \in Replies /\ stdout[k].id \in Nat /\ stdout[k].id < batch.id
  <2>1. ReadLines = 1 .. batch.id
    BY <1>3 DEF ReadLines, LinesRead
  <2>2. \A k \in 1 .. n : stdout[k] \in Replies /\ stdout[k].id \in ReadLines
                          /\ stdout[k].id # batch.id
    BY <1>6, RepliesKnown
  <2> QED BY <1>2, <2>1, <2>2
<1>8. Types'
  BY <1>1, <1>6 DEF IdeInv, Types
<1>9. StdinIsRest' /\ BatchValid'
  BY <1>1 DEF IdeInv, StdinIsRest, LinesRead, BatchValid
<1>10. OpenValid'
  <2>1. Opened => Opened'
    BY <1>1, <1>6 DEF Opened
  <2> QED BY <1>1, <2>1 DEF IdeInv, OpenValid
<1>11. RepliesInOrder'
  <2>1. ASSUME NEW j \in DOMAIN stdout', NEW k \in DOMAIN stdout', j < k
        PROVE  stdout'[j].id < stdout'[k].id
    <3>1. CASE k \in 1 .. n
      BY <1>6, <2>1, <3>1 DEF IdeInv, RepliesInOrder
    <3>2. CASE k = n + 1
      BY <1>4, <1>6, <1>7, <2>1, <3>2
    <3> QED BY <1>6, <3>1, <3>2
  <2>2. {stdout'[k].id : k \in DOMAIN stdout'} = {stdout[k].id : k \in DOMAIN stdout} \cup {batch.id}
    BY <1>4, <1>6
  <2>3. {i \in ReadLines' : sent'[i].form = "request" /\ i # batch'.id}
          = {i \in ReadLines : sent[i].form = "request" /\ i # batch.id} \cup {batch.id}
    <3>1. ReadLines' = ReadLines /\ sent' = sent /\ batch'.id = 0
      BY <1>1 DEF ReadLines, NoBatch
    <3>2. ReadLines = 1 .. batch.id
      BY <1>3 DEF ReadLines, LinesRead
    <3> QED BY <1>2, <1>3, <3>1, <3>2
  <2> DEFINE due == {i \in ReadLines : sent[i].form = "request" /\ i # batch.id}
             ids == {stdout[k].id : k \in DOMAIN stdout}
  <2>5. ids = due
    BY <1>1, NoneLost DEF IdeInv, RepliesInOrder
  <2>6. ids' \subseteq due' /\ due' \ ids' = {}
    <3>1. ids' = ids \cup {batch.id} /\ due' = due \cup {batch.id}
      BY <2>2, <2>3
    <3> HIDE DEF ids, due
    <3> QED BY <2>5, <3>1
  <2> QED BY <2>1, <2>6 DEF RepliesInOrder
<1>12. \A k \in DOMAIN stdout' :
         stdout'[k].applied > 0 \/ stdout'[k].artifacts > 0 => OpenedBefore(k)'
  <2> SUFFICES ASSUME NEW k \in DOMAIN stdout',
                      stdout'[k].applied > 0 \/ stdout'[k].artifacts > 0
               PROVE  OpenedBefore(k)'
    OBVIOUS
  <2>1. CASE k \in 1 .. n
    <3>1. OpenedBefore(k)
      BY <1>6, <2>1 DEF IdeInv, AppliedIsTraced
    <3>2. \A j \in 1 .. k - 1 : j \in 1 .. n
      BY <2>1
    <3> QED BY <1>1, <1>6, <3>1, <3>2 DEF OpenedBefore
  <2>2. CASE k = n + 1
    <3>1. Opened
      BY <1>1, <1>3 DEF IdeInv, OpenValid
    <3> QED BY <1>1, <1>6, <2>2, <3>1 DEF OpenedBefore, Opened
  <2> QED BY <1>6, <2>1, <2>2
<1>13. session.sidecar = "kicad" => TracesApplied' = TracesApplied
  <2> SUFFICES ASSUME session.sidecar = "kicad"
               PROVE  TracesApplied' = TracesApplied
    OBVIOUS
  <2>1. TracesAnswered' = TracesAnswered \cup TracesOfLine(batch.id, batch.at - 1)
    BY <1>1, <1>3, <1>4, AnsweredMore DEF IdeInv, Types
  <2>2. TracesUnderWay = TracesOfLine(batch.id, batch.at - 1) /\ TracesUnderWay' = {}
    BY <1>1, <1>3 DEF TracesUnderWay
  <2> QED BY <2>1, <2>2 DEF TracesApplied
<1>14. ASSUME NEW k \in DOMAIN stdout',
              sent'[stdout'[k].id].method = "apply" /\ stdout'[k].code = 0 /\ stdout'[k].errors # << 0 >>
       PROVE  stdout'[k].applied + Len(stdout'[k].errors) = Len(sent'[stdout'[k].id].muts)
  <2>1. CASE k \in 1 .. n
    BY <1>1, <1>6, <1>14, <2>1 DEF IdeInv, AppliedIsTraced
  <2>2. CASE k = n + 1
    BY <1>1, <1>3, <1>4, <1>6, <2>2
  <2> QED BY <1>6, <2>1, <2>2
<1>15. AppliedIsTraced'
  BY <1>1, <1>12, <1>13, <1>14 DEF IdeInv, AppliedIsTraced
<1> QED BY <1>8, <1>9, <1>10, <1>11, <1>15 DEF IdeInv

LEMMA EndIde ==
  ASSUME IdeInv, session.driver = "ide", EndApply
  PROVE  IdeInv'
<1>1. /\ proc = "running" /\ batch # NoBatch /\ batch.at > Len(batch.muts)
      /\ batch' = IF client.gone THEN batch ELSE NoBatch
      /\ UNCHANGED <<session, stdin, stderr, open, client, sent>>
  BY DEF EndApply, UnchangedClient
<1>2. CASE /\ Room(stdout, client.out) /\ UNCHANGED proc
           /\ stdout' = Append(stdout, Reply(batch.id, 0, batch.applied, batch.errors, 0))
  <2>1. batch' = NoBatch
    BY <1>1, <1>2 DEF Room
  <2> QED BY <1>1, <1>2, <2>1, EndWritten
<1>3. CASE BrokenPipe /\ UNCHANGED stdout
  BY <1>1, <1>3, IdleIde DEF BrokenPipe, IdeInv, Types
<1> QED BY <1>2, <1>3 DEF EndApply, WriteReply

LEMMA OneCounted ==
  ASSUME NEW a \in Nat, NEW e \in Nat, NEW n \in Nat, a + e = n - 1
  PROVE  (a + 1) + e = n /\ a + (e + 1) = n /\ (n + 1) - 1 = n
OBVIOUS

\* FreeCAD counts or reports one mutation more.
LEMMA MapIde ==
  ASSUME IdeInv, session.driver = "ide", MapMutation
  PROVE  IdeInv'
<1>1. /\ batch # NoBatch /\ batch.at <= Len(batch.muts) /\ session.sidecar = "freecad"
      /\ UNCHANGED <<session, stdin, stdout, stderr, proc, open, client, sent>>
  BY DEF MapMutation, AtMutation, UnchangedClient
<1>2. /\ batch \in Applying /\ batch.id \in Nat \ {0} /\ batch.applied \in Nat
      /\ batch.errors \in Seq(Nat) /\ batch.at \in Nat \ {0} /\ Len(batch.muts) \in Nat
  BY <1>1 DEF IdeInv, Types, Applying
<1>3. /\ Append(batch.errors, batch.at) \in Seq(Nat)
      /\ Len(Append(batch.errors, batch.at)) = Len(batch.errors) + 1 /\ Len(batch.errors) \in Nat
  BY <1>2
<1>4. /\ batch.id = LinesRead /\ sent[batch.id].form = "request"
      /\ batch.doc = sent[batch.id].doc /\ batch.muts = sent[batch.id].muts
      /\ batch.applied + Len(batch.errors) = batch.at - 1 /\ ~batch.half /\ open
  BY <1>1 DEF IdeInv, BatchValid
<1>5. \/ batch' = [batch EXCEPT !.at = batch.at + 1, !.applied = batch.applied + 1]
      \/ batch' = [batch EXCEPT !.at = batch.at + 1, !.errors = Append(batch.errors, batch.at)]
  BY DEF MapMutation
<1>6. /\ batch' \in Applying
      /\ batch'.id = batch.id /\ batch'.doc = batch.doc /\ batch'.muts = batch.muts
      /\ batch'.at = batch.at + 1 /\ batch'.half = batch.half
      /\ batch'.applied + Len(batch'.errors) = batch.at
  <2>1. /\ batch.at + 1 \in Nat \ {0} /\ batch.applied + 1 \in Nat
        /\ batch.at \in Nat /\ batch.applied \in Nat /\ Len(batch.errors) \in Nat
    BY <1>2, <1>3
  <2>4. /\ (batch.applied + 1) + Len(batch.errors) = batch.at
        /\ batch.applied + (Len(batch.errors) + 1) = batch.at
    <3>1. PICK a \in Nat, e \in Nat, n \in Nat :
            a = batch.applied /\ e = Len(batch.errors) /\ n = batch.at
      BY <2>1
    <3>2. a + e = n - 1
      BY <1>4, <3>1
    <3>3. (a + 1) + e = n /\ a + (e + 1) = n
      BY <3>2, OneCounted
    <3> QED BY <3>1, <3>3
  <2>2. CASE batch' = [batch EXCEPT !.at = batch.at + 1, !.applied = batch.applied + 1]
    <3>1. batch' \in Applying /\ batch'.applied = batch.applied + 1 /\ batch'.errors = batch.errors
      BY <1>2, <2>1, <2>2 DEF Applying
    <3>2. Len(batch'.errors) = Len(batch.errors)
      BY <3>1
    <3>3. batch'.applied + Len(batch'.errors) = batch.at
      BY <2>4, <3>1, <3>2
    <3> QED BY <1>2, <2>2, <3>1, <3>3 DEF Applying
  <2>3. CASE batch' = [batch EXCEPT !.at = batch.at + 1, !.errors = Append(batch.errors, batch.at)]
    <3>1. batch' \in Applying /\ batch'.applied = batch.applied
          /\ batch'.errors = Append(batch.errors, batch.at)
      BY <1>2, <1>3, <2>1, <2>3 DEF Applying
    <3>2. Len(batch'.errors) = Len(batch.errors) + 1
      BY <1>3, <3>1
    <3>3. batch'.applied + Len(batch'.errors) = batch.at
      BY <2>4, <3>1, <3>2
    <3> QED BY <1>2, <2>3, <3>1, <3>3 DEF Applying
  <2> QED BY <1>5, <2>2, <2>3
<1>7. batch' # NoBatch /\ batch'.at - 1 = batch.at /\ batch'.at <= Len(batch.muts) + 1
  <2>1. NoBatch \notin Applying
    BY DEF NoBatch, Applying
  <2> QED BY <1>1, <1>2, <1>6, <2>1
<1>8. Types' /\ StdinIsRest' /\ OpenValid' /\ BatchValid'
  <2>1. LinesRead' = LinesRead
    BY <1>1 DEF LinesRead
  <2>2. BatchValid'
    BY <1>1, <1>4, <1>6, <1>7, <2>1 DEF BatchValid
  <2> QED BY <1>1, <1>6, <2>1, <2>2 DEF IdeInv, Types, StdinIsRest, OpenValid, Opened
<1>9. RepliesInOrder'
  <2>1. LostReply' = LostReply /\ ReadLines' = ReadLines
    BY <1>1 DEF LostReply, ReadLines
  <2> QED BY <1>1, <1>6, <2>1, SameReplies
<1>10. \A k : OpenedBefore(k)' <=> OpenedBefore(k)
  BY <1>1 DEF OpenedBefore
<1>11. AppliedIsTraced'
  BY <1>1, <1>10 DEF IdeInv, AppliedIsTraced
<1> QED BY <1>8, <1>9, <1>11 DEF IdeInv

\* The two traces of the mutation at hand.
LEMMA DeltaKnown ==
  ASSUME batch \in Applying, batch.at <= Len(batch.muts)
  PROVE  /\ Delta[1] \in Traces /\ Delta[1].line = batch.id
         /\ Delta[1].commit = <<batch.doc, batch.at>> /\ Delta[1].commit[2] = batch.at
         /\ Delta[1].method = "upsertNodes" /\ Delta[1].type = KiCadNodeType(batch.muts[batch.at].kind)
         /\ Delta[2] \in Traces /\ Delta[2].line = batch.id
         /\ Delta[2].commit = <<batch.doc, batch.at>> /\ Delta[2].commit[2] = batch.at
         /\ Delta[2].method = "upsertEdges"
<1>1. /\ batch.id \in Nat /\ batch.at \in Nat /\ batch.doc \in Docs
      /\ batch.muts[batch.at] \in Mutations
  BY DEF Applying
<1>2. PICK m \in Mutations : m = batch.muts[batch.at]
  BY <1>1
<1>3. m.kind \in Kinds /\ KiCadNodeType(m.kind) \in NodeTypes
  BY DEF Mutations, KiCadNodeType, NodeTypes
<1>4. /\ Delta[1] = [line |-> batch.id, method |-> "upsertNodes", commit |-> <<batch.doc, batch.at>>,
                     node |-> <<m.kind, batch.at>>, type |-> KiCadNodeType(m.kind)]
      /\ Delta[2] = [line |-> batch.id, method |-> "upsertEdges", commit |-> <<batch.doc, batch.at>>,
                     node |-> <<m.kind, batch.at>>, type |-> "applies_mutation"]
  BY <1>2 DEF Delta, KiCadDelta
<1>5. Delta[1] \in Traces
  BY <1>1, <1>3, <1>4 DEF Traces
<1>6. Delta[2] \in Traces
  BY <1>1, <1>3, <1>4 DEF Traces
<1>7. /\ Delta[1].line = batch.id /\ Delta[1].commit = <<batch.doc, batch.at>>
      /\ Delta[1].method = "upsertNodes" /\ Delta[1].type = KiCadNodeType(m.kind)
  BY <1>4
<1>8. /\ Delta[2].line = batch.id /\ Delta[2].commit = <<batch.doc, batch.at>>
      /\ Delta[2].method = "upsertEdges"
  BY <1>4
<1> QED BY <1>2, <1>5, <1>6, <1>7, <1>8

\* Every trace so far is of an earlier line, of an earlier mutation of the
\* batch, or of the node of the mutation at hand.
LEMMA TracesSoFar ==
  ASSUME IdeInv, session.driver = "ide", session.sidecar = "kicad", batch # NoBatch,
         NEW x \in DOMAIN stderr
  PROVE  \/ stderr[x].line < batch.id
         \/ stderr[x].line = batch.id /\ stderr[x].commit[2] < batch.at
         \/ batch.half /\ stderr[x] = Delta[1]
<1>1. stderr[x] \in TracesApplied
  BY DEF IdeInv, AppliedIsTraced
<1>2. \A i, j, d, u : \A y \in 1 .. 2 :
        /\ KiCadDelta(i, d, j, u)[y].line = i
        /\ KiCadDelta(i, d, j, u)[y].commit[2] = j
  BY DEF KiCadDelta
<1>3. batch.id \in Nat \ {0} /\ batch.at \in Nat \ {0} /\ batch.id = LinesRead
  BY DEF IdeInv, Types, Applying, BatchValid
<1>4. CASE \E k \in DOMAIN stdout : stderr[x] \in TracesOfLine(stdout[k].id, stdout[k].applied)
  <2>1. PICK k \in DOMAIN stdout : stderr[x] \in TracesOfLine(stdout[k].id, stdout[k].applied)
    BY <1>4
  <2>2. stderr[x].line = stdout[k].id
    BY <1>2, <2>1 DEF TracesOfLine
  <2>3. stdout[k].id \in ReadLines /\ stdout[k].id # batch.id
    BY RepliesKnown
  <2> QED BY <1>3, <2>2, <2>3 DEF ReadLines, LinesRead
<1>5. CASE stderr[x] \in TracesOfLine(batch.id, batch.at - 1)
  <2>1. PICK j \in 1 .. batch.at - 1, y \in 1 .. 2 :
          stderr[x] = KiCadDelta(batch.id, sent[batch.id].doc, j, sent[batch.id].muts[j])[y]
    BY <1>5 DEF TracesOfLine
  <2> QED BY <1>2, <1>3, <2>1
<1> QED BY <1>1, <1>4, <1>5 DEF TracesApplied, TracesAnswered, TracesUnderWay

\* One trace more, of the node or of the edge of the mutation at hand, behind
\* all others; with the edge the mutation is counted.
Upserted(y) ==
  /\ y = 1 => ~batch.half /\ batch' = [batch EXCEPT !.half = TRUE]
  /\ y = 2 => batch.half /\ batch' = [batch EXCEPT !.half = FALSE, !.at = batch.at + 1,
                                                   !.applied = batch.applied + 1]

LEMMA TraceIde ==
  ASSUME IdeInv, session.driver = "ide", session.sidecar = "kicad", proc = "running",
         batch # NoBatch, batch.at <= Len(batch.muts),
         NEW y \in {1, 2}, stderr' = Append(stderr, Delta[y]), Upserted(y),
         UNCHANGED <<session, stdin, stdout, proc, open, client, sent>>
  PROVE  IdeInv'
<1>1. /\ batch \in Applying /\ batch.id \in Nat \ {0} /\ batch.applied \in Nat
      /\ batch.errors \in Seq(Nat) /\ batch.at \in Nat \ {0} /\ Len(batch.muts) \in Nat
      /\ batch.doc \in Docs /\ batch.muts[batch.at] \in Mutations /\ Len(batch.errors) \in Nat
  BY DEF IdeInv, Types, Applying
<1>2. /\ batch.id = LinesRead /\ sent[batch.id].form = "request"
      /\ batch.doc = sent[batch.id].doc /\ batch.muts = sent[batch.id].muts
      /\ batch.applied + Len(batch.errors) = batch.at - 1
      /\ batch.applied = batch.at - 1 /\ open
  BY DEF IdeInv, BatchValid
<1>3. /\ Delta[1] \in Traces /\ Delta[2] \in Traces
      /\ Delta[1].line = batch.id /\ Delta[1].commit[2] = batch.at /\ Delta[1].method = "upsertNodes"
      /\ Delta[2].line = batch.id /\ Delta[2].commit[2] = batch.at /\ Delta[2].method = "upsertEdges"
  BY <1>1, DeltaKnown
<1>4. /\ batch' \in Applying /\ batch'.id = batch.id /\ batch'.doc = batch.doc
      /\ batch'.muts = batch.muts /\ batch'.errors = batch.errors
      /\ y = 1 => batch'.at = batch.at /\ batch'.applied = batch.applied /\ batch'.half
      /\ y = 2 => batch'.at = batch.at + 1 /\ batch'.applied = batch.applied + 1 /\ ~batch'.half
  <2>1. CASE y = 1
    BY <1>1, <2>1 DEF Applying, Upserted
  <2>2. CASE y = 2
    <3>1. batch.at \in Nat /\ batch.applied \in Nat
      BY <1>1
    <3>2. batch.at + 1 \in Nat \ {0} /\ batch.applied + 1 \in Nat
      BY <3>1
    <3> QED BY <1>1, <2>2, <3>2 DEF Applying, Upserted
  <2> QED BY <2>1, <2>2
<1>5. batch' # NoBatch
  <2>1. NoBatch \notin Applying
    BY DEF NoBatch, Applying
  <2> QED BY <1>4, <2>1
<1>6. StdinIsRest' /\ OpenValid' /\ BatchValid'
  <2>1. LinesRead' = LinesRead
    BY DEF LinesRead
  <2>2. /\ batch'.at <= Len(batch.muts) + 1
        /\ batch'.applied + Len(batch'.errors) = batch'.at - 1
        /\ batch'.applied = batch'.at - 1
        /\ batch'.half => batch'.at <= Len(batch.muts)
    <3>0. /\ batch.at \in Nat /\ batch.applied \in Nat /\ Len(batch.errors) \in Nat
          /\ Len(batch.muts) \in Nat /\ Len(batch'.errors) = Len(batch.errors)
          /\ batch.at <= Len(batch.muts) /\ batch.applied = batch.at - 1
          /\ batch.applied + Len(batch.errors) = batch.at - 1
      BY <1>1, <1>2, <1>4
    <3>1. CASE y = 1
      <4>1. batch'.at = batch.at /\ batch'.applied = batch.applied
        BY <1>4, <3>1
      <4> QED BY <3>0, <4>1
    <3>2. CASE y = 2
      <4>1. batch'.at = batch.at + 1 /\ batch'.applied = batch.applied + 1 /\ ~batch'.half
        BY <1>4, <3>2
      <4>2. batch'.applied + Len(batch'.errors) = batch.at /\ batch'.at - 1 = batch.at
        BY <3>0, <4>1, OneCounted
      <4>3. batch'.applied = batch'.at - 1
        BY <3>0, <4>1
      <4>4. batch'.at <= Len(batch.muts) + 1
        BY <3>0, <4>1
      <4> QED BY <4>1, <4>2, <4>3, <4>4
    <3> QED BY <3>1, <3>2
  <2>3. BatchValid'
    BY <1>2, <1>4, <2>1, <2>2 DEF BatchValid
  <2> QED BY <2>1, <2>3 DEF IdeInv, StdinIsRest, OpenValid, Opened
<1>7. RepliesInOrder'
  <2>1. LostReply' = LostReply /\ ReadLines' = ReadLines
    BY DEF LostReply, ReadLines
  <2> QED BY <1>4, <2>1, SameReplies
<1>8. PICK n \in Nat : n = Len(stderr)
  <2>1. stderr \in Seq(Traces)
    BY DEF IdeInv, Types
  <2> QED BY <2>1
<1>9. /\ DOMAIN stderr = 1 .. n /\ DOMAIN stderr' = 1 .. n + 1
      /\ stderr' \in Seq(Traces) /\ stderr'[n + 1] = Delta[y]
      /\ \A x \in 1 .. n : stderr'[x] = stderr[x]
  <2>1. Delta[y] \in Traces
    BY <1>3
  <2> QED BY <1>8, <2>1, OneMore DEF IdeInv, Types
<1>10. Types'
  BY <1>4, <1>9 DEF IdeInv, Types
<1>11. \A u, v \in DOMAIN stderr' : u < v => TracedBefore(stderr'[u], stderr'[v])
  <2> SUFFICES ASSUME NEW u \in 1 .. n + 1, NEW v \in 1 .. n + 1, u < v
               PROVE  TracedBefore(stderr'[u], stderr'[v])
    BY <1>9
  <2>0. n \in Nat /\ u \in Nat /\ v \in Nat /\ 1 <= u /\ v <= n + 1 /\ (v \in 1 .. n \/ v = n + 1)
    OBVIOUS
  <2>1. CASE v \in 1 .. n
    <3>1. u \in 1 .. n
      BY <2>1
    <3>2. TracedBefore(stderr[u], stderr[v])
      BY <1>9, <2>1, <3>1 DEF IdeInv, AppliedIsTraced
    <3> QED BY <1>9, <2>1, <3>1, <3>2
  <2>2. CASE v = n + 1
    <3>1. u \in DOMAIN stderr /\ stderr'[u] = stderr[u] /\ stderr'[v] = Delta[y]
      BY <1>9, <2>2
    <3>2. Delta[y].line = batch.id /\ Delta[y].commit[2] = batch.at
      BY <1>3
    <3>3. CASE \/ stderr[u].line < batch.id
               \/ stderr[u].line = batch.id /\ stderr[u].commit[2] < batch.at
      BY <3>1, <3>2, <3>3 DEF TracedBefore
    <3>4. CASE batch.half /\ stderr[u] = Delta[1]
      <4>1. y = 2
        BY <3>4 DEF Upserted
      <4> QED BY <1>3, <3>1, <3>4, <4>1 DEF TracedBefore
    <3>5. \/ stderr[u].line < batch.id
          \/ stderr[u].line = batch.id /\ stderr[u].commit[2] < batch.at
          \/ batch.half /\ stderr[u] = Delta[1]
      BY <3>1, TracesSoFar
    <3> QED BY <3>3, <3>4, <3>5
  <2> QED BY <2>0, <2>1, <2>2
<1>12. TracesApplied' = TracesApplied \cup {Delta[y]}
  <2>1. TracesAnswered' = TracesAnswered
    BY DEF TracesAnswered, TracesOfLine
  <2>2. \A k : TracesOfLine(batch.id, k)' = TracesOfLine(batch'.id, k)
    BY <1>4 DEF TracesOfLine
  <2>3. TracesOfLine(batch'.id, batch'.at - 1) = TracesOfLine(batch.id, batch'.at - 1)
    BY <1>4
  <2>4. TracesUnderWay' = TracesUnderWay \cup {Delta[y]}
    <3>1. CASE y = 1
      <4>1. TracesUnderWay = TracesOfLine(batch.id, batch.at - 1)
        BY <3>1 DEF TracesUnderWay, Upserted
      <4>2. TracesOfLine(batch.id, batch.at - 1)' = TracesOfLine(batch.id, batch.at - 1)
        BY <1>4, <3>1 DEF TracesOfLine
      <4>3. Delta' = Delta
        BY <1>4, <3>1 DEF Delta
      <4>4. TracesUnderWay' = TracesOfLine(batch.id, batch.at - 1) \cup {Delta[1]}
        BY <1>4, <1>5, <3>1, <4>2, <4>3 DEF TracesUnderWay
      <4> QED BY <3>1, <4>1, <4>4
    <3>2. CASE y = 2
      <4>1. TracesUnderWay = TracesOfLine(batch.id, batch.at - 1) \cup {Delta[1]}
        BY <3>2 DEF TracesUnderWay, Upserted
      <4>2. TracesOfLine(batch.id, batch.at - 1)' = TracesOfLine(batch.id, batch.at)
        <5>1. batch'.id = batch.id /\ batch'.at - 1 = batch.at
          BY <1>1, <1>4, <3>2
        <5> QED BY <5>1 DEF TracesOfLine
      <4>3. TracesUnderWay' = TracesOfLine(batch.id, batch.at)
        BY <1>4, <1>5, <3>2, <4>2 DEF TracesUnderWay
      <4>4. TracesOfLine(batch.id, batch.at)
              = TracesOfLine(batch.id, batch.at - 1) \cup {Delta[1], Delta[2]}
        <5>1. 1 .. batch.at = (1 .. batch.at - 1) \cup {batch.at} /\ 1 .. 2 = {1, 2}
          BY <1>1
        <5>2. Delta = KiCadDelta(batch.id, sent[batch.id].doc, batch.at, sent[batch.id].muts[batch.at])
          BY <1>2 DEF Delta
        <5> DEFINE T(j, x) == KiCadDelta(batch.id, sent[batch.id].doc, j, sent[batch.id].muts[j])[x]
        <5>3. /\ TracesOfLine(batch.id, batch.at) = {T(j, x) : j \in 1 .. batch.at, x \in 1 .. 2}
              /\ TracesOfLine(batch.id, batch.at - 1) = {T(j, x) : j \in 1 .. batch.at - 1, x \in 1 .. 2}
              /\ Delta[1] = T(batch.at, 1) /\ Delta[2] = T(batch.at, 2)
          BY <5>2 DEF TracesOfLine
        <5> HIDE DEF T
        <5> QED BY <5>1, <5>3
      <4> QED BY <3>2, <4>1, <4>3, <4>4
    <3> QED BY <3>1, <3>2
  <2> QED BY <2>1, <2>4 DEF TracesApplied
<1>13. {stderr'[x] : x \in DOMAIN stderr'} = TracesApplied'
  <2>1. {stderr'[x] : x \in DOMAIN stderr'} = {stderr[x] : x \in DOMAIN stderr} \cup {Delta[y]}
    BY <1>9
  <2> QED BY <1>12, <2>1 DEF IdeInv, AppliedIsTraced
<1>14. \A k : OpenedBefore(k)' <=> OpenedBefore(k)
  BY DEF OpenedBefore
<1>15. AppliedIsTraced'
  BY <1>11, <1>13, <1>14 DEF IdeInv, AppliedIsTraced
<1> QED BY <1>6, <1>7, <1>10, <1>15 DEF IdeInv

\* Either upsert leaves its trace, or finds the pipe broken and is the last.
LEMMA UpsertIde ==
  ASSUME IdeInv, session.driver = "ide", UpsertNodes \/ UpsertEdges
  PROVE  IdeInv'
<1>1. /\ session.sidecar = "kicad" /\ proc = "running" /\ batch # NoBatch
      /\ batch.at <= Len(batch.muts)
      /\ UNCHANGED <<session, stdin, stdout, open, client, sent>>
  BY DEF UpsertNodes, UpsertEdges, AtMutation, EmitSceneTrace, UnchangedClient
<1>2. CASE BrokenPipe /\ UNCHANGED <<stderr, batch>>
  BY <1>1, <1>2, IdleIde DEF BrokenPipe, IdeInv, Types
<1>3. CASE ~(BrokenPipe /\ UNCHANGED <<stderr, batch>>)
  <2>1. CASE UpsertNodes
    <3>1. /\ ~batch.half /\ stderr' = Append(stderr, Delta[1]) /\ UNCHANGED proc
          /\ batch' = [batch EXCEPT !.half = TRUE]
      BY <1>3, <2>1 DEF UpsertNodes, EmitSceneTrace
    <3>2. Upserted(1)
      BY <3>1 DEF Upserted
    <3> QED BY <1>1, <3>1, <3>2, TraceIde
  <2>2. CASE UpsertEdges
    <3>1. /\ batch.half /\ stderr' = Append(stderr, Delta[2]) /\ UNCHANGED proc
          /\ batch' = [batch EXCEPT !.half = FALSE, !.at = batch.at + 1,
                                     !.applied = batch.applied + 1]
      BY <1>3, <2>2 DEF UpsertEdges, EmitSceneTrace
    <3>2. Upserted(2)
      BY <3>1 DEF Upserted
    <3> QED BY <1>1, <3>1, <3>2, TraceIde
  <2> QED BY <2>1, <2>2
<1> QED BY <1>2, <1>3

--------------------------------------------------------------------------------
(* The invariant *)

LEMMA SessionsKnown == \A s \in Sessions : s.sidecar \in AllSidecars
<1>1. ASSUME NEW t \in { [sidecar |-> s, driver |-> "ide", script |-> <<>>, doc |-> "none", host |-> h] :
                           s \in Sidecars, h \in BOOLEAN }
      PROVE  t.sidecar \in Sidecars
  OBVIOUS
<1>2. ASSUME NEW t \in { [sidecar |-> s, driver |-> "mutation-hook",
                          script |-> MutationHookScript(s, d), doc |-> d, host |-> h] :
                           s \in Sidecars, d \in Documents, h \in BOOLEAN }
      PROVE  t.sidecar \in Sidecars
  OBVIOUS
<1>3. ASSUME NEW t \in { [sidecar |-> s, driver |-> "roundtrip",
                          script |-> RoundtripScript(s, d), doc |-> d, host |-> h] :
                           s \in Sidecars, d \in Documents, h \in BOOLEAN }
      PROVE  t.sidecar \in Sidecars
  OBVIOUS
<1> QED BY <1>1, <1>2, <1>3 DEF Sessions

LEMMA IdeInit == Init => IdeInv
<1> SUFFICES ASSUME Init
             PROVE  IdeInv
  OBVIOUS
<1>1. /\ stdin = <<>> /\ stdout = <<>> /\ stderr = <<>> /\ sent = <<>>
      /\ open = FALSE /\ batch = NoBatch /\ session.sidecar \in AllSidecars
      /\ client \in IdeClients
  BY SessionsKnown DEF Init, IdeClients
<1>2. DOMAIN <<>> = {} /\ Len(<<>>) = 0
  OBVIOUS
<1>3. Types
  <2>1. <<>> \in Seq(Lines) /\ <<>> \in Seq(Replies) /\ <<>> \in Seq(Traces)
    OBVIOUS
  <2>2. batch \in {NoBatch} \cup Applying /\ open \in BOOLEAN
    BY <1>1
  <2> QED BY <1>1, <2>1, <2>2 DEF Types
<1>4. StdinIsRest /\ OpenValid /\ BatchValid
  BY <1>1, <1>2 DEF StdinIsRest, OpenValid, BatchValid
<1>5. ReadLines = {} /\ DOMAIN stdout = {} /\ DOMAIN stderr = {}
  BY <1>1, <1>2 DEF ReadLines
<1>6. RepliesInOrder
  BY <1>5 DEF RepliesInOrder
<1>7. TracesApplied = {}
  BY <1>1, <1>5 DEF TracesApplied, TracesAnswered, TracesUnderWay
<1>8. AppliedIsTraced
  BY <1>5, <1>7 DEF AppliedIsTraced
<1> QED BY <1>3, <1>4, <1>6, <1>8 DEF IdeInv

\* An export is answered, whatever becomes of it.
LEMMA ExportAnswers ==
  ASSUME session.sidecar \in AllSidecars, HandleExport
  PROVE  \E r : Answer(r)
<1>1. CASE NeedsProject
  BY <1>1 DEF HandleExport, NeedsProject
<1>2. CASE ~NeedsProject /\ session.sidecar = "kicad"
  BY <1>2 DEF HandleExport
<1>3. CASE ~NeedsProject /\ session.sidecar = "freecad"
  BY <1>3 DEF HandleExport
<1> QED BY <1>1, <1>2, <1>3 DEF AllSidecars

LEMMA SessionKept ==
  ASSUME session.sidecar \in AllSidecars, [Next]_vars
  PROVE  session' = session
<1>1. \A r : Answer(r) => session' = session
  BY DEF Answer, UnchangedClient
<1>2. CASE RunnerStep
  <2>1. ReadBlank \/ ReadMalformed => session' = session
    BY DEF ReadBlank, ReadMalformed, UnchangedClient
  <2>2. RefuseVersion \/ AnswerPing \/ RefuseMethod \/ RefuseParams => session' = session
    BY <1>1 DEF RefuseVersion, AnswerPing, RefuseMethod, RefuseParams
  <2>3. HandleProjectOpen => session' = session
    BY <1>1 DEF HandleProjectOpen
  <2>4. RefuseApply => session' = session
    BY <1>1 DEF RefuseApply
  <2>5. BeginApply \/ MapMutation \/ UpsertNodes \/ UpsertEdges \/ EndApply \/ EndOfInput
          => session' = session
    BY DEF BeginApply, MapMutation, UpsertNodes, UpsertEdges, EmitSceneTrace, EndApply,
           EndOfInput, UnchangedClient
  <2>6. HandleExport => session' = session
    BY <1>1, ExportAnswers
  <2> QED BY <1>2, <2>1, <2>2, <2>3, <2>4, <2>5, <2>6 DEF RunnerStep
<1>3. CASE Kill
  BY <1>3 DEF Kill, UnchangedClient
<1>4. CASE ClientStep
  BY <1>4 DEF ClientStep, Call, Receive, StdoutClosed, DrainStderr, WaitForSceneTraces,
              WaitTimesOut, Conclude, IdeWrites, IdeCloses, IdeReads, IdeGoes, UnchangedRunner
<1>5. CASE UNCHANGED vars
  BY <1>5 DEF vars
<1> QED BY <1>2, <1>3, <1>4, <1>5 DEF Next

LEMMA IdeNext ==
  ASSUME session.driver = "ide", IdeInv, [Next]_vars
  PROVE  IdeInv'
<1>1. session.driver = "ide" /\ IdeInv
  OBVIOUS
<1>2. CASE RunnerStep
  <2>1. ReadBlank \/ ReadMalformed => IdeInv'
    BY <1>1, BlanksIde
  <2>2. RefuseVersion \/ AnswerPing \/ RefuseMethod \/ RefuseParams
          \/ HandleProjectOpen \/ RefuseApply \/ HandleExport => IdeInv'
    BY <1>1, AnswersIde
  <2>3. BeginApply => IdeInv'
    BY <1>1, BeginIde
  <2>4. MapMutation \/ UpsertNodes \/ UpsertEdges => IdeInv'
    BY <1>1, MapIde, UpsertIde
  <2>5. EndApply => IdeInv'
    BY <1>1, EndIde
  <2>6. EndOfInput => IdeInv'
    BY <1>1, IdleIde DEF EndOfInput, UnchangedClient, IdeInv, Types
  <2> QED BY <1>2, <2>1, <2>2, <2>3, <2>4, <2>5, <2>6 DEF RunnerStep
<1>3. CASE Kill
  BY <1>1, <1>3, IdleIde DEF Kill, UnchangedClient, IdeInv, Types
<1>4. CASE ClientStep
  <2>1. IdeWrites \/ IdeCloses \/ IdeReads \/ IdeGoes
    BY <1>1, <1>4 DEF ClientStep, Call, Receive, StdoutClosed, DrainStderr,
                      WaitForSceneTraces, WaitTimesOut, Conclude, InSuite
  <2>2. IdeWrites => IdeInv'
    BY <1>1, WritesIde
  <2>3. IdeCloses \/ IdeReads \/ IdeGoes => IdeInv'
    <3>1. IdeCloses \/ IdeReads \/ IdeGoes
            => /\ UNCHANGED <<session, stdin, stdout, stderr, proc, open, batch, sent>>
               /\ client' \in IdeClients /\ (client.gone => client'.gone)
      <4>1. client \in IdeClients
        BY <1>1 DEF IdeInv, Types
      <4>2. client.out + 1 \in Nat /\ client.err + 1 \in Nat
        BY <4>1 DEF IdeClients
      <4>3. IdeCloses \/ IdeReads \/ IdeGoes
              => UNCHANGED <<session, stdin, stdout, stderr, proc, open, batch, sent>>
        BY DEF IdeCloses, IdeReads, IdeGoes, UnchangedRunner
      <4>4. IdeCloses => client' \in IdeClients /\ (client.gone => client'.gone)
        BY <4>1 DEF IdeCloses, IdeClients
      <4>5. IdeReads => client' \in IdeClients /\ (client.gone => client'.gone)
        BY <4>1, <4>2 DEF IdeReads, IdeClients
      <4>6. IdeGoes => client' \in IdeClients /\ (client.gone => client'.gone)
        BY <4>1 DEF IdeGoes, IdeClients
      <4> QED BY <4>3, <4>4, <4>5, <4>6
    <3> QED BY <1>1, <3>1, IdleIde
  <2> QED BY <2>1, <2>2, <2>3
<1>5. CASE UNCHANGED vars
  BY <1>1, <1>5, IdleIde DEF vars, IdeInv, Types
<1> QED BY <1>2, <1>3, <1>4, <1>5 DEF Next

\* What an IDE host's session keeps up; the suites' sessions are another matter.
HostInv ==
  /\ session.sidecar \in AllSidecars
  /\ session.driver = "ide" => IdeInv

\* In every session of an IDE host, for any documents, batches and numbers of
\* lines, the lines, replies and traces are what the protocol has, what is not
\* read is the rest of what was written, and the batch under way is accounted
\* for up to the mutation at hand.
THEOREM HostInvariance == Spec => []HostInv
<1>1. Init => HostInv
  BY IdeInit, SessionsKnown DEF HostInv, Init
<1>2. HostInv /\ [Next]_vars => HostInv'
  BY IdeNext, SessionKept DEF HostInv
<1> QED BY <1>1, <1>2, PTL DEF Spec

\* Every request read has exactly one reply, in the order of the requests,
\* however the batches, refusals and the end of the process fall, but for the
\* one whose writing to a broken pipe ended the process.
THEOREM RequestsAreAnswered == Spec => []RepliesInOrder
<1>1. HostInv => RepliesInOrder
  BY DEF HostInv, IdeInv, RepliesInOrder
<1> QED BY <1>1, HostInvariance, PTL

\* What an IDE host is told it applied is what the scene graph was told, in
\* the order of the requests, the mutations and their two upserts, up to a
\* node whose edge a kill or a broken pipe cut off; every mutation of a batch
\* is counted or reported; nothing happens to a project that was not opened.
THEOREM AnsweredIsTraced == Spec => []AppliedIsTraced
<1>1. HostInv => AppliedIsTraced
  BY DEF HostInv, IdeInv, AppliedIsTraced
<1> QED BY <1>1, HostInvariance, PTL

--------------------------------------------------------------------------------
(* The scripts of the suites *)

SuiteSession ==
  /\ session.sidecar \in {"kicad", "freecad"} /\ session.doc \in Documents
  /\ session.driver \in {"mutation-hook", "roundtrip"}
  /\ session.script = IF session.driver = "mutation-hook"
                      THEN MutationHookScript(session.sidecar, session.doc)
                      ELSE RoundtripScript(session.sidecar, session.doc)

\* A well-formed request of the method.
Asks(line, method) ==
  line \in Lines /\ line.form = "request" /\ line.v2 /\ line.fit /\ line.method = method

AsksToApply(line) ==
  /\ Asks(line, "apply") /\ line.doc = session.doc
  /\ line.muts = SuiteMutations(session.sidecar)

AsksToExport(line) == Asks(line, "export") /\ line.format = "step"

IsWait(line) == line.form = "wait" /\ line.nodes = SuiteSize /\ line.edges = SuiteSize

LEMMA RequestsAreLines ==
  ASSUME NEW m \in Methods, NEW d \in Docs, NEW b \in Seq(Mutations),
         NEW f \in Formats \cup {"none"}
  PROVE  /\ Asks(Request(m, d, b, f), m) /\ Request(m, d, b, f).doc = d
         /\ Request(m, d, b, f).muts = b /\ Request(m, d, b, f).format = f
  BY DEF Request, Asks, Lines

\* What a suite applies is in order.
LEMMA SuiteMutationsKnown ==
  ASSUME NEW s \in {"kicad", "freecad"}
  PROVE  /\ SuiteMutations(s) \in Seq(Mutations) /\ Len(SuiteMutations(s)) = SuiteSize
         /\ DOMAIN SuiteMutations(s) = 1 .. SuiteSize
         /\ s = "freecad" => \A i \in 1 .. SuiteSize : FreecadMapsMutation(SuiteMutations(s)[i])
<1> DEFINE kinds == IF s = "kicad" THEN KiCadKinds ELSE FreecadKinds
<1>1. /\ Len(kinds) \in {2, 4} /\ \A i \in 1 .. Len(kinds) : kinds[i] \in Kinds
      /\ s = "freecad" => \A i \in 1 .. Len(kinds) : kinds[i] \in {"solid", "constraint"}
  BY DEF KiCadKinds, FreecadKinds, Kinds
<1>2. \A i \in 1 .. SuiteSize : ((i - 1) % Len(kinds)) + 1 \in 1 .. Len(kinds)
  <2> HIDE DEF kinds
  <2>1. \A n \in Nat \ {0}, i \in Nat : (i % n) \in 0 .. n - 1
    OBVIOUS
  <2>2. \A n \in Nat \ {0}, i \in Nat : (i % n) + 1 \in 1 .. n
    BY <2>1
  <2>3. Len(kinds) \in Nat \ {0} /\ \A i \in 1 .. SuiteSize : i - 1 \in Nat
    BY <1>1
  <2> QED BY <2>2, <2>3
<1>3. SuiteMutations(s) = [i \in 1 .. SuiteSize |->
                             [kind |-> kinds[((i - 1) % Len(kinds)) + 1], payload |-> "valid"]]
  BY DEF SuiteMutations, DeterministicMutations
<1> HIDE DEF kinds
<1>4. \A i \in 1 .. SuiteSize :
        /\ SuiteMutations(s)[i] \in Mutations
        /\ SuiteMutations(s)[i].kind = kinds[((i - 1) % Len(kinds)) + 1]
        /\ SuiteMutations(s)[i].payload = "valid"
  BY <1>1, <1>2, <1>3 DEF Mutations
<1>5. SuiteMutations(s) \in Seq(Mutations) /\ Len(SuiteMutations(s)) = SuiteSize
      /\ DOMAIN SuiteMutations(s) = 1 .. SuiteSize
  <2>1. DOMAIN SuiteMutations(s) = 1 .. SuiteSize
    BY <1>3
  <2>2. SuiteMutations(s) \in [1 .. SuiteSize -> Mutations]
    BY <1>3, <1>4
  <2>3. SuiteMutations(s) \in Seq(Mutations)
    BY <2>2
  <2> QED BY <2>1, <2>3
<1>6. s = "freecad" => \A i \in 1 .. SuiteSize : FreecadMapsMutation(SuiteMutations(s)[i])
  BY <1>1, <1>2, <1>4 DEF FreecadMapsMutation
<1> QED BY <1>5, <1>6

\* The steps of the scripts: ping, open, apply; with KiCad the wait for the
\* traces; in the round trip two exports, and with KiCad the batch again.
LEMMA ScriptKnown ==
  ASSUME SuiteSession
  PROVE  LET S == session.script IN
         /\ Len(S) \in 3 .. 7
         /\ Asks(S[1], "ping") /\ Asks(S[2], "open") /\ AsksToApply(S[3])
         /\ session.sidecar = "kicad" =>
              /\ Len(S) = IF session.driver = "mutation-hook" THEN 4 ELSE 7
              /\ IsWait(S[4])
              /\ Len(S) = 7 => AsksToExport(S[5]) /\ AsksToExport(S[6]) /\ AsksToApply(S[7])
         /\ session.sidecar = "freecad" =>
              /\ Len(S) = IF session.driver = "mutation-hook" THEN 3 ELSE 5
              /\ Len(S) = 5 => AsksToExport(S[4]) /\ AsksToExport(S[5])
<1> DEFINE S == session.script
           s == session.sidecar
           d == session.doc
           a == Apply(d, SuiteMutations(s))
           e == Export(d, "step")
           w == WaitTraces(SuiteSize)
<1>1. s \in {"kicad", "freecad"} /\ d \in Docs /\ "none" \in Docs /\ <<>> \in Seq(Mutations)
  BY DEF SuiteSession, Docs
<1>2. Asks(Ping, "ping") /\ Asks(Open, "open")
  BY <1>1, RequestsAreLines DEF Ping, Open, Methods
<1>3. AsksToApply(a)
  BY <1>1, RequestsAreLines, SuiteMutationsKnown DEF Apply, Methods, AsksToApply
<1>4. AsksToExport(e)
  <2>1. "export" \in Methods /\ "step" \in Formats \cup {"none"}
    BY DEF Methods, Formats
  <2>2. Asks(Request("export", d, <<>>, "step"), "export")
    BY <1>1, <2>1, RequestsAreLines
  <2>3. Request("export", d, <<>>, "step").format = "step"
    BY DEF Request
  <2> QED BY <2>2, <2>3 DEF Export, AsksToExport
<1>5. IsWait(w)
  BY DEF WaitTraces, IsWait
<1> DEFINE hook == << Ping, Open, a >>
           waiting == hook \o << w >>
           exporting == waiting \o << e, e >>
           R == { Ping, Open, a, w, e }
<1>6. /\ a \in R /\ w \in R /\ e \in R /\ hook \in Seq(R) /\ Len(hook) = 3
      /\ hook[1] = Ping /\ hook[2] = Open /\ hook[3] = a
  <2> HIDE DEF a, w, e
  <2> QED OBVIOUS
<1>7. MutationHookScript(s, d) = IF s = "kicad" THEN waiting ELSE hook
  <2>1. hook \o <<>> = hook
    BY <1>6
  <2> QED BY <2>1 DEF MutationHookScript
<1>8. waiting \in Seq(R) /\ Len(waiting) = 4 /\ waiting[4] = w
      /\ \A i \in 1 .. 3 : waiting[i] = hook[i]
  <2> HIDE DEF hook, R, a, w, e
  <2>1. hook \in Seq(R) /\ w \in R
    BY <1>6
  <2>2. /\ waiting \in Seq(R) /\ Len(waiting) = Len(hook) + 1
        /\ waiting[Len(hook) + 1] = w
        /\ \A i \in 1 .. Len(hook) : waiting[i] = hook[i]
    BY <2>1, OneAfter
  <2> QED BY <1>6, <2>2
<1>9. exporting \in Seq(R) /\ Len(exporting) = 6 /\ exporting[5] = e /\ exporting[6] = e
      /\ \A i \in 1 .. 4 : exporting[i] = waiting[i]
  <2> HIDE DEF hook, waiting, R, a, w, e
  <2>1. waiting \in Seq(R) /\ e \in R
    BY <1>6, <1>8
  <2>2. /\ exporting \in Seq(R) /\ Len(exporting) = Len(waiting) + 2
        /\ exporting[Len(waiting) + 1] = e /\ exporting[Len(waiting) + 2] = e
        /\ \A i \in 1 .. Len(waiting) : exporting[i] = waiting[i]
    BY <2>1, TwoAfter
  <2> QED BY <1>8, <2>2
<1>10. CASE s = "kicad" /\ session.driver = "mutation-hook"
  <2>1. S = waiting
    BY <1>7, <1>10 DEF SuiteSession
  <2> HIDE DEF S, waiting, hook, a, w
  <2> QED BY <1>2, <1>3, <1>5, <1>6, <1>8, <1>10, <2>1 DEF S
<1>11. CASE s = "kicad" /\ session.driver = "roundtrip"
  <2>1. S = exporting \o << a >>
    BY <1>7, <1>11 DEF SuiteSession, RoundtripScript
  <2>2. Len(S) = 7 /\ S[7] = a /\ \A i \in 1 .. 6 : S[i] = exporting[i]
    <3> HIDE DEF S, exporting, R, a
    <3>1. exporting \in Seq(R) /\ a \in R
      BY <1>6, <1>9
    <3>2. /\ Len(S) = Len(exporting) + 1 /\ S[Len(exporting) + 1] = a
          /\ \A i \in 1 .. Len(exporting) : S[i] = exporting[i]
      BY <2>1, <3>1, OneAfter
    <3> QED BY <1>9, <3>2
  <2> HIDE DEF S, exporting, waiting, hook, a, w, e
  <2> QED BY <1>2, <1>3, <1>4, <1>5, <1>6, <1>8, <1>9, <1>11, <2>2 DEF S
<1>12. CASE s = "freecad" /\ session.driver = "mutation-hook"
  <2>1. S = hook
    BY <1>7, <1>12 DEF SuiteSession
  <2> HIDE DEF S, hook, a
  <2> QED BY <1>2, <1>3, <1>6, <1>12, <2>1 DEF S
<1>13. CASE s = "freecad" /\ session.driver = "roundtrip"
  <2>1. S = hook \o << e, e >>
    <3>1. (hook \o << e, e >>) \o <<>> = hook \o << e, e >>
      <4> HIDE DEF hook, R, e
      <4>1. hook \o << e, e >> \in Seq(R)
        BY <1>6
      <4> QED BY <4>1
    <3> QED BY <1>7, <1>13, <3>1 DEF SuiteSession, RoundtripScript
  <2>2. Len(S) = 5 /\ S[4] = e /\ S[5] = e /\ \A i \in 1 .. 3 : S[i] = hook[i]
    <3> HIDE DEF S, hook, R, e
    <3>1. hook \in Seq(R) /\ e \in R
      BY <1>6
    <3>2. /\ Len(S) = Len(hook) + 2 /\ S[Len(hook) + 1] = e /\ S[Len(hook) + 2] = e
          /\ \A i \in 1 .. Len(hook) : S[i] = hook[i]
      BY <2>1, <3>1, TwoAfter
    <3> QED BY <1>6, <3>2
  <2> HIDE DEF S, hook, a, e
  <2> QED BY <1>2, <1>3, <1>4, <1>6, <1>13, <2>2 DEF S
<1> QED BY <1>10, <1>11, <1>12, <1>13 DEF SuiteSession

--------------------------------------------------------------------------------
(* Counting traces that alternate *)

LEMMA Halves == \A x \in Nat : \E k \in Nat : x = 2 * k \/ x = 2 * k + 1
<1> TAKE x \in Nat
<1> DEFINE k == x \div 2
<1>1. k \in Nat /\ (x = 2 * k \/ x = 2 * k + 1)
  OBVIOUS
<1> HIDE DEF k
<1> QED BY <1>1

\* Of traces that alternate between nodes and edges, half are of either.
LEMMA CountAlternating ==
  ASSUME NEW s, NEW n \in Nat, DOMAIN s = 1 .. n, NEW k \in Nat, n = 2 * k \/ n = 2 * k + 1,
         \A j \in Nat : 2 * j + 1 \in 1 .. n => s[2 * j + 1].method = "upsertNodes",
         \A j \in Nat : 2 * j \in 1 .. n => s[2 * j].method = "upsertEdges"
  PROVE  TraceCount(s, "upsertEdges") = k /\ TraceCount(s, "upsertNodes") = n - k
<1> DEFINE even == {x \in DOMAIN s : s[x].method = "upsertEdges"}
           odd == {x \in DOMAIN s : s[x].method = "upsertNodes"}
           double == [j \in 1 .. k |-> 2 * j]
           next == [j \in 1 .. n - k |-> 2 * j - 1]
<1>1. \A x \in 1 .. n : \E j \in Nat : x = 2 * j \/ x = 2 * j + 1
  <2>1. \A x \in 1 .. n : x \in Nat
    OBVIOUS
  <2> QED BY <2>1, Halves
<1>2. double \in Bijection(1 .. k, even)
  <2>1. double \in [1 .. k -> even]
    <3>1. \A j \in 1 .. k : j \in Nat /\ 2 * j \in 1 .. n
      OBVIOUS
    <3> QED BY <3>1
  <2>2. \A a, b \in 1 .. k : double[a] = double[b] => a = b
    OBVIOUS
  <2>3. ASSUME NEW x \in even
        PROVE  \E j \in 1 .. k : double[j] = x
    <3>1. x \in 1 .. n /\ s[x].method = "upsertEdges"
      OBVIOUS
    <3>2. PICK j \in Nat : x = 2 * j \/ x = 2 * j + 1
      BY <1>1, <3>1
    <3>3. x = 2 * j
      BY <3>1, <3>2
    <3>4. j \in 1 .. k
      BY <3>1, <3>3
    <3> QED BY <3>3, <3>4
  <2> HIDE DEF double, even
  <2> QED BY <2>1, <2>2, <2>3, Fun_IsBij
<1>3. next \in Bijection(1 .. n - k, odd)
  <2>1. next \in [1 .. n - k -> odd]
    <3>1. ASSUME NEW j \in 1 .. n - k
          PROVE  2 * j - 1 \in odd
      <4>1. j - 1 \in Nat /\ 2 * (j - 1) + 1 = 2 * j - 1 /\ 2 * j - 1 \in 1 .. n
        OBVIOUS
      <4>2. s[2 * (j - 1) + 1].method = "upsertNodes"
        BY <4>1
      <4> QED BY <4>1, <4>2
    <3> QED BY <3>1
  <2>2. \A a, b \in 1 .. n - k : next[a] = next[b] => a = b
    OBVIOUS
  <2>3. ASSUME NEW x \in odd
        PROVE  \E j \in 1 .. n - k : next[j] = x
    <3>1. x \in 1 .. n /\ s[x].method = "upsertNodes"
      OBVIOUS
    <3>2. PICK j \in Nat : x = 2 * j \/ x = 2 * j + 1
      BY <1>1, <3>1
    <3>3. x = 2 * j + 1
      BY <3>1, <3>2
    <3>4. j + 1 \in 1 .. n - k /\ 2 * (j + 1) - 1 = x
      BY <3>1, <3>3
    <3> QED BY <3>4
  <2> HIDE DEF next, odd
  <2> QED BY <2>1, <2>2, <2>3, Fun_IsBij
<1> HIDE DEF even, odd, double, next
<1>4. Cardinality(even) = k
  BY <1>2, FS_CountingElements DEF ExistsBijection
<1>5. n - k \in Nat
  OBVIOUS
<1>6. Cardinality(odd) = n - k
  BY <1>3, <1>5, FS_CountingElements DEF ExistsBijection
<1> QED BY <1>4, <1>6 DEF TraceCount, even, odd

--------------------------------------------------------------------------------
(* The inductive invariant of a suite's session *)

Clients == [next : Nat \ {0}, pending : Nat, replies : Seq(Replies), traces : Seq(Traces),
            closed : BOOLEAN, gone : {FALSE}, out : {0}, err : {0},
            verdict : {"none", "ok", "failed", "raised"}]

\* What a suite takes for a good reply to a step of its script; of the host's
\* KiCad an export may come to nothing.
GoodReply(step, r) ==
  /\ r \in Replies /\ r.code = 0
  /\ step.method = "apply" => r.applied = SuiteSize /\ r.errors = <<>>
  /\ step.method = "export" =>
       r.artifacts = 1 \/ (session.host /\ session.sidecar = "kicad" /\ r.artifacts = 0)

\* The one refusal a suite may meet: the host's FreeCAD is not there.
AtOpening == session.host /\ session.sidecar = "freecad" /\ client.next = 2

\* The client is between two steps; or its request waits in the pipe, is a
\* batch under way, or is answered.
BetweenSteps == client.pending = 0 /\ stdin = <<>> /\ stdout = <<>> /\ batch = NoBatch

Awaiting ==
  /\ client.next \in 1 .. Len(session.script) /\ Step.form = "request"
  /\ client.pending = Len(sent) /\ Len(sent) # 0

RequestWaits == Awaiting /\ stdin = <<Step>> /\ stdout = <<>> /\ batch = NoBatch

BatchUnderWay ==
  /\ Awaiting /\ AsksToApply(Step) /\ stdin = <<>> /\ stdout = <<>>
  /\ batch \in Applying /\ batch.id = client.pending
  /\ batch.doc = session.doc /\ batch.muts = SuiteMutations(session.sidecar)
  /\ batch.at <= SuiteSize + 1 /\ batch.applied = batch.at - 1 /\ batch.errors = <<>>
  /\ batch.half => session.sidecar = "kicad" /\ batch.at <= SuiteSize

RequestAnswered ==
  /\ Awaiting /\ stdin = <<>> /\ batch = NoBatch
  /\ Len(stdout) = 1 /\ stdout = << stdout[1] >>
  /\ stdout[1].id = client.pending
  /\ GoodReply(Step, stdout[1]) \/ (stdout[1].code # 0 /\ AtOpening)

\* The step of the script that reply k answers: the wait has none.
StepAnswered(k) == session.script[IF session.sidecar = "kicad" /\ k > 3 THEN k + 1 ELSE k]

RepliesGood ==
  /\ Len(client.replies) = IF session.sidecar = "kicad" /\ client.next > 4
                           THEN client.next - 2 ELSE client.next - 1
  /\ \A k \in 1 .. Len(client.replies) : GoodReply(StepAnswered(k), client.replies[k])

\* What was written to stderr: the first x of the upserts of the batch; or all
\* of those of its first n mutations.
Written == client.traces \o stderr

UpsertsOf(traces, doc, n) ==
  /\ Len(traces) = 2 * n
  /\ \A j \in 1 .. n :
       /\ traces[2 * j - 1].method = "upsertNodes" /\ traces[2 * j].method = "upsertEdges"
       /\ traces[2 * j - 1].commit = << doc, j >>
       /\ traces[2 * j - 1].type = KiCadNodeType(SuiteMutations("kicad")[j].kind)

FirstUpserts(traces, doc, x) ==
  /\ Len(traces) = x
  /\ \A j \in 1 .. SuiteSize :
       /\ 2 * j - 1 <= x =>
            /\ traces[2 * j - 1].method = "upsertNodes"
            /\ traces[2 * j - 1].commit = << doc, j >>
            /\ traces[2 * j - 1].type = KiCadNodeType(SuiteMutations("kicad")[j].kind)
       /\ 2 * j <= x => traces[2 * j].method = "upsertEdges"

TracedUpTo(x) == FirstUpserts(Written, session.doc, x)
AllTraced == UpsertsOf(Written, session.doc, SuiteSize)

\* The upserts of the first batch that were carried out.
Done ==
  IF client.next < 3 THEN 0
  ELSE IF client.next > 3 THEN 2 * SuiteSize
  ELSE IF batch # NoBatch THEN IF batch.half THEN 2 * batch.at - 1 ELSE 2 * (batch.at - 1)
  ELSE IF stdout # <<>> THEN 2 * SuiteSize
  ELSE 0

\* Up to the first step after the wait, which leaves nothing in the pipe.
TracesKnown ==
  session.sidecar = "kicad" /\ client.next <= 5 =>
    TracedUpTo(Done) /\ (client.next = 5 => stderr = <<>>)

OpenInTime ==
  client.next >= 3 \/ (client.next = 2 /\ stdout # <<>> /\ stdout[1].code = 0) => open

Talking ==
  /\ proc \in {"running", "killed"} /\ ~client.closed
  /\ client.next \in 1 .. Len(session.script) + 1 /\ sent \in Seq(Lines) /\ open \in BOOLEAN
  /\ BetweenSteps \/ RequestWaits \/ BatchUnderWay \/ RequestAnswered
  /\ RepliesGood /\ TracesKnown /\ OpenInTime

\* The wait ran out of time with every trace written.
RanOut == session.sidecar = "kicad" /\ client.next = 4 /\ AllTraced

SuiteInv ==
  /\ SuiteSession /\ client \in Clients /\ stderr \in Seq(Traces)
  /\ client.verdict = "none" => Talking
  /\ client.verdict # "none" /\ proc # "killed" => stdin = <<>> /\ batch = NoBatch
  /\ client.verdict = "raised" /\ proc # "killed" => RanOut \/ AtOpening
  /\ client.verdict = "failed" => ExportCameToNothing

--------------------------------------------------------------------------------
(* The steps of a suite's session *)

\* The step at hand, by its place in the script.
LEMMA StepKnown ==
  ASSUME SuiteSession, client.next \in 1 .. Len(session.script)
  PROVE  \/ client.next = 1 /\ Asks(Step, "ping")
         \/ client.next = 2 /\ Asks(Step, "open")
         \/ client.next = 3 /\ AsksToApply(Step)
         \/ client.next = 4 /\ session.sidecar = "kicad" /\ IsWait(Step)
         \/ client.next > 3 /\ AsksToExport(Step)
         \/ client.next = 7 /\ session.sidecar = "kicad" /\ AsksToApply(Step)
<1> DEFINE S == session.script
           n == client.next
<1>1. Step = S[n]
  BY DEF Step
<1>2. /\ Len(S) \in 3 .. 7 /\ Asks(S[1], "ping") /\ Asks(S[2], "open") /\ AsksToApply(S[3])
      /\ session.sidecar = "kicad" =>
           /\ Len(S) = 4 \/ Len(S) = 7
           /\ IsWait(S[4])
           /\ Len(S) = 7 => AsksToExport(S[5]) /\ AsksToExport(S[6]) /\ AsksToApply(S[7])
      /\ session.sidecar = "freecad" =>
           /\ Len(S) = 3 \/ Len(S) = 5
           /\ Len(S) = 5 => AsksToExport(S[4]) /\ AsksToExport(S[5])
  BY ScriptKnown
<1>3. session.sidecar \in {"kicad", "freecad"}
  BY DEF SuiteSession
<1> HIDE DEF S
<1>4. n \in 1 .. Len(S)
  BY DEF S
<1> HIDE DEF n
<1>5. CASE n \in 1 .. 3
  BY <1>1, <1>2, <1>5 DEF n
<1>6. CASE n \in 4 .. 7 /\ session.sidecar = "kicad"
  BY <1>1, <1>2, <1>4, <1>6 DEF n
<1>7. CASE n \in 4 .. 7 /\ session.sidecar = "freecad"
  BY <1>1, <1>2, <1>4, <1>7 DEF n
<1>8. n \in 1 .. 3 \/ n \in 4 .. 7
  <2>1. PICK l \in 3 .. 7 : l = Len(S)
    BY <1>2
  <2>2. n \in 1 .. l
    BY <1>4, <2>1
  <2> QED BY <2>2
<1> QED BY <1>3, <1>5, <1>6, <1>7, <1>8

\* A step that leaves the traces alone.
LEMMA WrittenKept ==
  ASSUME UNCHANGED <<session, stderr>>, client'.traces = client.traces, NEW n
  PROVE  Written' = Written /\ (TracedUpTo(n)' <=> TracedUpTo(n)) /\ (AllTraced' <=> AllTraced)
<1>1. Written' = Written
  BY DEF Written
<1> QED BY <1>1 DEF TracedUpTo, AllTraced

\* Draining moves a trace from the pipe to the client.
LEMMA WrittenDrained ==
  ASSUME client \in Clients, stderr \in Seq(Traces), DrainStderr
  PROVE  /\ Written' = Written /\ stderr' \in Seq(Traces) /\ client' \in Clients
         /\ client' = [client EXCEPT !.traces = Append(client.traces, Head(stderr))]
<1> DEFINE c == client.traces
           e == stderr
<1>1. c \in Seq(Traces) /\ e \in Seq(Traces) /\ e # <<>>
  BY DEF Clients, DrainStderr
<1>2. /\ client' = [client EXCEPT !.traces = Append(c, Head(e))] /\ stderr' = Tail(e)
      /\ Head(e) \in Traces /\ Append(c, Head(e)) \in Seq(Traces) /\ Tail(e) \in Seq(Traces)
  BY <1>1 DEF DrainStderr
<1>3. client' \in Clients /\ client'.traces = Append(c, Head(e))
  BY <1>2 DEF Clients
<1>4. Append(c, Head(e)) \o Tail(e) = c \o e
  <2> HIDE DEF c, e
  <2>1. e = << Head(e) >> \o Tail(e)
    BY <1>1
  <2>2. Append(c, Head(e)) = c \o << Head(e) >>
    BY <1>1
  <2>3. << Head(e) >> \in Seq(Traces) /\ c \in Seq(Traces) /\ Tail(e) \in Seq(Traces)
    BY <1>1, <1>2
  <2>4. (c \o << Head(e) >>) \o Tail(e) = c \o (<< Head(e) >> \o Tail(e))
    BY <2>3, ConcatAssociative
  <2> QED BY <2>1, <2>2, <2>4
<1> QED BY <1>2, <1>3, <1>4 DEF Written

\* What a step of the runner leaves as it is.
LEMMA RunnerKeeps ==
  ASSUME SuiteInv, UNCHANGED <<session, client, sent>>
  PROVE  /\ SuiteSession' /\ client' \in Clients /\ Step' = Step
         /\ RepliesGood => RepliesGood'
<1>1. SuiteSession' /\ client' \in Clients /\ Step' = Step
  BY DEF SuiteInv, SuiteSession, Step
<1>2. \A k : StepAnswered(k)' = StepAnswered(k)
  BY DEF StepAnswered
<1>3. RepliesGood => RepliesGood'
  BY <1>2 DEF RepliesGood, GoodReply
<1> QED BY <1>1, <1>3

\* The line that the runner reads is that of the step at hand.
LEMMA SuiteLine ==
  ASSUME SuiteInv, client.verdict = "none", Reading
  PROVE  /\ Talking /\ RequestWaits /\ Line = Step /\ LineId = client.pending
         /\ LineId \in Nat \ {0} /\ Tail(stdin) = <<>> /\ batch = NoBatch /\ stdout = <<>>
<1>1. Talking /\ stdin # <<>>
  BY DEF SuiteInv, Reading
<1>2. RequestWaits
  BY <1>1 DEF Talking, BetweenSteps, BatchUnderWay, RequestAnswered
<1>3. stdin = <<Step>> /\ batch = NoBatch /\ stdout = <<>>
  BY <1>2 DEF RequestWaits
<1>4. Line = Step /\ Len(stdin) = 1 /\ Tail(stdin) = <<>>
  BY <1>3 DEF Line
<1>5. Len(sent) \in Nat /\ client.pending = Len(sent) /\ Len(sent) # 0
  BY <1>1, <1>2 DEF Talking, RequestWaits, Awaiting
<1>6. LineId = client.pending
  BY <1>4, <1>5 DEF LineId
<1> QED BY <1>1, <1>2, <1>3, <1>4, <1>5, <1>6

LEMMA SuiteAnswered ==
  ASSUME SuiteInv, client.verdict = "none", Reading, NEW r, Answer(r), r.id = LineId,
         GoodReply(Step, r) \/ (r.code # 0 /\ AtOpening),
         Line.method # "apply", open' \in BOOLEAN, open => open',
         client.next = 2 /\ r.code = 0 => open'
  PROVE  SuiteInv'
<1>1. /\ Talking /\ RequestWaits /\ Line = Step /\ LineId = client.pending
      /\ Tail(stdin) = <<>> /\ batch = NoBatch /\ stdout = <<>>
  BY SuiteLine
<1>2. /\ UNCHANGED <<session, client, sent, stderr, proc, batch>>
      /\ stdin' = <<>> /\ stdout' = <<r>>
  <2>1. Append(<<>>, r) = <<r>>
    OBVIOUS
  <2>2. ~client.gone
    BY DEF SuiteInv, Clients
  <2> QED BY <1>1, <2>1, <2>2 DEF Answer, WriteReply, BrokenPipe, UnchangedClient
<1>3. /\ SuiteSession' /\ client' \in Clients /\ Step' = Step /\ RepliesGood'
      /\ stderr' \in Seq(Traces)
  BY <1>1, <1>2, RunnerKeeps DEF Talking, SuiteInv
<1>4. Awaiting'
  BY <1>1, <1>2, <1>3 DEF RequestWaits, Awaiting
<1>5. RequestAnswered'
  <2>1. /\ Len(stdout') = 1 /\ stdout' = << stdout'[1] >> /\ stdout'[1] = r
    BY <1>2
  <2>2. GoodReply(Step, stdout[1])' \/ (stdout'[1].code # 0 /\ AtOpening')
    BY <1>2, <1>3, <2>1 DEF GoodReply, AtOpening
  <2> QED BY <1>1, <1>2, <1>3, <1>4, <2>1, <2>2 DEF RequestAnswered
<1>6. client.next # 3
  <2>1. client.next \in 1 .. Len(session.script) /\ SuiteSession
    BY <1>1 DEF RequestWaits, Awaiting, SuiteInv
  <2>2. client.next = 3 => AsksToApply(Step)
    BY <2>1, StepKnown
  <2> QED BY <1>1, <2>2 DEF AsksToApply, Asks
<1>7. Done' = Done
  BY <1>2, <1>6, <1>1 DEF Done, Talking
<1>8. TracesKnown'
  <2>1. client'.traces = client.traces
    BY <1>2
  <2>2. TracedUpTo(Done)' <=> TracedUpTo(Done)
    BY <1>2, <1>7, <2>1, WrittenKept DEF TracedUpTo
  <2> QED BY <1>1, <1>2, <2>2 DEF Talking, TracesKnown
<1>9. OpenInTime'
  <2>1. stdout'[1] = r
    BY <1>2
  <2> QED BY <1>1, <1>2, <2>1 DEF Talking, OpenInTime
<1>10. Talking'
  BY <1>1, <1>2, <1>3, <1>5, <1>8, <1>9 DEF Talking
<1> QED BY <1>2, <1>3, <1>10 DEF SuiteInv

\* The batch begins: nothing of it is traced.
LEMMA SuiteBegins ==
  ASSUME SuiteInv, client.verdict = "none", BeginApply
  PROVE  SuiteInv'
<1>1. Reading /\ Line.method = "apply"
  BY DEF BeginApply, Served
<1>2. /\ Talking /\ RequestWaits /\ Line = Step /\ LineId = client.pending
      /\ LineId \in Nat \ {0} /\ Tail(stdin) = <<>> /\ batch = NoBatch /\ stdout = <<>>
  BY <1>1, SuiteLine
<1>3. /\ UNCHANGED <<session, client, sent, stderr, proc, stdout, open>> /\ stdin' = <<>>
      /\ batch' = [id |-> LineId, doc |-> Line.doc, muts |-> Line.muts, at |-> 1,
                   half |-> FALSE, applied |-> 0, errors |-> <<>>]
  BY <1>2 DEF BeginApply, UnchangedClient
<1>4. /\ SuiteSession' /\ client' \in Clients /\ Step' = Step /\ RepliesGood'
      /\ stderr' \in Seq(Traces)
  BY <1>2, <1>3, RunnerKeeps DEF Talking, SuiteInv
<1>5. /\ client.next \in 1 .. Len(session.script) /\ SuiteSession
  BY <1>2 DEF RequestWaits, Awaiting, SuiteInv
<1>6. AsksToApply(Step)
  BY <1>1, <1>2, <1>5, StepKnown DEF RequestWaits, Awaiting, Asks, AsksToExport, IsWait
<1>7. Awaiting' /\ AsksToApply(Step)'
  <2>1. Awaiting'
    BY <1>2, <1>3, <1>4 DEF RequestWaits, Awaiting
  <2>2. AsksToApply(Step)'
    BY <1>3, <1>4, <1>6 DEF AsksToApply, Asks
  <2> QED BY <2>1, <2>2
<1>8. /\ batch'.id = LineId /\ batch'.doc = session.doc
      /\ batch'.muts = SuiteMutations(session.sidecar)
      /\ batch'.at = 1 /\ batch'.half = FALSE /\ batch'.applied = 0 /\ batch'.errors = <<>>
  BY <1>2, <1>3, <1>6 DEF AsksToApply
<1>9. batch' \in Applying
  <2>1. Line.doc \in Docs /\ Line.muts \in Seq(Mutations) /\ <<>> \in Seq(Nat)
    BY <1>2, <1>6 DEF AsksToApply, Asks, Lines
  <2> QED BY <1>2, <1>3, <2>1 DEF Applying
<1>10. BatchUnderWay'
  BY <1>2, <1>3, <1>7, <1>8, <1>9 DEF BatchUnderWay
<1>11. Done' = Done
  <2>1. batch' # NoBatch
    BY <1>3 DEF NoBatch
  <2> QED BY <1>2, <1>3, <1>8, <2>1 DEF Done
<1>12. TracesKnown'
  <2>1. TracedUpTo(Done)' <=> TracedUpTo(Done)
    BY <1>3, <1>11, WrittenKept DEF TracedUpTo
  <2> QED BY <1>2, <1>3, <2>1 DEF Talking, TracesKnown
<1>13. OpenInTime'
  BY <1>2, <1>3 DEF Talking, OpenInTime
<1>14. Talking'
  BY <1>2, <1>3, <1>4, <1>10, <1>12, <1>13 DEF Talking
<1> QED BY <1>3, <1>4, <1>14 DEF SuiteInv

\* A batch is under way only at the steps that apply it.
LEMMA SuiteBatch ==
  ASSUME SuiteInv, client.verdict = "none", batch # NoBatch
  PROVE  /\ Talking /\ BatchUnderWay /\ client.next \in {3, 7}
         /\ batch.id \in Nat \ {0} /\ batch.at \in Nat \ {0} /\ batch.at <= SuiteSize + 1
         /\ Len(batch.muts) = SuiteSize /\ SuiteMutations(session.sidecar) \in Seq(Mutations)
         /\ session.sidecar \in {"kicad", "freecad"} /\ session.doc \in Docs
<1>1. Talking /\ SuiteSession
  BY DEF SuiteInv
<1>2. BatchUnderWay
  BY <1>1 DEF Talking, BetweenSteps, RequestWaits, RequestAnswered
<1>3. session.sidecar \in {"kicad", "freecad"} /\ session.doc \in Docs
  BY <1>1 DEF SuiteSession, Docs
<1>4. client.next \in {3, 7}
  <2>1. client.next \in 1 .. Len(session.script) /\ AsksToApply(Step)
    BY <1>2 DEF BatchUnderWay, Awaiting
  <2> QED BY <1>1, <2>1, StepKnown DEF Asks, AsksToApply, AsksToExport, IsWait
<1>5. batch.id \in Nat \ {0} /\ batch.at \in Nat \ {0} /\ batch.at <= SuiteSize + 1
  BY <1>2 DEF BatchUnderWay, Applying
<1>6. Len(batch.muts) = SuiteSize /\ SuiteMutations(session.sidecar) \in Seq(Mutations)
  BY <1>2, <1>3, SuiteMutationsKnown DEF BatchUnderWay
<1> QED BY <1>1, <1>2, <1>3, <1>4, <1>5, <1>6

\* The trace of a batch's next upsert comes after all others.
LEMMA UpsertsOneMore ==
  ASSUME NEW d, NEW i \in 1 .. SuiteSize, NEW x \in Nat, NEW t \in Traces,
         NEW c \in Seq(Traces), NEW e \in Seq(Traces), FirstUpserts(c \o e, d, x),
         \/ /\ x = 2 * (i - 1)
            /\ t.method = "upsertNodes" /\ t.commit = << d, i >>
            /\ t.type = KiCadNodeType(SuiteMutations("kicad")[i].kind)
         \/ x = 2 * i - 1 /\ t.method = "upsertEdges"
  PROVE  FirstUpserts(c \o Append(e, t), d, x + 1)
<1> DEFINE W == c \o e
           V == Append(W, t)
<1>1. W \in Seq(Traces) /\ c \o Append(e, t) = V
  <2>1. << t >> \in Seq(Traces) /\ Append(e, t) = e \o << t >>
    OBVIOUS
  <2>2. W \in Seq(Traces)
    BY ConcatProperties
  <2>3. Append(W, t) = W \o << t >>
    <3> HIDE DEF W
    <3> QED BY <2>2
  <2>4. (c \o e) \o << t >> = c \o (e \o << t >>)
    BY <2>1, ConcatAssociative
  <2> QED BY <2>1, <2>2, <2>3, <2>4
<1>2. /\ Len(W) = x
      /\ \A j \in 1 .. SuiteSize :
           /\ 2 * j - 1 <= x =>
                /\ W[2 * j - 1].method = "upsertNodes"
                /\ W[2 * j - 1].commit = << d, j >>
                /\ W[2 * j - 1].type = KiCadNodeType(SuiteMutations("kicad")[j].kind)
           /\ 2 * j <= x => W[2 * j].method = "upsertEdges"
  BY DEF FirstUpserts
<1> HIDE DEF W
<1>3. Len(V) = x + 1 /\ V[x + 1] = t /\ \A y \in 1 .. x : V[y] = W[y]
  BY <1>1, <1>2, OneMore
<1> HIDE DEF V
<1>4. ASSUME NEW j \in 1 .. SuiteSize, 2 * j - 1 <= x + 1
      PROVE  /\ V[2 * j - 1].method = "upsertNodes"
             /\ V[2 * j - 1].commit = << d, j >>
             /\ V[2 * j - 1].type = KiCadNodeType(SuiteMutations("kicad")[j].kind)
  <2>1. CASE 2 * j - 1 <= x
    <3>1. 2 * j - 1 \in 1 .. x
      BY <2>1
    <3> QED BY <1>2, <1>3, <2>1, <3>1
  <2>2. CASE 2 * j - 1 = x + 1
    <3>1. x = 2 * (i - 1) /\ i = j
      BY <2>2
    <3>2. V[2 * j - 1] = t
      BY <1>3, <2>2
    <3>3. ~(x = 2 * i - 1)
      BY <3>1
    <3> QED BY <3>1, <3>2, <3>3
  <2>3. 2 * j - 1 <= x \/ 2 * j - 1 = x + 1
    BY <1>4
  <2> QED BY <2>1, <2>2, <2>3
<1>5. ASSUME NEW j \in 1 .. SuiteSize, 2 * j <= x + 1
      PROVE  V[2 * j].method = "upsertEdges"
  <2>1. CASE 2 * j <= x
    <3>1. 2 * j \in 1 .. x
      BY <2>1
    <3> QED BY <1>2, <1>3, <2>1, <3>1
  <2>2. CASE 2 * j = x + 1
    <3>1. x # 2 * (i - 1)
      BY <2>2
    <3>2. V[2 * j] = t
      BY <1>3, <2>2
    <3> QED BY <3>1, <3>2
  <2>3. 2 * j <= x \/ 2 * j = x + 1
    BY <1>5
  <2> QED BY <2>1, <2>2, <2>3
<1>6. FirstUpserts(V, d, x + 1)
  BY <1>3, <1>4, <1>5 DEF FirstUpserts
<1> QED BY <1>1, <1>6

LEMMA TracedOneMore ==
  ASSUME session' = session, client' = client,
         client.traces \in Seq(Traces), stderr \in Seq(Traces),
         NEW x \in Nat, NEW i \in 1 .. SuiteSize, NEW t \in Traces, TracedUpTo(x),
         \/ /\ x = 2 * (i - 1)
            /\ t.method = "upsertNodes" /\ t.commit = << session.doc, i >>
            /\ t.type = KiCadNodeType(SuiteMutations("kicad")[i].kind)
         \/ x = 2 * i - 1 /\ t.method = "upsertEdges",
         stderr' = Append(stderr, t)
  PROVE  TracedUpTo(x + 1)'
<1>1. FirstUpserts(client.traces \o stderr, session.doc, x)
  BY DEF TracedUpTo, Written
<1>2. FirstUpserts(client.traces \o Append(stderr, t), session.doc, x + 1)
  BY <1>1, UpsertsOneMore
<1> QED BY <1>2 DEF TracedUpTo, Written

\* All upserts: those of every mutation.
LEMMA LastUpsert ==
  ASSUME TracedUpTo(2 * SuiteSize)
  PROVE  AllTraced
<1>1. \A j \in 1 .. SuiteSize : 2 * j - 1 <= 2 * SuiteSize /\ 2 * j <= 2 * SuiteSize
  OBVIOUS
<1> QED BY <1>1 DEF TracedUpTo, AllTraced, FirstUpserts, UpsertsOf

\* FreeCAD counts every mutation of a suite.
LEMMA SuiteMaps ==
  ASSUME SuiteInv, client.verdict = "none", MapMutation
  PROVE  SuiteInv'
<1> DEFINE m == batch.muts[batch.at]
<1>1. /\ batch # NoBatch /\ batch.at <= Len(batch.muts) /\ session.sidecar = "freecad"
      /\ UNCHANGED <<session, stdin, stdout, stderr, open, sent, client, proc>>
  BY DEF MapMutation, AtMutation, UnchangedClient
<1>2. /\ Talking /\ BatchUnderWay /\ client.next \in {3, 7}
      /\ batch.id \in Nat \ {0} /\ batch.at \in Nat \ {0} /\ batch.at <= SuiteSize
  BY <1>1, SuiteBatch
<1>3. FreecadMapsMutation(m)
  <2>1. m = SuiteMutations("freecad")[batch.at] /\ batch.at \in 1 .. SuiteSize
    BY <1>1, <1>2 DEF BatchUnderWay
  <2> QED BY <2>1, SuiteMutationsKnown
<1>4. batch' = [batch EXCEPT !.at = batch.at + 1, !.applied = batch.applied + 1]
  BY <1>3 DEF MapMutation
<1>5. batch \in Applying /\ batch.applied = batch.at - 1 /\ batch.errors = <<>>
      /\ batch.id = client.pending /\ batch.doc = session.doc /\ ~batch.half
      /\ batch.muts = SuiteMutations(session.sidecar)
  BY <1>1, <1>2 DEF BatchUnderWay
<1>6. /\ batch'.id = batch.id /\ batch'.doc = batch.doc /\ batch'.muts = batch.muts
      /\ batch'.at = batch.at + 1 /\ batch'.applied = batch.applied + 1 /\ batch'.errors = <<>>
      /\ batch' \in Applying /\ batch'.half = batch.half
  <2>1. batch \in Applying /\ batch.at + 1 \in Nat \ {0} /\ batch.applied + 1 \in Nat
    BY <1>5 DEF Applying
  <2>2. /\ batch'.id = batch.id /\ batch'.doc = batch.doc /\ batch'.muts = batch.muts
        /\ batch'.at = batch.at + 1 /\ batch'.applied = batch.applied + 1
        /\ batch'.errors = batch.errors /\ batch' \in Applying /\ batch'.half = batch.half
    BY <1>4, <2>1 DEF Applying
  <2> QED BY <1>5, <2>2
<1>7. /\ SuiteSession' /\ client' \in Clients /\ Step' = Step /\ RepliesGood'
  BY <1>1, <1>2, RunnerKeeps DEF Talking
<1>8. BatchUnderWay'
  <2>1. Awaiting' /\ AsksToApply(Step)'
    BY <1>1, <1>2, <1>7 DEF BatchUnderWay, Awaiting, AsksToApply, Asks
  <2>2. batch'.at <= SuiteSize + 1 /\ batch'.applied = batch'.at - 1
    BY <1>2, <1>5, <1>6
  <2> QED BY <1>1, <1>2, <1>5, <1>6, <2>1, <2>2 DEF BatchUnderWay
<1>9. stderr' \in Seq(Traces) /\ TracesKnown'
  BY <1>1 DEF SuiteInv, TracesKnown
<1>10. OpenInTime'
  BY <1>1, <1>2 DEF Talking, OpenInTime
<1>11. Talking'
  BY <1>1, <1>2, <1>7, <1>8, <1>9, <1>10 DEF Talking
<1> QED BY <1>1, <1>7, <1>9, <1>11 DEF SuiteInv

\* The node of a mutation is traced, or its edge, and then it is counted.
LEMMA SuiteUpserts ==
  ASSUME SuiteInv, client.verdict = "none", UpsertNodes \/ UpsertEdges
  PROVE  SuiteInv'
<1>1. /\ batch # NoBatch /\ batch.at <= Len(batch.muts) /\ session.sidecar = "kicad"
      /\ UNCHANGED <<session, stdin, stdout, open, sent, client>>
  BY DEF UpsertNodes, UpsertEdges, AtMutation, EmitSceneTrace, UnchangedClient
<1>2. /\ Talking /\ BatchUnderWay /\ client.next \in {3, 7}
      /\ batch.id \in Nat \ {0} /\ batch.at \in Nat \ {0} /\ batch.at <= SuiteSize
  BY <1>1, SuiteBatch
<1>3. PICK y \in {1, 2} : stderr' = Append(stderr, Delta[y]) /\ Upserted(y) /\ proc' = proc
  <2>1. ~client.gone
    BY DEF SuiteInv, Clients
  <2>2. UpsertNodes => stderr' = Append(stderr, Delta[1]) /\ Upserted(1) /\ proc' = proc
    BY <2>1 DEF UpsertNodes, EmitSceneTrace, BrokenPipe, Upserted
  <2>3. UpsertEdges => stderr' = Append(stderr, Delta[2]) /\ Upserted(2) /\ proc' = proc
    BY <2>1 DEF UpsertEdges, EmitSceneTrace, BrokenPipe, Upserted
  <2> QED BY <2>2, <2>3
<1>4. batch \in Applying /\ batch.applied = batch.at - 1 /\ batch.errors = <<>>
      /\ batch.id = client.pending /\ batch.doc = session.doc
      /\ batch.muts = SuiteMutations("kicad")
  BY <1>1, <1>2 DEF BatchUnderWay
<1>5. /\ batch' \in Applying /\ batch'.id = batch.id /\ batch'.doc = batch.doc
      /\ batch'.muts = batch.muts /\ batch'.errors = <<>>
      /\ y = 1 => /\ ~batch.half /\ batch'.half
                  /\ batch'.at = batch.at /\ batch'.applied = batch.applied
      /\ y = 2 => /\ batch.half /\ ~batch'.half
                  /\ batch'.at = batch.at + 1 /\ batch'.applied = batch.applied + 1
  <2>1. CASE y = 1
    BY <1>3, <1>4, <2>1 DEF Applying, Upserted
  <2>2. CASE y = 2
    <3>1. batch.at \in Nat /\ batch.applied \in Nat
      BY <1>4 DEF Applying
    <3>2. batch.at + 1 \in Nat \ {0} /\ batch.applied + 1 \in Nat
      BY <3>1
    <3> QED BY <1>3, <1>4, <2>2, <3>2 DEF Applying, Upserted
  <2> QED BY <2>1, <2>2
<1>6. batch' # NoBatch
  BY <1>5 DEF NoBatch, Applying
<1>7. /\ SuiteSession' /\ client' \in Clients /\ Step' = Step /\ RepliesGood'
  BY <1>1, <1>2, RunnerKeeps DEF Talking
<1>8. BatchUnderWay'
  <2>1. Awaiting' /\ AsksToApply(Step)'
    BY <1>1, <1>2, <1>7 DEF BatchUnderWay, Awaiting, AsksToApply, Asks
  <2>2. /\ batch'.at <= SuiteSize + 1 /\ batch'.applied = batch'.at - 1
        /\ batch'.half => batch'.at <= SuiteSize
    BY <1>2, <1>4, <1>5
  <2> QED BY <1>1, <1>2, <1>4, <1>5, <2>1, <2>2 DEF BatchUnderWay
<1>9. /\ Delta[1] \in Traces /\ Delta[1].commit = << session.doc, batch.at >>
      /\ Delta[1].method = "upsertNodes"
      /\ Delta[1].type = KiCadNodeType(SuiteMutations("kicad")[batch.at].kind)
      /\ Delta[2] \in Traces /\ Delta[2].method = "upsertEdges"
  BY <1>1, <1>4, DeltaKnown
<1>10. stderr' \in Seq(Traces) /\ stderr \in Seq(Traces) /\ client.traces \in Seq(Traces)
  <2>1. stderr \in Seq(Traces) /\ client.traces \in Seq(Traces)
    BY DEF SuiteInv, Clients
  <2>2. Delta[y] \in Traces
    BY <1>9
  <2> QED BY <1>3, <2>1, <2>2
<1>11. TracesKnown'
  <2> SUFFICES ASSUME client.next <= 5
               PROVE  TracedUpTo(Done)' /\ client.next # 5
    BY <1>1 DEF TracesKnown
  <2>1. client.next = 3
    BY <1>2
  <2>2. PICK i \in 1 .. SuiteSize : i = batch.at
    BY <1>2
  <2>3. /\ Done = IF batch.half THEN 2 * batch.at - 1 ELSE 2 * (batch.at - 1)
        /\ Done' = IF batch'.half THEN 2 * batch'.at - 1 ELSE 2 * (batch'.at - 1)
    BY <1>1, <1>6, <2>1 DEF Done
  <2>4. PICK x \in Nat : x = Done /\ Done' = x + 1
        /\ (y = 1 => x = 2 * (i - 1)) /\ (y = 2 => x = 2 * i - 1)
    <3>1. y = 1 => Done = 2 * (i - 1) /\ Done' = 2 * i - 1
      BY <1>5, <2>2, <2>3
    <3>2. y = 2 => Done = 2 * i - 1 /\ Done' = 2 * ((i + 1) - 1)
      BY <1>5, <2>2, <2>3
    <3>3. /\ 2 * (i - 1) \in Nat /\ 2 * i - 1 \in Nat
          /\ 2 * i - 1 = 2 * (i - 1) + 1 /\ 2 * ((i + 1) - 1) = (2 * i - 1) + 1
      OBVIOUS
    <3> QED BY <3>1, <3>2, <3>3
  <2>5. TracedUpTo(x)
    BY <1>1, <1>2, <2>1, <2>4 DEF Talking, TracesKnown
  <2>6. PICK t \in Traces : t = Delta[y]
    BY <1>9
  <2>7. \/ /\ x = 2 * (i - 1)
           /\ t.method = "upsertNodes" /\ t.commit = << session.doc, i >>
           /\ t.type = KiCadNodeType(SuiteMutations("kicad")[i].kind)
        \/ x = 2 * i - 1 /\ t.method = "upsertEdges"
    <3>1. CASE y = 1
      BY <1>9, <2>2, <2>4, <2>6, <3>1
    <3>2. CASE y = 2
      BY <1>9, <2>4, <2>6, <3>2
    <3> QED BY <3>1, <3>2
  <2>8. TracedUpTo(x + 1)'
    BY <1>1, <1>3, <1>10, <2>5, <2>6, <2>7, TracedOneMore
  <2>9. TracedUpTo(Done)'
    BY <2>4, <2>8 DEF TracedUpTo
  <2> QED BY <2>1, <2>9
<1>12. OpenInTime'
  BY <1>1, <1>2 DEF Talking, OpenInTime
<1>13. Talking'
  BY <1>1, <1>2, <1>3, <1>7, <1>8, <1>11, <1>12 DEF Talking
<1> QED BY <1>1, <1>3, <1>7, <1>10, <1>13 DEF SuiteInv

LEMMA SuiteEnds ==
  ASSUME SuiteInv, client.verdict = "none", EndApply
  PROVE  SuiteInv'
<1> DEFINE r == Reply(batch.id, 0, batch.applied, batch.errors, 0)
<1>1. /\ batch # NoBatch /\ batch.at > Len(batch.muts) /\ batch' = NoBatch
      /\ stdout' = Append(stdout, r)
      /\ UNCHANGED <<session, stdin, stderr, open, sent, client, proc>>
  <2>1. ~client.gone
    BY DEF SuiteInv, Clients
  <2> QED BY <2>1 DEF EndApply, WriteReply, BrokenPipe, UnchangedClient
<1>2. /\ Talking /\ BatchUnderWay /\ client.next \in {3, 7} /\ batch.id \in Nat \ {0}
      /\ batch.at = SuiteSize + 1 /\ ~batch.half
  BY <1>1, SuiteBatch DEF BatchUnderWay
<1>3. batch.id = client.pending /\ batch.applied = SuiteSize /\ batch.errors = <<>>
      /\ stdout = <<>> /\ Step.method = "apply"
  BY <1>2 DEF BatchUnderWay, AsksToApply, Asks
<1>4. r \in Replies /\ r.id = batch.id /\ r.code = 0 /\ r.applied = SuiteSize /\ r.errors = <<>>
  <2>1. <<>> \in Seq(Nat) /\ SuiteSize \in Nat
    OBVIOUS
  <2> QED BY <1>2, <1>3, <2>1 DEF Reply, Replies
<1> HIDE DEF r
<1>5. stdout' = <<r>>
  <2>1. Append(<<>>, r) = <<r>>
    OBVIOUS
  <2> QED BY <1>1, <1>3, <2>1
<1>6. /\ SuiteSession' /\ client' \in Clients /\ Step' = Step /\ RepliesGood'
      /\ stderr' \in Seq(Traces)
  BY <1>1, <1>2, RunnerKeeps DEF Talking, SuiteInv
<1>7. RequestAnswered'
  <2>1. Len(stdout') = 1 /\ stdout' = << stdout'[1] >> /\ stdout'[1] = r
    BY <1>5
  <2>2. Awaiting' /\ stdin' = <<>>
    BY <1>1, <1>2, <1>6 DEF BatchUnderWay, Awaiting
  <2>3. GoodReply(Step, stdout[1])'
    BY <1>3, <1>4, <1>6, <2>1 DEF GoodReply
  <2> QED BY <1>1, <1>3, <1>4, <2>1, <2>2, <2>3 DEF RequestAnswered
<1>8. TracesKnown'
  <2>0. 2 * (batch.at - 1) = 2 * SuiteSize
    BY <1>2
  <2>1. Done' = Done
    BY <1>1, <1>2, <1>5, <2>0 DEF Done
  <2>2. TracedUpTo(Done)' <=> TracedUpTo(Done)
    BY <1>1, <2>1, WrittenKept DEF TracedUpTo
  <2> QED BY <1>1, <1>2, <2>2 DEF Talking, TracesKnown
<1>9. OpenInTime'
  BY <1>1, <1>2 DEF Talking, OpenInTime
<1>10. Talking'
  BY <1>1, <1>2, <1>6, <1>7, <1>8, <1>9 DEF Talking
<1> QED BY <1>1, <1>6, <1>10 DEF SuiteInv

\* A handler runs for a line that is there to be read.
LEMMA ServersRead ==
  ASSUME AnswerPing \/ HandleProjectOpen \/ RefuseApply \/ BeginApply \/ HandleExport
  PROVE  Reading
<1>1. CASE AnswerPing
  BY <1>1 DEF AnswerPing, Served
<1>2. CASE HandleProjectOpen
  BY <1>2 DEF HandleProjectOpen, Served
<1>3. CASE RefuseApply
  BY <1>3 DEF RefuseApply, Served
<1>4. CASE BeginApply
  BY <1>4 DEF BeginApply, Served
<1>5. CASE HandleExport
  <2>1. Served("export")
    BY <1>5 DEF HandleExport
  <2> QED BY <2>1 DEF Served
<1> QED BY <1>1, <1>2, <1>3, <1>4, <1>5

\* What the runner reads is a well-formed request for a project that is open.
LEMMA SuiteRequest ==
  ASSUME SuiteInv, client.verdict = "none", Reading
  PROVE  /\ Line.form = "request" /\ Line.v2 /\ Line.fit
         /\ \/ client.next = 1 /\ Line.method = "ping"
            \/ client.next = 2 /\ Line.method = "open"
            \/ client.next \in {3, 7} /\ Line.method = "apply"
            \/ client.next > 3 /\ Line.method = "export" /\ Line.format = "step"
         /\ client.next >= 3 => open
         /\ open \in BOOLEAN /\ session.sidecar \in {"kicad", "freecad"}
<1>1. Talking /\ RequestWaits /\ Line = Step /\ SuiteSession
  BY SuiteLine DEF SuiteInv
<1>2. client.next \in 1 .. Len(session.script) /\ Step.form = "request"
  BY <1>1 DEF RequestWaits, Awaiting
<1>3. \/ client.next = 1 /\ Asks(Step, "ping")
      \/ client.next = 2 /\ Asks(Step, "open")
      \/ client.next \in {3, 7} /\ Asks(Step, "apply")
      \/ client.next > 3 /\ AsksToExport(Step)
  BY <1>1, <1>2, StepKnown DEF IsWait, AsksToApply
<1>4. /\ client.next >= 3 => open
      /\ open \in BOOLEAN
  BY <1>1 DEF Talking, OpenInTime
<1> QED BY <1>1, <1>3, <1>4 DEF Asks, AsksToExport, SuiteSession

\* Nothing of a suite's is refused.
LEMMA SuiteRefused ==
  ASSUME SuiteInv, client.verdict = "none",
         ReadBlank \/ ReadMalformed \/ RefuseVersion \/ RefuseMethod \/ RefuseParams \/ RefuseApply
  PROVE  FALSE
<1>1. Reading
  BY DEF ReadBlank, ReadMalformed, RefuseVersion, RefuseMethod, RefuseParams, RefuseApply, Served
<1>2. /\ Line.form = "request" /\ Line.v2 /\ Line.fit
      /\ Line.method \in {"ping", "open", "apply", "export"}
      /\ Line.method = "apply" => open
      /\ session.sidecar \in {"kicad", "freecad"}
  BY <1>1, SuiteRequest
<1>3. ~(ReadBlank \/ ReadMalformed \/ RefuseVersion)
  BY <1>2 DEF ReadBlank, ReadMalformed, RefuseVersion
<1>4. ~RefuseMethod
  BY <1>2 DEF RefuseMethod, Registered
<1>5. ~RefuseParams
  BY <1>2 DEF RefuseParams
<1>6. ~RefuseApply
  BY <1>2 DEF RefuseApply, Served, NeedsProject
<1> QED BY <1>3, <1>4, <1>5, <1>6

LEMMA SuiteServed ==
  ASSUME SuiteInv, client.verdict = "none", AnswerPing \/ HandleProjectOpen \/ HandleExport
  PROVE  SuiteInv'
<1>1. Reading
  BY ServersRead
<1>2. /\ \/ client.next = 1 /\ Line.method = "ping"
         \/ client.next = 2 /\ Line.method = "open"
         \/ client.next \in {3, 7} /\ Line.method = "apply"
         \/ client.next > 3 /\ Line.method = "export" /\ Line.format = "step"
      /\ client.next >= 3 => open
      /\ open \in BOOLEAN /\ session.sidecar \in {"kicad", "freecad"}
  BY <1>1, SuiteRequest
<1>3. Line = Step /\ LineId \in Nat \ {0} /\ client.next \in Nat
  BY <1>1, SuiteLine DEF SuiteInv, Clients
<1>4. Success(LineId) \in Replies /\ Success(LineId).code = 0 /\ Success(LineId).id = LineId
  BY <1>3 DEF Success, Reply, Replies
<1>5. CASE AnswerPing
  <2>1. Line.method = "ping" /\ Answer(Success(LineId)) /\ UNCHANGED open
    BY <1>5 DEF AnswerPing, Served
  <2>2. GoodReply(Step, Success(LineId))
    BY <1>3, <1>4, <2>1 DEF GoodReply
  <2>3. client.next # 2 /\ open' \in BOOLEAN
    BY <1>2, <2>1
  <2> QED BY <1>1, <1>4, <2>1, <2>2, <2>3, SuiteAnswered
<1>6. CASE HandleProjectOpen
  <2>1. Line.method = "open"
    BY <1>6 DEF HandleProjectOpen, Served
  <2> DEFINE Succeeds == open' = TRUE /\ Answer(Success(LineId))
             Refuses  == session.sidecar = "freecad" /\ session.host /\ UNCHANGED open
                           /\ Answer(Failure(LineId, -32010))
  <2>2. CASE Succeeds
    <3>1. GoodReply(Step, Success(LineId))
      BY <1>3, <1>4, <2>1 DEF GoodReply
    <3> QED BY <1>1, <1>4, <2>1, <2>2, <3>1, SuiteAnswered
  <2>3. CASE Refuses
    <3>1. Failure(LineId, -32010).code # 0 /\ Failure(LineId, -32010).id = LineId
      BY DEF Failure, Reply
    <3>2. client.next = 2
      BY <1>2, <2>1
    <3> QED BY <1>1, <1>2, <2>1, <2>3, <3>1, <3>2, SuiteAnswered DEF AtOpening
  <2>4. Succeeds \/ Refuses
    BY <1>6 DEF HandleProjectOpen
  <2> HIDE DEF Succeeds, Refuses
  <2> QED BY <2>2, <2>3, <2>4
<1>7. CASE HandleExport
  <2>1. Line.method = "export" /\ UNCHANGED open
    BY <1>7 DEF HandleExport, Served
  <2>2. client.next > 3 /\ open /\ Line.format = "step"
    BY <1>2, <1>3, <2>1
  <2>3. PICK n \in {0, 1} :
          /\ Answer(Reply(LineId, 0, 0, <<>>, n))
          /\ n = 1 \/ (session.host /\ session.sidecar = "kicad" /\ n = 0)
    <3>1. ~NeedsProject
      BY <2>2 DEF NeedsProject
    <3>2. CASE session.sidecar = "kicad"
      <4>1. \A n \in KiCadArtifacts(Line.format) :
              n \in {0, 1} /\ (n = 1 \/ (session.host /\ n = 0))
        BY <2>2 DEF KiCadArtifacts, KiCadHostExport, KiCadStubExport
      <4>2. \E n \in KiCadArtifacts(Line.format) : Answer(Reply(LineId, 0, 0, <<>>, n))
        BY <1>7, <3>1, <3>2 DEF HandleExport
      <4> QED BY <3>2, <4>1, <4>2
    <3>3. CASE session.sidecar = "freecad"
      <4>1. FreecadArtifacts(Line.format) = {1}
        BY <2>2 DEF FreecadArtifacts
      <4>2. \E n \in FreecadArtifacts(Line.format) : Answer(Reply(LineId, 0, 0, <<>>, n))
        BY <1>7, <3>1, <3>3 DEF HandleExport
      <4> QED BY <4>1, <4>2
    <3> QED BY <1>2, <3>2, <3>3
  <2> DEFINE r == Reply(LineId, 0, 0, <<>>, n)
  <2>4. r \in Replies /\ r.id = LineId /\ r.code = 0 /\ r.artifacts = n
    BY <1>3 DEF Reply, Replies
  <2>5. Answer(r)
    BY <2>3
  <2> HIDE DEF r
  <2>6. GoodReply(Step, r)
    BY <1>3, <2>1, <2>3, <2>4 DEF GoodReply
  <2>7. client.next # 2 /\ Line.method # "apply"
    BY <2>1, <2>2
  <2> QED BY <1>1, <1>2, <2>1, <2>4, <2>5, <2>6, <2>7, SuiteAnswered
<1> QED BY <1>5, <1>6, <1>7

\* A suite whose verdict is given reads nothing more: its sidecar only ends.
LEMMA SuiteOver ==
  ASSUME SuiteInv, client.verdict # "none", RunnerStep
  PROVE  EndOfInput
<1>1. CASE proc # "running"
  <2>1. ~Reading
    BY <1>1 DEF Reading
  <2>2. ~HandleExport /\ ~HandleProjectOpen /\ ~RefuseApply /\ ~BeginApply /\ ~AnswerPing
    BY <2>1, ServersRead
  <2>3. ~ReadBlank /\ ~ReadMalformed /\ ~RefuseVersion /\ ~RefuseMethod /\ ~RefuseParams
    BY <2>1 DEF ReadBlank, ReadMalformed, RefuseVersion, RefuseMethod, RefuseParams
  <2>4. ~MapMutation /\ ~UpsertNodes /\ ~UpsertEdges /\ ~EndApply
    BY <1>1 DEF MapMutation, UpsertNodes, UpsertEdges, AtMutation, EndApply
  <2> QED BY <2>2, <2>3, <2>4 DEF RunnerStep
<1>2. CASE proc = "running"
  <2>0. stdin = <<>> /\ batch = NoBatch
    BY <1>2 DEF SuiteInv
  <2>1. ~Reading
    BY <2>0 DEF Reading
  <2>2. ~HandleExport /\ ~HandleProjectOpen /\ ~RefuseApply /\ ~BeginApply /\ ~AnswerPing
    BY <2>1, ServersRead
  <2>3. ~ReadBlank /\ ~ReadMalformed /\ ~RefuseVersion /\ ~RefuseMethod /\ ~RefuseParams
    BY <2>1 DEF ReadBlank, ReadMalformed, RefuseVersion, RefuseMethod, RefuseParams
  <2>4. ~MapMutation /\ ~UpsertNodes /\ ~UpsertEdges /\ ~EndApply
    BY <2>0 DEF MapMutation, UpsertNodes, UpsertEdges, AtMutation, EndApply
  <2> QED BY <2>2, <2>3, <2>4 DEF RunnerStep
<1> QED BY <1>1, <1>2

\* The end of the process, whichever, leaves the rest as it is.
LEMMA SuiteProcessEnds ==
  ASSUME SuiteInv, UNCHANGED <<session, client, sent, stdin, stdout, stderr, open, batch>>,
         \/ proc' = proc
         \/ proc' = "killed"
         \/ client.verdict # "none" /\ proc # "killed"
  PROVE  SuiteInv'
<1>1. SuiteSession' /\ client' \in Clients /\ Step' = Step /\ (RepliesGood => RepliesGood')
  BY RunnerKeeps
<1>2. stderr' \in Seq(Traces)
  BY DEF SuiteInv
<1>3. client'.traces = client.traces
  OBVIOUS
<1>4. Done' = Done
  BY DEF Done
<1>5. ASSUME client.verdict = "none"
      PROVE  Talking'
  <2>1. Talking /\ proc' \in {"running", "killed"}
    BY <1>5 DEF SuiteInv, Talking
  <2>2. Awaiting => Awaiting'
    BY <1>1 DEF Awaiting
  <2>3. BetweenSteps => BetweenSteps'
    BY DEF BetweenSteps
  <2>4. RequestWaits => RequestWaits'
    BY <1>1, <2>2 DEF RequestWaits
  <2>5. BatchUnderWay => BatchUnderWay'
    BY <1>1, <2>2 DEF BatchUnderWay, AsksToApply, Asks
  <2>6. RequestAnswered => RequestAnswered'
    BY <1>1, <2>2 DEF RequestAnswered, GoodReply, AtOpening
  <2>7. TracesKnown'
    <3>1. TracedUpTo(Done)' <=> TracedUpTo(Done)
      BY <1>3, <1>4, WrittenKept DEF TracedUpTo
    <3> QED BY <2>1, <3>1 DEF Talking, TracesKnown
  <2>8. OpenInTime'
    BY <2>1 DEF Talking, OpenInTime
  <2> QED BY <1>1, <2>1, <2>3, <2>4, <2>5, <2>6, <2>7, <2>8 DEF Talking
<1>6. (RanOut => RanOut') /\ (AtOpening => AtOpening') /\ (ExportCameToNothing => ExportCameToNothing')
  BY <1>3, WrittenKept DEF RanOut, AtOpening, ExportCameToNothing
<1> QED BY <1>1, <1>2, <1>5, <1>6 DEF SuiteInv

\* A call of a suite writes the step at hand.
LEMMA SuiteCalls ==
  ASSUME SuiteInv, Call
  PROVE  SuiteInv'
<1>1. /\ client.verdict = "none" /\ client.pending = 0 /\ Step.form = "request"
      /\ client.next <= Len(session.script)
      /\ stdin' = Append(stdin, Step) /\ sent' = Append(sent, Step)
      /\ client' = [client EXCEPT !.pending = Len(sent')]
      /\ UNCHANGED <<session, proc, open, batch, stdout, stderr>>
  <2>1. client.next \in Nat /\ Len(session.script) \in Nat
    BY ScriptKnown DEF SuiteInv, Clients
  <2> QED BY <2>1 DEF Call, InSuite, ScriptDone, Write, UnchangedRunner
<1>2. Talking /\ SuiteSession
  BY <1>1 DEF SuiteInv
<1>3. BetweenSteps /\ sent \in Seq(Lines)
  BY <1>1, <1>2 DEF Talking, RequestWaits, BatchUnderWay, RequestAnswered, Awaiting
<1>4. client.next \in 1 .. Len(session.script)
  BY <1>1, <1>2 DEF Talking
<1>5. Step \in Lines
  BY <1>1, <1>2, <1>4, StepKnown DEF Asks, AsksToApply, AsksToExport, IsWait
<1>6. /\ sent' \in Seq(Lines) /\ Len(sent') = Len(sent) + 1 /\ Len(sent') \in Nat \ {0}
      /\ stdin' = <<Step>>
  <2>1. Append(<<>>, Step) = <<Step>>
    OBVIOUS
  <2> QED BY <1>1, <1>3, <1>5, <2>1 DEF BetweenSteps
<1>7. /\ client' \in Clients /\ client'.pending = Len(sent') /\ client'.next = client.next
      /\ client'.replies = client.replies /\ client'.traces = client.traces
      /\ client'.verdict = client.verdict /\ client'.closed = client.closed
  BY <1>1, <1>6 DEF SuiteInv, Clients
<1>8. SuiteSession' /\ Step' = Step /\ (\A k : StepAnswered(k)' = StepAnswered(k))
  BY <1>1, <1>2, <1>7 DEF SuiteSession, Step, StepAnswered
<1>9. RepliesGood'
  BY <1>1, <1>2, <1>7, <1>8 DEF Talking, RepliesGood, GoodReply
<1>10. RequestWaits'
  <2>1. Awaiting'
    BY <1>1, <1>4, <1>6, <1>7, <1>8 DEF Awaiting
  <2> QED BY <1>1, <1>3, <1>6, <1>8, <2>1 DEF RequestWaits, BetweenSteps
<1>11. TracesKnown'
  <2>1. Done' = Done
    BY <1>1, <1>7 DEF Done
  <2>2. TracedUpTo(Done)' <=> TracedUpTo(Done)
    BY <1>1, <1>7, <2>1, WrittenKept DEF TracedUpTo
  <2> QED BY <1>1, <1>2, <1>7, <2>2 DEF Talking, TracesKnown
<1>12. OpenInTime'
  BY <1>1, <1>2, <1>7 DEF Talking, OpenInTime
<1>13. Talking'
  BY <1>1, <1>2, <1>4, <1>6, <1>7, <1>9, <1>10, <1>11, <1>12 DEF Talking
<1> QED BY <1>1, <1>7, <1>8, <1>13 DEF SuiteInv

\* A closed pipe is noticed only when the sidecar was killed.
LEMMA SuiteCutOff ==
  ASSUME SuiteInv, StdoutClosed
  PROVE  SuiteInv'
<1>1. /\ client.verdict = "none" /\ proc # "running"
      /\ client' = [client EXCEPT !.verdict = "raised", !.closed = TRUE]
      /\ UNCHANGED <<stdin, stdout, stderr, sent, session, proc, open, batch>>
  BY DEF StdoutClosed, InSuite, UnchangedRunner
<1>2. Talking /\ SuiteSession
  BY <1>1 DEF SuiteInv
<1>3. proc' = "killed"
  BY <1>1, <1>2 DEF Talking
<1>4. client' \in Clients /\ client'.verdict = "raised"
  BY <1>1 DEF SuiteInv, Clients
<1>5. SuiteSession' /\ stderr' \in Seq(Traces)
  BY <1>1, <1>2 DEF SuiteSession, SuiteInv
<1> QED BY <1>3, <1>4, <1>5 DEF SuiteInv

\* Draining changes neither what was written nor where the suite is.
LEMMA SuiteDrains ==
  ASSUME SuiteInv, DrainStderr
  PROVE  SuiteInv'
<1>1. /\ Written' = Written /\ stderr' \in Seq(Traces) /\ client' \in Clients
      /\ client' = [client EXCEPT !.traces = Append(client.traces, Head(stderr))]
  BY WrittenDrained DEF SuiteInv
<1>2. /\ stderr # <<>> /\ UNCHANGED <<session, proc, open, batch, stdin, stdout, sent>>
  BY DEF DrainStderr, UnchangedRunner
<1>3. /\ client'.pending = client.pending /\ client'.next = client.next
      /\ client'.replies = client.replies
      /\ client'.verdict = client.verdict /\ client'.closed = client.closed
  BY <1>1 DEF SuiteInv, Clients
<1>4. SuiteSession' /\ Step' = Step /\ (\A k : StepAnswered(k)' = StepAnswered(k))
  BY <1>2, <1>3 DEF SuiteInv, SuiteSession, Step, StepAnswered
<1>5. /\ \A n : TracedUpTo(n) => FirstUpserts(Written', session'.doc, n)
      /\ AllTraced => AllTraced'
  BY <1>1, <1>2 DEF TracedUpTo, AllTraced
<1>6. ASSUME client.verdict = "none"
      PROVE  Talking'
  <2>1. Talking
    BY <1>6 DEF SuiteInv
  <2>2. Awaiting => Awaiting'
    BY <1>2, <1>3, <1>4 DEF Awaiting
  <2>3. BetweenSteps => BetweenSteps'
    BY <1>2, <1>3 DEF BetweenSteps
  <2>4. RequestWaits => RequestWaits'
    BY <1>2, <1>4, <2>2 DEF RequestWaits
  <2>5. BatchUnderWay => BatchUnderWay'
    BY <1>2, <1>3, <1>4, <2>2 DEF BatchUnderWay, AsksToApply, Asks
  <2>6. RequestAnswered => RequestAnswered'
    BY <1>2, <1>3, <1>4, <2>2 DEF RequestAnswered, GoodReply, AtOpening
  <2>7. TracesKnown'
    <3>1. Done' = Done
      BY <1>2, <1>3 DEF Done
    <3>2. TracedUpTo(Done) => TracedUpTo(Done)'
      BY <1>5, <3>1 DEF TracedUpTo
    <3>3. session.sidecar = "kicad" /\ client.next <= 5 => client.next # 5
      BY <1>2, <2>1 DEF Talking, TracesKnown
    <3> QED BY <1>2, <1>3, <2>1, <3>2, <3>3 DEF Talking, TracesKnown
  <2>8. OpenInTime'
    BY <1>2, <1>3, <2>1 DEF Talking, OpenInTime
  <2>9. RepliesGood'
    BY <1>2, <1>3, <1>4, <2>1 DEF Talking, RepliesGood, GoodReply
  <2> QED BY <1>2, <1>3, <2>1, <2>3, <2>4, <2>5, <2>6, <2>7, <2>8, <2>9 DEF Talking
<1>7. (RanOut => RanOut') /\ (AtOpening => AtOpening') /\ (ExportCameToNothing => ExportCameToNothing')
  BY <1>2, <1>3, <1>5 DEF RanOut, AtOpening, ExportCameToNothing
<1> QED BY <1>1, <1>2, <1>3, <1>4, <1>6, <1>7 DEF SuiteInv

\* The reply to the step at hand takes the suite to the next.
LEMMA SuiteReceives ==
  ASSUME SuiteInv, Receive
  PROVE  SuiteInv'
<1> DEFINE r == Head(stdout)
<1>1. /\ client.verdict = "none" /\ client.pending # 0 /\ stdout # <<>>
      /\ client' = IF r.id # client.pending THEN client
                   ELSE IF r.code # 0 THEN [client EXCEPT !.verdict = "raised", !.closed = TRUE]
                   ELSE [client EXCEPT !.pending = 0, !.next = client.next + 1,
                                       !.replies = Append(client.replies, r)]
      /\ stdout' = Tail(stdout)
      /\ UNCHANGED <<stdin, stderr, sent, session, proc, open, batch>>
  BY DEF Receive, InSuite, UnchangedRunner
<1>2. Talking /\ SuiteSession
  BY <1>1 DEF SuiteInv
<1>3. RequestAnswered
  BY <1>1, <1>2 DEF Talking, BetweenSteps, RequestWaits, BatchUnderWay
<1>4. /\ r = stdout[1] /\ stdout' = <<>> /\ r.id = client.pending
      /\ GoodReply(Step, r) \/ (r.code # 0 /\ AtOpening)
      /\ client.next \in 1 .. Len(session.script) /\ Step.form = "request"
      /\ stdin = <<>> /\ batch = NoBatch /\ client.next \in Nat \ {0}
  <2>1. stdout = << stdout[1] >>
    BY <1>3 DEF RequestAnswered
  <2>2. \A x : Head(<<x>>) = x /\ Tail(<<x>>) = <<>>
    OBVIOUS
  <2>3. r = stdout[1] /\ Tail(stdout) = <<>>
    BY <2>1, <2>2
  <2> QED BY <1>1, <1>3, <2>3 DEF RequestAnswered, Awaiting
<1> HIDE DEF r
<1>0. CASE ~GoodReply(Step, r)
  <2>1. r.code # 0 /\ AtOpening
    BY <1>4, <1>0
  <2>2. client' = [client EXCEPT !.verdict = "raised", !.closed = TRUE]
    BY <1>1, <1>4, <2>1
  <2>3. client' \in Clients /\ client'.verdict = "raised" /\ client'.next = client.next
    BY <2>2 DEF SuiteInv, Clients
  <2>4. SuiteSession' /\ stderr' \in Seq(Traces) /\ AtOpening'
    BY <1>1, <1>2, <2>1, <2>3 DEF SuiteSession, SuiteInv, AtOpening
  <2>5. stdin' = <<>> /\ batch' = NoBatch
    BY <1>1, <1>4
  <2> QED BY <2>3, <2>4, <2>5 DEF SuiteInv
<1>16. CASE GoodReply(Step, r)
  <2>5. client' = [client EXCEPT !.pending = 0, !.next = client.next + 1,
                                 !.replies = Append(client.replies, r)]
    BY <1>1, <1>4, <1>16 DEF GoodReply
  <2>6. client.replies \in Seq(Replies) /\ r \in Replies
    BY <1>4, <1>16 DEF SuiteInv, Clients, GoodReply
  <2>7. /\ client' \in Clients /\ client'.pending = 0 /\ client'.next = client.next + 1
        /\ client'.replies = Append(client.replies, r) /\ client'.traces = client.traces
        /\ client'.verdict = "none" /\ client'.closed = client.closed
    <3>1. Append(client.replies, r) \in Seq(Replies) /\ client.next + 1 \in Nat \ {0}
      BY <1>4, <2>6
    <3>2. client \in Clients /\ client.verdict = "none"
      BY <1>1 DEF SuiteInv
    <3>3. client' \in Clients
      BY <2>5, <3>1, <3>2 DEF Clients
    <3>4. /\ client'.pending = 0 /\ client'.next = client.next + 1
          /\ client'.replies = Append(client.replies, r) /\ client'.traces = client.traces
          /\ client'.verdict = client.verdict /\ client'.closed = client.closed
      BY <2>5, <3>2 DEF Clients
    <3> QED BY <3>2, <3>3, <3>4
  <2>8. SuiteSession' /\ (\A k : StepAnswered(k)' = StepAnswered(k))
    BY <1>1, <1>2 DEF SuiteSession, StepAnswered
  <2>9. session.sidecar = "kicad" => client.next # 4
    BY <1>2, <1>4, StepKnown, ScriptKnown DEF IsWait, Step
  <2>10. RepliesGood'
    <3> DEFINE n == client.next
               l == Len(client.replies)
    <3>1. l = (IF session.sidecar = "kicad" /\ n > 4 THEN n - 2 ELSE n - 1) /\ l \in Nat
      BY <1>2, <2>6 DEF Talking, RepliesGood
    <3>2. Len(client'.replies) = l + 1
          /\ (\A k \in 1 .. l : client'.replies[k] = client.replies[k]) /\ client'.replies[l + 1] = r
      BY <2>6, <2>7, AppendProperties
    <3>3. StepAnswered(l + 1) = Step
      BY <1>4, <2>9, <3>1 DEF StepAnswered, Step
    <3>4. ASSUME NEW k \in 1 .. l + 1
          PROVE  GoodReply(StepAnswered(k), client'.replies[k])
      <4>1. CASE k = l + 1
        BY <1>4, <1>16, <3>2, <3>3, <4>1
      <4>2. CASE k \in 1 .. l
        BY <1>2, <3>2, <4>2 DEF Talking, RepliesGood
      <4> QED BY <3>1, <4>1, <4>2
    <3>5. Len(client'.replies) = IF session'.sidecar = "kicad" /\ client'.next > 4
                                 THEN client'.next - 2 ELSE client'.next - 1
      BY <1>1, <1>4, <2>7, <2>9, <3>1, <3>2
    <3> HIDE DEF l
    <3>6. \A k \in 1 .. Len(client'.replies) : GoodReply(StepAnswered(k)', client'.replies[k])
      BY <2>8, <3>2, <3>4
    <3>7. session' = session
      BY <1>1
    <3> QED BY <3>5, <3>6, <3>7 DEF RepliesGood, GoodReply
  <2>11. BetweenSteps'
    BY <1>1, <1>4, <2>7 DEF BetweenSteps
  <2>12. TracesKnown'
    <3> SUFFICES ASSUME session.sidecar = "kicad", client.next + 1 <= 5
                 PROVE  TracedUpTo(Done)' /\ client.next + 1 # 5
      BY <1>1, <2>7 DEF TracesKnown
    <3>1. client.next \in {1, 2, 3}
      BY <1>4, <2>9
    <3>2. Done' = Done
      BY <1>1, <1>4, <2>7, <3>1 DEF Done
    <3>3. TracedUpTo(Done)' <=> TracedUpTo(Done)
      BY <1>1, <2>7, <3>2, WrittenKept DEF TracedUpTo
    <3> QED BY <1>2, <3>1, <3>3 DEF Talking, TracesKnown
  <2>13. OpenInTime'
    BY <1>1, <1>2, <1>4, <2>7 DEF Talking, OpenInTime
  <2>14. client'.next \in 1 .. Len(session'.script) + 1
    <3>1. Len(session.script) \in Nat
      BY <1>2, ScriptKnown
    <3> QED BY <1>1, <1>4, <2>7, <3>1
  <2>15. Talking'
    BY <1>1, <1>2, <2>7, <2>10, <2>11, <2>12, <2>13, <2>14 DEF Talking
  <2> QED BY <1>1, <2>7, <2>8, <2>15 DEF SuiteInv
<1> QED BY <1>0, <1>16

\* The first x of the upserts of n mutations: half are edges, the rest nodes.
LEMMA UpsertsCounted ==
  ASSUME NEW w \in Seq(Traces), NEW d, NEW n \in Nat, UpsertsOf(w, d, n),
         NEW x \in Nat, x <= 2 * n, NEW s, DOMAIN s = 1 .. x, \A y \in 1 .. x : s[y] = w[y],
         NEW k \in Nat, x = 2 * k \/ x = 2 * k + 1
  PROVE  TraceCount(s, "upsertEdges") = k /\ TraceCount(s, "upsertNodes") = x - k
<1>1. \A j \in 1 .. n : w[2 * j - 1].method = "upsertNodes" /\ w[2 * j].method = "upsertEdges"
  BY DEF UpsertsOf
<1>2. ASSUME NEW j \in Nat, 2 * j + 1 \in 1 .. x
      PROVE  s[2 * j + 1].method = "upsertNodes"
  <2>1. j + 1 \in 1 .. n /\ 2 * (j + 1) - 1 = 2 * j + 1
    BY <1>2
  <2> QED BY <1>1, <1>2, <2>1
<1>3. ASSUME NEW j \in Nat, 2 * j \in 1 .. x
      PROVE  s[2 * j].method = "upsertEdges"
  <2>1. j \in 1 .. n
    BY <1>3
  <2> QED BY <1>1, <1>3, <2>1
<1> QED BY <1>2, <1>3, CountAlternating

LEMMA WrittenCounted ==
  ASSUME AllTraced, Written \in Seq(Traces)
  PROVE  /\ TraceCount(Written, "upsertNodes") = SuiteSize
         /\ TraceCount(Written, "upsertEdges") = SuiteSize
<1> DEFINE w == Written
           n == SuiteSize
<1>1. UpsertsOf(w, session.doc, n) /\ Len(w) = 2 * n /\ n \in Nat
  BY DEF AllTraced, UpsertsOf
<1>2. DOMAIN w = 1 .. 2 * n
  BY <1>1
<1> HIDE DEF w, n
<1>3. TraceCount(w, "upsertEdges") = n /\ TraceCount(w, "upsertNodes") = 2 * n - n
  <2>1. 2 * n \in Nat /\ 2 * n <= 2 * n
    BY <1>1
  <2>2. w \in Seq(Traces)
    BY DEF w
  <2> QED BY <1>1, <1>2, <2>1, <2>2, UpsertsCounted
<1>4. 2 * n - n = n
  BY <1>1
<1> QED BY <1>3, <1>4 DEF w, n

\* Who has seen as many traces of either kind as there are has drained the pipe.
LEMMA AllDrained ==
  ASSUME NEW c \in Seq(Traces), NEW e \in Seq(Traces), NEW d, UpsertsOf(c \o e, d, SuiteSize),
         TraceCount(c, "upsertEdges") >= SuiteSize
  PROVE  e = <<>>
<1> DEFINE w == c \o e
<1>1. /\ w \in Seq(Traces) /\ Len(w) = Len(c) + Len(e) /\ Len(w) = 2 * SuiteSize
      /\ \A y \in 1 .. Len(c) : w[y] = c[y]
  BY ConcatElements DEF UpsertsOf
<1>0. UpsertsOf(w, d, SuiteSize)
  OBVIOUS
<1> HIDE DEF w
<1>2. PICK x \in Nat, y \in Nat : x = Len(c) /\ y = Len(e)
  OBVIOUS
<1>3. x <= 2 * SuiteSize
  BY <1>1, <1>2
<1>4. PICK k \in Nat : x = 2 * k \/ x = 2 * k + 1
  BY Halves
<1>5. DOMAIN c = 1 .. x /\ \A z \in 1 .. x : c[z] = w[z]
  BY <1>1, <1>2
<1>6. TraceCount(c, "upsertEdges") = k
  BY <1>0, <1>1, <1>3, <1>4, <1>5, UpsertsCounted
<1>7. y = 0
  BY <1>1, <1>2, <1>3, <1>4, <1>6
<1>8. Len(e) = 0 => e = <<>>
  OBVIOUS
<1> QED BY <1>2, <1>7, <1>8

\* At the wait all traces of the batch are written; it ends when they are here.
LEMMA SuiteWaits ==
  ASSUME SuiteInv, client.verdict = "none", client.pending = 0, ~ScriptDone, Step.form = "wait"
  PROVE  /\ Talking /\ SuiteSession /\ BetweenSteps /\ client.next = 4
         /\ session.sidecar = "kicad" /\ IsWait(Step)
         /\ TracedUpTo(2 * SuiteSize) /\ AllTraced
         /\ client.next \in 1 .. Len(session.script) /\ Len(session.script) \in Nat
<1>1. Talking /\ SuiteSession
  BY DEF SuiteInv
<1>2. Len(session.script) \in Nat /\ client.next \in Nat
  BY <1>1, ScriptKnown DEF SuiteInv, Clients
<1>3. client.next \in 1 .. Len(session.script)
  BY <1>1, <1>2 DEF ScriptDone, Talking
<1>4. client.next = 4 /\ session.sidecar = "kicad" /\ IsWait(Step)
  BY <1>1, <1>3, StepKnown DEF Asks, AsksToApply, AsksToExport
<1>5. BetweenSteps
  BY <1>1 DEF Talking, RequestWaits, BatchUnderWay, RequestAnswered, Awaiting
<1>6. Done = 2 * SuiteSize
  BY <1>4 DEF Done
<1>7. TracedUpTo(2 * SuiteSize)
  BY <1>1, <1>4, <1>6 DEF Talking, TracesKnown
<1> QED BY <1>1, <1>2, <1>3, <1>4, <1>5, <1>7, LastUpsert

LEMMA SuiteHasTraces ==
  ASSUME SuiteInv, WaitForSceneTraces
  PROVE  SuiteInv'
<1>1. /\ client.verdict = "none" /\ client.pending = 0 /\ ~ScriptDone /\ Step.form = "wait"
      /\ TracesHere(Step)
      /\ client' = [client EXCEPT !.next = client.next + 1]
      /\ UNCHANGED <<stdin, stdout, stderr, sent, session, proc, open, batch>>
  BY DEF WaitForSceneTraces, InSuite, UnchangedRunner
<1>2. /\ Talking /\ SuiteSession /\ BetweenSteps /\ client.next = 4
      /\ session.sidecar = "kicad" /\ IsWait(Step)
      /\ TracedUpTo(2 * SuiteSize) /\ AllTraced
      /\ client.next \in 1 .. Len(session.script) /\ Len(session.script) \in Nat
  BY <1>1, SuiteWaits
<1>3. stderr = <<>>
  <2>1. client.traces \in Seq(Traces) /\ stderr \in Seq(Traces)
    BY DEF SuiteInv, Clients
  <2>2. TraceCount(client.traces, "upsertEdges") >= SuiteSize
    BY <1>1, <1>2 DEF TracesHere, IsWait
  <2>3. UpsertsOf(client.traces \o stderr, session.doc, SuiteSize)
    BY <1>2 DEF AllTraced, Written
  <2> QED BY <2>1, <2>2, <2>3, AllDrained
<1>4. /\ client' \in Clients /\ client'.pending = client.pending /\ client'.next = 5
      /\ client'.replies = client.replies /\ client'.traces = client.traces
      /\ client'.verdict = "none" /\ client'.closed = client.closed
  <2>1. client \in Clients
    BY DEF SuiteInv
  <2>2. client' \in Clients
    <3>1. client.next + 1 = 5
      BY <1>2
    <3>2. client' = [client EXCEPT !.next = 5]
      BY <1>1, <3>1
    <3>3. 5 \in Nat \ {0}
      OBVIOUS
    <3> QED BY <2>1, <3>2, <3>3 DEF Clients
  <2>3. /\ client'.pending = client.pending /\ client'.next = client.next + 1
        /\ client'.replies = client.replies /\ client'.traces = client.traces
        /\ client'.verdict = client.verdict /\ client'.closed = client.closed
    BY <1>1, <2>1 DEF Clients
  <2> QED BY <1>1, <1>2, <2>2, <2>3
<1>5. SuiteSession' /\ (\A k : StepAnswered(k)' = StepAnswered(k))
  BY <1>1, <1>2 DEF SuiteSession, StepAnswered
<1>6. RepliesGood'
  <2>1. Len(client.replies) = 3 /\ (\A k \in 1 .. 3 : GoodReply(StepAnswered(k), client.replies[k]))
    BY <1>2 DEF Talking, RepliesGood
  <2>2. session'.sidecar = "kicad" /\ client'.next = 5 /\ client'.replies = client.replies
    BY <1>1, <1>2, <1>4
  <2>3. Len(client'.replies) = client'.next - 2
    BY <2>1, <2>2
  <2>4. \A k \in 1 .. Len(client'.replies) : GoodReply(StepAnswered(k)', client'.replies[k])
    BY <1>5, <2>1, <2>2
  <2>5. session' = session
    BY <1>1
  <2> QED BY <2>2, <2>3, <2>4, <2>5 DEF RepliesGood, GoodReply
<1>7. BetweenSteps'
  BY <1>1, <1>2, <1>4 DEF BetweenSteps
<1>8. TracesKnown'
  <2>1. Done' = 2 * SuiteSize
    BY <1>4 DEF Done
  <2>2. TracedUpTo(2 * SuiteSize)' <=> TracedUpTo(2 * SuiteSize)
    BY <1>1, <1>4, WrittenKept DEF TracedUpTo
  <2>3. TracedUpTo(Done)'
    BY <1>2, <2>1, <2>2 DEF TracedUpTo
  <2> QED BY <1>1, <1>3, <2>3 DEF TracesKnown
<1>9. OpenInTime'
  BY <1>1, <1>2, <1>4 DEF Talking, OpenInTime
<1>10. client'.next \in 1 .. Len(session'.script) + 1
  BY <1>1, <1>2, <1>4
<1>11. Talking'
  BY <1>1, <1>2, <1>4, <1>6, <1>7, <1>8, <1>9, <1>10 DEF Talking
<1> QED BY <1>1, <1>4, <1>5, <1>11 DEF SuiteInv

LEMMA SuiteGivesUp ==
  ASSUME SuiteInv, WaitTimesOut
  PROVE  SuiteInv'
<1>1. /\ client.verdict = "none" /\ client.pending = 0 /\ ~ScriptDone /\ Step.form = "wait"
      /\ client' = [client EXCEPT !.verdict = "raised", !.closed = TRUE]
      /\ UNCHANGED <<stdin, stdout, stderr, sent, session, proc, open, batch>>
  BY DEF WaitTimesOut, InSuite, UnchangedRunner
<1>2. /\ SuiteSession /\ BetweenSteps /\ client.next = 4
      /\ session.sidecar = "kicad" /\ AllTraced
  BY <1>1, SuiteWaits
<1>3. /\ client' \in Clients /\ client'.next = client.next /\ client'.traces = client.traces
      /\ client'.verdict = "raised"
  BY <1>1 DEF SuiteInv, Clients
<1>4. SuiteSession' /\ stderr' \in Seq(Traces)
  BY <1>1, <1>2 DEF SuiteSession, SuiteInv
<1>5. stdin' = <<>> /\ batch' = NoBatch
  BY <1>1, <1>2 DEF BetweenSteps
<1>6. AllTraced'
  BY <1>1, <1>2, <1>3, WrittenKept
<1>7. RanOut'
  BY <1>1, <1>2, <1>3, <1>6 DEF RanOut
<1> QED BY <1>3, <1>4, <1>5, <1>7 DEF SuiteInv

\* The traces of a batch are those the suite expects, one by one.
LEMMA UpsertsExpected ==
  ASSUME NEW c \in Seq(Traces), NEW d, UpsertsOf(c, d, SuiteSize),
         NEW x \in DOMAIN c, c[x].method = "upsertNodes"
  PROVE  LET i == TraceCount(SubSeq(c, 1, x), "upsertNodes") IN
         /\ i \in 1 .. SuiteSize /\ c[x].commit = << d, i >>
         /\ c[x].type = KiCadNodeType(SuiteMutations("kicad")[i].kind)
<1> DEFINE s == SubSeq(c, 1, x)
<1>1. /\ Len(c) = 2 * SuiteSize
      /\ \A j \in 1 .. SuiteSize :
           /\ c[2 * j - 1].method = "upsertNodes" /\ c[2 * j].method = "upsertEdges"
           /\ c[2 * j - 1].commit = << d, j >>
           /\ c[2 * j - 1].type = KiCadNodeType(SuiteMutations("kicad")[j].kind)
  BY DEF UpsertsOf
<1>2. x \in Nat /\ 1 <= x /\ x <= 2 * SuiteSize
  BY <1>1
<1>3. PICK k \in Nat : x = 2 * k \/ x = 2 * k + 1
  BY <1>2, Halves
<1>4. x = 2 * k + 1
  <2>1. x = 2 * k => k \in 1 .. SuiteSize
    BY <1>2
  <2> QED BY <1>1, <1>3, <2>1
<1>5. k + 1 \in 1 .. SuiteSize /\ 2 * (k + 1) - 1 = x
  BY <1>2, <1>4
<1>6. DOMAIN s = 1 .. x /\ \A y \in 1 .. x : s[y] = c[y]
  <2>1. x <= Len(c)
    BY <1>1, <1>2
  <2>2. s = [y \in 1 .. x |-> c[y]]
    <3>1. \A y \in 1 .. x : y - 1 + 1 = y
      BY <1>2
    <3> QED BY <1>2, <2>1
  <2> QED BY <2>2
<1> HIDE DEF s
<1>7. TraceCount(s, "upsertNodes") = x - k
  <2>1. UpsertsOf(c, d, SuiteSize) /\ c \in Seq(Traces) /\ SuiteSize \in Nat
    OBVIOUS
  <2>2. x \in Nat /\ x <= 2 * SuiteSize
    BY <1>2
  <2>3. DOMAIN s = 1 .. x /\ \A y \in 1 .. x : s[y] = c[y]
    BY <1>6
  <2>0. PICK y \in Nat : y = x
    BY <2>2
  <2>4. PICK q : y = x /\ q = s
    BY <2>0
  <2>5. y <= 2 * SuiteSize /\ (y = 2 * k \/ y = 2 * k + 1)
    BY <1>3, <2>2, <2>4
  <2>6. DOMAIN q = 1 .. y /\ \A z \in 1 .. y : q[z] = c[z]
    BY <2>3, <2>4
  <2>7. TraceCount(q, "upsertEdges") = k /\ TraceCount(q, "upsertNodes") = y - k
    BY <2>1, <2>5, <2>6, UpsertsCounted
  <2> QED BY <2>4, <2>7
<1>8. x - k = k + 1
  BY <1>4
<1>9. /\ c[x].commit = << d, k + 1 >>
      /\ c[x].type = KiCadNodeType(SuiteMutations("kicad")[k + 1].kind)
  BY <1>1, <1>5
<1> QED BY <1>5, <1>7, <1>8, <1>9 DEF s

LEMMA SuiteSucceeds ==
  ASSUME SuiteInv, client.verdict = "none", ScriptDone
  PROVE  (SuiteOk \/ ExportCameToNothing) /\ stdin = <<>> /\ batch = NoBatch
<1> DEFINE S == session.script
           R == client.replies
<1>1. Talking /\ SuiteSession
  BY DEF SuiteInv
<1>2. Len(S) \in Nat /\ client.next \in Nat
  BY <1>1, ScriptKnown DEF SuiteInv, Clients
<1>3. client.next = Len(S) + 1
  BY <1>1, <1>2 DEF ScriptDone, Talking
<1>4. BetweenSteps
  <2>1. ~(client.next \in 1 .. Len(S))
    BY <1>2, <1>3
  <2> QED BY <1>1, <2>1 DEF Talking, RequestWaits, BatchUnderWay, RequestAnswered, Awaiting
<1>5. /\ Len(R) = IF session.sidecar = "kicad" /\ client.next > 4
                  THEN client.next - 2 ELSE client.next - 1
      /\ \A k \in 1 .. Len(R) : GoodReply(StepAnswered(k), R[k])
  BY <1>1 DEF Talking, RepliesGood
<1>6. /\ AsksToApply(S[3])
      /\ session.sidecar = "kicad" =>
           /\ Len(S) = IF session.driver = "mutation-hook" THEN 4 ELSE 7
           /\ Len(S) = 7 => AsksToExport(S[5]) /\ AsksToExport(S[6]) /\ AsksToApply(S[7])
      /\ session.sidecar = "freecad" =>
           /\ Len(S) = IF session.driver = "mutation-hook" THEN 3 ELSE 5
           /\ Len(S) = 5 => AsksToExport(S[4]) /\ AsksToExport(S[5])
  BY <1>1, ScriptKnown
<1>7. /\ session.sidecar \in {"kicad", "freecad"}
      /\ session.driver \in {"mutation-hook", "roundtrip"}
  BY <1>1 DEF SuiteSession
<1> HIDE DEF S, R
<1>8. /\ Len(R) >= 3 /\ Len(S) \in 3 .. 7
      /\ session.sidecar = "kicad" /\ session.driver = "mutation-hook" => Len(S) = 4
      /\ session.sidecar = "kicad" /\ session.driver = "roundtrip" => Len(S) = 7 /\ Len(R) = 6
      /\ session.sidecar = "freecad" /\ session.driver = "roundtrip" => Len(S) = 5 /\ Len(R) = 5
  <2>1. PICK s \in Nat, r \in Nat : s = Len(S) /\ r = Len(R)
    BY <1>2 DEF SuiteInv, Clients, R
  <2>2. r = IF session.sidecar = "kicad" /\ s > 3 THEN s - 1 ELSE s
    BY <1>3, <1>5, <2>1
  <2>3. /\ session.sidecar = "kicad" => s = IF session.driver = "mutation-hook" THEN 4 ELSE 7
        /\ session.sidecar = "freecad" => s = IF session.driver = "mutation-hook" THEN 3 ELSE 5
    BY <1>6, <2>1
  <2> QED BY <1>7, <2>1, <2>2, <2>3
<1>9. R[3].applied = SuiteSize /\ R[3].errors = <<>>
  <2>1. 3 \in 1 .. Len(R)
    <3>1. Len(R) \in Nat
      BY DEF SuiteInv, Clients, R
    <3> QED BY <1>8, <3>1
  <2>2. StepAnswered(3) = S[3]
    BY DEF StepAnswered, S
  <2> QED BY <1>5, <1>6, <2>1, <2>2 DEF GoodReply, AsksToApply, Asks
<1>10. CASE session.driver = "roundtrip" /\ session.sidecar = "kicad"
  <2>1. Len(R) = 6 /\ Len(S) = 7
    BY <1>8, <1>10
  <2>2. StepAnswered(4) = S[5] /\ StepAnswered(5) = S[6] /\ StepAnswered(6) = S[7]
    BY <1>10 DEF StepAnswered, S
  <2>3. GoodReply(S[5], R[4]) /\ GoodReply(S[6], R[5]) /\ GoodReply(S[7], R[6])
    BY <1>5, <2>1, <2>2
  <2>4. /\ R[4].artifacts = 1 \/ (session.host /\ R[4].artifacts = 0)
        /\ R[5].artifacts = 1 \/ (session.host /\ R[5].artifacts = 0)
        /\ R[6].applied = SuiteSize
    BY <1>6, <1>10, <2>1, <2>3 DEF GoodReply, AsksToExport, AsksToApply, Asks
  <2>5. RoundtripOk \/ ExportCameToNothing
    BY <1>9, <1>10, <2>4 DEF RoundtripOk, ExportCameToNothing, R
  <2> QED BY <1>4, <1>10, <2>5 DEF SuiteOk, BetweenSteps
<1>11. CASE session.driver = "roundtrip" /\ session.sidecar = "freecad"
  <2>1. Len(R) = 5 /\ Len(S) = 5
    BY <1>8, <1>11
  <2>2. StepAnswered(4) = S[4] /\ StepAnswered(5) = S[5]
    BY <1>11 DEF StepAnswered, S
  <2>3. GoodReply(S[4], R[4]) /\ GoodReply(S[5], R[5])
    BY <1>5, <2>1, <2>2
  <2>4. R[4].artifacts = 1 /\ R[5].artifacts = 1
    BY <1>6, <1>11, <2>1, <2>3 DEF GoodReply, AsksToExport, Asks
  <2>5. RoundtripOk
    BY <1>9, <1>11, <2>4 DEF RoundtripOk, R
  <2> QED BY <1>4, <1>11, <2>5 DEF SuiteOk, BetweenSteps
<1>12. CASE session.driver = "mutation-hook" /\ session.sidecar = "kicad"
  <2>0. Len(S) = 4
    BY <1>8, <1>12
  <2>1. client.next = 5
    BY <1>3, <2>0
  <2>2. stderr = <<>> /\ AllTraced
    <3>1. Done = 2 * SuiteSize
      BY <2>1 DEF Done
    <3>2. stderr = <<>> /\ TracedUpTo(2 * SuiteSize)
      BY <1>1, <1>12, <2>1, <3>1 DEF Talking, TracesKnown
    <3> QED BY <3>2, LastUpsert
  <2>3. client.traces \in Seq(Traces) /\ Written = client.traces
    <3>1. client.traces \in Seq(Traces)
      BY DEF SuiteInv, Clients
    <3> QED BY <2>2, <3>1 DEF Written
  <2>4. /\ TraceCount(client.traces, "upsertNodes") = SuiteSize
        /\ TraceCount(client.traces, "upsertEdges") = SuiteSize
    BY <2>2, <2>3, WrittenCounted
  <2>5. Len(SuiteMutations("kicad")) = SuiteSize
    BY SuiteMutationsKnown
  <2>6. ASSUME NEW x \in DOMAIN client.traces, client.traces[x].method = "upsertNodes",
               NEW i, i = TraceCount(SubSeq(client.traces, 1, x), "upsertNodes")
        PROVE  LET expected == ExpectedKiCadUpserts(session.doc, SuiteMutations("kicad")) IN
               client.traces[x].commit = expected[i].commit /\ client.traces[x].type = expected[i].type
    <3>1. UpsertsOf(client.traces, session.doc, SuiteSize)
      BY <2>2, <2>3 DEF AllTraced
    <3>2. /\ i \in 1 .. SuiteSize /\ client.traces[x].commit = << session.doc, i >>
          /\ client.traces[x].type = KiCadNodeType(SuiteMutations("kicad")[i].kind)
      BY <2>3, <2>6, <3>1, UpsertsExpected
    <3> QED BY <2>5, <3>2 DEF ExpectedKiCadUpserts
  <2>7. KiCadHookOk
    BY <1>9, <2>4, <2>5, <2>6 DEF KiCadHookOk, R
  <2> QED BY <1>4, <1>12, <2>7 DEF SuiteOk, BetweenSteps
<1>13. CASE session.driver = "mutation-hook" /\ session.sidecar = "freecad"
  <2> DEFINE muts == SuiteMutations("freecad")
  <2>1. Len(muts) = SuiteSize /\ \A i \in 1 .. SuiteSize : muts[i].kind \in {"solid", "constraint"}
    BY SuiteMutationsKnown DEF FreecadMapsMutation
  <2>2. {i \in 1 .. Len(muts) : muts[i].kind \in {"solid", "constraint"}} = 1 .. SuiteSize
    BY <2>1
  <2>3. Cardinality(1 .. SuiteSize) = SuiteSize
    <3>1. 1 \in Int /\ SuiteSize \in Int /\ 1 <= SuiteSize /\ SuiteSize - 1 + 1 = SuiteSize
      OBVIOUS
    <3> QED BY <3>1, FS_Interval
  <2>4. FreecadHookOk
    BY <1>9, <2>2, <2>3 DEF FreecadHookOk, SupportedCount, R
  <2> QED BY <1>4, <1>13, <2>4 DEF SuiteOk, BetweenSteps
<1> QED BY <1>7, <1>10, <1>11, <1>12, <1>13

LEMMA SuiteConcludes ==
  ASSUME SuiteInv, Conclude
  PROVE  SuiteInv'
<1>1. /\ client.verdict = "none" /\ ScriptDone
      /\ client' = [client EXCEPT !.verdict = IF SuiteOk THEN "ok" ELSE "failed",
                                  !.closed = TRUE]
      /\ UNCHANGED <<stdin, stdout, stderr, sent, session, proc, open, batch>>
  BY DEF Conclude, InSuite, UnchangedRunner
<1>2. (SuiteOk \/ ExportCameToNothing) /\ stdin = <<>> /\ batch = NoBatch
  BY <1>1, SuiteSucceeds
<1>3. PICK v \in {"ok", "failed"} :
        /\ client' = [client EXCEPT !.verdict = v, !.closed = TRUE]
        /\ v = "failed" => ExportCameToNothing
  BY <1>1, <1>2
<1>4. client' \in Clients /\ client'.verdict = v /\ client'.replies = client.replies
  BY <1>3 DEF SuiteInv, Clients
<1>5. SuiteSession' /\ stderr' \in Seq(Traces)
  BY <1>1 DEF SuiteSession, SuiteInv
<1>6. v = "failed" => ExportCameToNothing'
  BY <1>1, <1>3, <1>4 DEF ExportCameToNothing
<1>7. v # "none" /\ v # "raised"
  BY <1>3
<1> QED BY <1>1, <1>2, <1>4, <1>5, <1>6, <1>7 DEF SuiteInv

--------------------------------------------------------------------------------
(* The verdicts *)

LEMMA SuiteNext ==
  ASSUME SuiteInv, [Next]_vars
  PROVE  SuiteInv'
<1>1. session.driver # "ide"
  BY DEF SuiteInv, SuiteSession
<1>2. CASE RunnerStep /\ client.verdict = "none"
  <2>1. EndOfInput => FALSE
    BY <1>2 DEF EndOfInput, SuiteInv, Talking
  <2>2. ReadBlank \/ ReadMalformed \/ RefuseVersion \/ RefuseMethod \/ RefuseParams
          \/ RefuseApply => FALSE
    BY <1>2, SuiteRefused
  <2>3. AnswerPing \/ HandleProjectOpen \/ HandleExport => SuiteInv'
    BY <1>2, SuiteServed
  <2>4. BeginApply => SuiteInv'
    BY <1>2, SuiteBegins
  <2>5. MapMutation \/ UpsertNodes \/ UpsertEdges => SuiteInv'
    BY <1>2, SuiteMaps, SuiteUpserts
  <2>6. EndApply => SuiteInv'
    BY <1>2, SuiteEnds
  <2> QED BY <1>2, <2>1, <2>2, <2>3, <2>4, <2>5, <2>6 DEF RunnerStep
<1>3. CASE RunnerStep /\ client.verdict # "none"
  <2>1. EndOfInput
    BY <1>3, SuiteOver
  <2>2. /\ proc = "running" /\ client.verdict # "none"
        /\ UNCHANGED <<session, client, sent, stdin, stdout, stderr, open, batch>>
    BY <1>3, <2>1 DEF EndOfInput, UnchangedClient
  <2>3. proc # "killed"
    BY <2>2
  <2> QED BY <2>2, <2>3, SuiteProcessEnds
<1>4. CASE Kill
  <2>1. /\ proc' = "killed"
        /\ UNCHANGED <<session, client, sent, stdin, stdout, stderr, open, batch>>
    BY <1>4 DEF Kill, UnchangedClient
  <2> QED BY <2>1, SuiteProcessEnds
<1>5. CASE ClientStep
  <2>1. ~IdeWrites /\ ~IdeCloses /\ ~IdeReads /\ ~IdeGoes
    BY <1>1 DEF IdeWrites, IdeCloses, IdeReads, IdeGoes
  <2>2. Call \/ Receive => SuiteInv'
    BY SuiteCalls, SuiteReceives
  <2>3. StdoutClosed \/ DrainStderr => SuiteInv'
    BY SuiteCutOff, SuiteDrains
  <2>4. WaitForSceneTraces \/ WaitTimesOut => SuiteInv'
    BY SuiteHasTraces, SuiteGivesUp
  <2>5. Conclude => SuiteInv'
    BY SuiteConcludes
  <2> QED BY <1>5, <2>1, <2>2, <2>3, <2>4, <2>5 DEF ClientStep
<1>6. CASE UNCHANGED vars
  BY <1>6, SuiteProcessEnds DEF vars
<1> QED BY <1>2, <1>3, <1>4, <1>5, <1>6 DEF Next

\* The sessions there are: those of an IDE host, which gives no verdict, and
\* the suites'.
VerdictInv == HostInv /\ (session.driver # "ide" => SuiteInv)

LEMMA SessionsAre == session \in Sessions => session.driver = "ide" \/ SuiteSession
<1>1. ASSUME session \in { [sidecar |-> s, driver |-> "mutation-hook",
                            script |-> MutationHookScript(s, d), doc |-> d, host |-> h] :
                             s \in Sidecars, d \in Documents, h \in BOOLEAN }
      PROVE  SuiteSession
  <2>1. PICK s \in Sidecars, d \in Documents, h \in BOOLEAN :
          session = [sidecar |-> s, driver |-> "mutation-hook",
                     script |-> MutationHookScript(s, d), doc |-> d, host |-> h]
    BY <1>1
  <2>2. s \in {"kicad", "freecad"}
    BY DEF AllSidecars
  <2> QED BY <2>1, <2>2 DEF SuiteSession
<1>2. ASSUME session \in { [sidecar |-> s, driver |-> "roundtrip",
                            script |-> RoundtripScript(s, d), doc |-> d, host |-> h] :
                             s \in Sidecars, d \in Documents, h \in BOOLEAN }
      PROVE  SuiteSession
  <2>1. PICK s \in Sidecars, d \in Documents, h \in BOOLEAN :
          session = [sidecar |-> s, driver |-> "roundtrip",
                     script |-> RoundtripScript(s, d), doc |-> d, host |-> h]
    BY <1>2
  <2>2. s \in {"kicad", "freecad"}
    BY DEF AllSidecars
  <2> QED BY <2>1, <2>2 DEF SuiteSession
<1>3. session \in { [sidecar |-> s, driver |-> "ide", script |-> <<>>, doc |-> "none", host |-> h] :
                      s \in Sidecars, h \in BOOLEAN }
        => session.driver = "ide"
  OBVIOUS
<1> QED BY <1>1, <1>2, <1>3 DEF Sessions

LEMMA VerdictInit == Init => VerdictInv
<1> SUFFICES ASSUME Init
             PROVE  VerdictInv
  OBVIOUS
<1>1. /\ stdin = <<>> /\ stdout = <<>> /\ stderr = <<>> /\ sent = <<>>
      /\ open = FALSE /\ batch = NoBatch /\ proc = "running" /\ session.sidecar \in AllSidecars
      /\ client = [next |-> 1, pending |-> 0, replies |-> <<>>, traces |-> <<>>,
                   closed |-> FALSE, gone |-> FALSE, out |-> 0, err |-> 0,
                   verdict |-> "none"]
      /\ session.driver = "ide" \/ SuiteSession
  BY SessionsKnown, SessionsAre DEF Init
<1>2. <<>> \in Seq(Replies) /\ <<>> \in Seq(Traces) /\ <<>> \in Seq(Lines) /\ Len(<<>>) = 0
  OBVIOUS
<1>3. HostInv /\ client \in Clients
  BY <1>1, <1>2, IdeInit DEF HostInv, Clients
<1>4. ASSUME SuiteSession
      PROVE  Talking
  <2>1. client.next = 1 /\ client.pending = 0 /\ client.replies = <<>> /\ client.traces = <<>>
        /\ client.closed = FALSE
    BY <1>1
  <2>2. 1 \in 1 .. Len(session.script) + 1
    BY <1>4, ScriptKnown
  <2>3. BetweenSteps
    BY <1>1, <2>1 DEF BetweenSteps
  <2>4. RepliesGood
    BY <1>2, <2>1 DEF RepliesGood
  <2>5. TracesKnown
    <3>1. Written = <<>>
      BY <1>1, <2>1 DEF Written
    <3>2. Done = 0
      BY <2>1 DEF Done
    <3>3. TracedUpTo(0)
      <4>1. \A j \in 1 .. SuiteSize : ~(2 * j - 1 <= 0) /\ ~(2 * j <= 0)
        OBVIOUS
      <4> QED BY <1>2, <3>1, <4>1 DEF TracedUpTo, FirstUpserts
    <3> QED BY <2>1, <3>2, <3>3 DEF TracesKnown
  <2>6. OpenInTime
    BY <1>1, <2>1 DEF OpenInTime
  <2> QED BY <1>1, <1>2, <2>1, <2>2, <2>3, <2>4, <2>5, <2>6 DEF Talking
<1> QED BY <1>1, <1>2, <1>3, <1>4 DEF VerdictInv, SuiteInv

\* A wait that ran out of time had every trace written; an error that was
\* raised else was the refusal of the host's FreeCAD.
LEMMA VerdictsAreTrue == VerdictInv => NoFalseAlarm
<1> SUFFICES ASSUME VerdictInv
             PROVE  NoFalseAlarm
  OBVIOUS
<1>1. CASE session.driver = "ide"
  <2>1. client \in IdeClients
    BY <1>1 DEF VerdictInv, HostInv, IdeInv, Types
  <2> QED BY <2>1 DEF NoFalseAlarm, IdeClients
<1>2. CASE session.driver # "ide"
  <2>1. SuiteInv
    BY <1>2 DEF VerdictInv
  <2>2. ASSUME client.verdict = "raised", proc # "killed", RanOut
        PROVE  DrainedTooLate
    <3>1. session.sidecar = "kicad" /\ client.next = 4 /\ AllTraced /\ SuiteSession
      BY <2>1, <2>2 DEF SuiteInv, RanOut
    <3>2. Len(session.script) \in 3 .. 7 /\ Len(session.script) >= 4 /\ IsWait(session.script[4])
      BY <3>1, ScriptKnown
    <3>3. ~ScriptDone /\ IsWait(Step)
      BY <3>1, <3>2 DEF ScriptDone, Step
    <3>4. Written \in Seq(Traces)
      <4>1. client.traces \in Seq(Traces) /\ stderr \in Seq(Traces)
        BY <2>1 DEF SuiteInv, Clients
      <4> QED BY <4>1 DEF Written
    <3>5. /\ TraceCount(Written, "upsertNodes") = SuiteSize
          /\ TraceCount(Written, "upsertEdges") = SuiteSize
      BY <3>1, <3>4, WrittenCounted
    <3> QED BY <3>3, <3>5 DEF Written, IsWait, DrainedTooLate
  <2>3. ASSUME AtOpening
        PROVE  OpenRefused
    <3>1. SuiteSession /\ client.next = 2
      BY <2>1, <2>3 DEF SuiteInv, AtOpening
    <3>2. Len(session.script) \in 3 .. 7 /\ Asks(session.script[2], "open")
      BY <3>1, ScriptKnown
    <3>3. ~ScriptDone /\ Asks(Step, "open")
      BY <3>1, <3>2 DEF ScriptDone, Step
    <3> QED BY <2>3, <3>3 DEF OpenRefused, AtOpening, Asks
  <2> QED BY <2>1, <2>2, <2>3 DEF SuiteInv, NoFalseAlarm
<1> QED BY <1>1, <1>2

\* What the verdicts rest on: in every session of a suite, for any number of
\* mutations, what is in the two pipes and with the client is known from the
\* place in the script.
THEOREM VerdictInvariance == Spec => []VerdictInv
<1>1. VerdictInv /\ [Next]_vars => VerdictInv'
  <2> SUFFICES ASSUME VerdictInv, [Next]_vars
               PROVE  VerdictInv'
    OBVIOUS
  <2>1. session' = session
    BY SessionKept DEF VerdictInv, HostInv
  <2>2. HostInv'
    BY <2>1, IdeNext DEF VerdictInv, HostInv
  <2>3. session.driver # "ide" => SuiteInv'
    BY SuiteNext DEF VerdictInv
  <2> QED BY <2>1, <2>2, <2>3 DEF VerdictInv
<1> QED BY <1>1, VerdictInit, PTL DEF Spec

\* The regression suites, of any size, on the host's tools or without them,
\* raise no false alarm: no comparison of theirs fails unless an export of the
\* host's KiCad came to nothing, and nothing is raised unless the sidecar was
\* killed, the wait ran out of time with all its traces written, or the host's
\* FreeCAD was not there.
THEOREM SuitesRaiseNoFalseAlarm == Spec => []NoFalseAlarm
BY VerdictInvariance, VerdictsAreTrue, PTL

================================================================================
