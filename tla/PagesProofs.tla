---------------------------- MODULE PagesProofs ----------------------------
(***************************************************************************)
(* The printer's pages, for any devices, macros, spools, profiles, files   *)
(* and numbers, any number of taps, other clients and lost links.  Each    *)
(* page's property is about a moment when nothing is under way; its        *)
(* invariant says what that moment will be, from what is under way now:    *)
(* the last of the waiting messages, or requests, that has a say, or what  *)
(* the page has when none does.                                            *)
(*   Prompt    PromptInv   what is drawn when the lines that wait are      *)
(*   Power     PowerInv    the last reply that names a device              *)
(*   Macros    MacroInv    the last request that writes a macro            *)
(*   Spoolman  SpoolInv    the last word on the active spool               *)
(*   Feed      Fresh       the last report with a field, which State merges *)
(*   BedMesh   MeshInv, Controls ControlInv, PrintReadings ReadingInv rest *)
(*                         on it: what the page shows when all is handled  *)
(* Lists of messages of no one type are only known to be sequences (IsSeq). *)
(***************************************************************************)
EXTENDS Pages, TLAPS

\* What a page does is one of its own steps, or it does nothing.
LEMMA PageSteps ==
  ASSUME [PagesNext]_pagesVars
  PROVE  /\ C!Next \/ UNCHANGED cVars
         /\ B!Next \/ UNCHANGED bVars
         /\ S!Next \/ UNCHANGED sVars
         /\ P!Next \/ UNCHANGED pVars
         /\ M!Next \/ UNCHANGED mVars
         /\ Q!Next \/ UNCHANGED qVars
         /\ R!Next \/ UNCHANGED rVars
BY Zenon DEF PagesNext, pagesVars

\* Every page starts as its own specification says.
LEMMA PagesStart ==
  ASSUME PagesInit
  PROVE  C!Init /\ B!Init /\ S!Init /\ P!Init /\ M!Init /\ Q!Init /\ R!Init
BY DEF PagesInit

-----------------------------------------------------------------------------
(* Sequences of messages, whatever is in the messages.                      *)

IsSeq(s) == \E T : s \in Seq(T)

\* An element joins a sequence.
LEMMA SeqAppend ==
  ASSUME NEW s, IsSeq(s), NEW m
  PROVE  /\ IsSeq(Append(s, m)) /\ Len(s) \in Nat
         /\ Len(Append(s, m)) = Len(s) + 1 /\ Append(s, m)[Len(s) + 1] = m
         /\ \A i \in 1 .. Len(s) : Append(s, m)[i] = s[i]
<1>1. PICK T : s \in Seq(T)
  BY DEF IsSeq
<1>2. s \in Seq(T \cup {m})
  BY <1>1
<1>3. Append(s, m) \in Seq(T \cup {m})
  BY <1>2
<1> QED BY <1>2, <1>3 DEF IsSeq

\* The first element of a sequence leaves it.
LEMMA SeqTail ==
  ASSUME NEW s, IsSeq(s), s # <<>>
  PROVE  /\ IsSeq(Tail(s)) /\ Len(s) \in Nat \ {0}
         /\ Len(Tail(s)) = Len(s) - 1 /\ Head(s) = s[1]
         /\ \A i \in 1 .. Len(s) - 1 : Tail(s)[i] = s[i + 1]
<1>1. PICK T : s \in Seq(T)
  BY DEF IsSeq
<1> QED BY <1>1 DEF IsSeq

\* The sequence of no elements is the empty one.
LEMMA SeqNone ==
  ASSUME NEW s, IsSeq(s)
  PROVE  s = <<>> <=> Len(s) = 0
BY DEF IsSeq

\* No message is a sequence of messages.
LEMMA SeqEmpty == IsSeq(<< >>)
<1>1. << >> \in Seq({})
  OBVIOUS
<1> QED BY <1>1 DEF IsSeq

\* A sequence of one message.
LEMMA SeqSingle ==
  ASSUME NEW m
  PROVE  /\ IsSeq(Append(<<>>, m)) /\ Len(Append(<<>>, m)) = 1
         /\ Append(<<>>, m)[1] = m
<1>1. ASSUME NEW s, s = <<>>
      PROVE  IsSeq(Append(s, m)) /\ Len(Append(s, m)) = 1 /\ Append(s, m)[1] = m
  <2>1. IsSeq(s) /\ Len(s) = 0
    BY <1>1, SeqEmpty, SeqNone
  <2>2. /\ IsSeq(Append(s, m)) /\ Len(Append(s, m)) = Len(s) + 1
        /\ Append(s, m)[Len(s) + 1] = m
    BY <2>1, SeqAppend
  <2>3. Len(s) + 1 = 1
    BY <2>1
  <2> QED BY <2>2, <2>3
<1> QED BY <1>1

-----------------------------------------------------------------------------
(* Prompt.                                                                  *)

\* What the panel has drawn.
Dialog == [widgets |-> qWidgets, group |-> qGroup, shown |-> qShown]
Line == [action : {"begin", "end", "show", "button_group_end", "button_group_start",
                   "button", "text", "footer_button"}, prompt : Int, line : Int]

\* What it has drawn after one more line.
Added(d, m) ==
  IF m.action \in {"button_group_start", "text"} THEN {Q!Widget(m, Q!Body)}
  ELSE IF m.action = "button" THEN {Q!Widget(m, d.group)}
  ELSE IF m.action = "footer_button" THEN {Q!Widget(m, Q!Footer)} ELSE {}
Draw(d, m) ==
  [widgets |-> IF m.action \in {"begin", "end"} THEN {} ELSE d.widgets \cup Added(d, m),
   group |-> IF m.action \in {"begin", "end", "button_group_end"} THEN Q!Body
             ELSE IF m.action = "button_group_start" THEN m.line ELSE d.group,
   shown |-> IF m.action = "show" THEN TRUE ELSE IF m.action = "end" THEN FALSE ELSE d.shown]

\* d: from what is drawn now, line by line, through the lines that wait.
Drawing(d, now, lines) ==
  /\ d[1] = now
  /\ \A i \in 1 .. Len(lines) : d[i + 1] = Draw(d[i], lines[i])

\* The dialog is the one Klipper describes.
Meets(d, meant, grouping, stage) ==
  /\ d.widgets = meant /\ d.group = grouping
  /\ stage = "open" => d.shown
  /\ stage = "none" => ~d.shown

PromptTypes ==
  /\ qInbox \in Seq(Line) /\ qPrompt \in Int /\ qLine \in Int

\* Drawing what waits ends with the dialog Klipper describes.
PromptInv ==
  /\ PromptTypes
  /\ \E d : /\ Drawing(d, Dialog, qInbox)
            /\ qWhole => Meets(d[Len(qInbox) + 1], qMeant, qGrouping, qStage)

\* A line that is said is the last one the panel draws.
LEMMA DrawingAppend ==
  ASSUME NEW now, NEW lines \in Seq(Line), NEW m \in Line, NEW d, Drawing(d, now, lines)
  PROVE  \E e : /\ Drawing(e, now, Append(lines, m))
                /\ e[Len(Append(lines, m)) + 1] = Draw(d[Len(lines) + 1], m)
<1> DEFINE n == Len(lines)
           l == Append(lines, m)
           e == [i \in 1 .. n + 2 |-> IF i = n + 2 THEN Draw(d[n + 1], m) ELSE d[i]]
<1>1. /\ n \in Nat /\ Len(l) = n + 1 /\ l[n + 1] = m
      /\ \A i \in 1 .. n : l[i] = lines[i]
  OBVIOUS
<1>2. e[1] = now /\ e[n + 2] = Draw(d[n + 1], m)
  BY <1>1 DEF Drawing
<1>3. ASSUME NEW i \in 1 .. n + 1
      PROVE  e[i + 1] = Draw(e[i], l[i])
  <2>1. CASE i = n + 1
    BY <2>1, <1>1
  <2>2. CASE i \in 1 .. n
    <3>1. e[i + 1] = d[i + 1] /\ e[i] = d[i] /\ l[i] = lines[i]
      BY <2>2, <1>1
    <3> QED BY <2>2, <3>1 DEF Drawing
  <2> QED BY <2>1, <2>2, <1>1
<1> HIDE DEF e, l
<1> QED BY <1>1, <1>2, <1>3 DEF Drawing, l

\* Drawing the first line brings the panel one line nearer.
LEMMA DrawingTail ==
  ASSUME NEW now, NEW lines \in Seq(Line), lines # <<>>, NEW d, Drawing(d, now, lines)
  PROVE  \E e : /\ Drawing(e, Draw(now, Head(lines)), Tail(lines))
                /\ e[Len(Tail(lines)) + 1] = d[Len(lines) + 1]
<1> DEFINE n == Len(lines)
           l == Tail(lines)
           e == [i \in 1 .. n |-> d[i + 1]]
<1>1. /\ n \in Nat \ {0} /\ Len(l) = n - 1 /\ Head(lines) = lines[1]
      /\ \A i \in 1 .. n - 1 : l[i] = lines[i + 1]
  OBVIOUS
<1>2. e[n] = d[n + 1] /\ e[1] = Draw(now, Head(lines))
  BY <1>1 DEF Drawing
<1>3. \A i \in 1 .. n - 1 : e[i + 1] = Draw(e[i], l[i])
  BY <1>1 DEF Drawing
<1> HIDE DEF e, l
<1> QED BY <1>1, <1>2, <1>3 DEF Drawing, l

\* A line that is said: whoever draws it, if the line before met the dialog,
\* meets it again.
LEMMA SayKeeps ==
  ASSUME PromptInv, PromptTypes', NEW a,
         NEW m \in Line, m = [action |-> a, prompt |-> qPrompt', line |-> qLine'], Q!Say(a),
         \A d :
           (qWhole => Meets(d, qMeant, qGrouping, qStage)) /\ qWhole' =>
             Meets(Draw(d, m), qMeant', qGrouping', qStage')
  PROVE  PromptInv'
<1> USE DEF PromptInv
<1>1. PICK d : /\ Drawing(d, Dialog, qInbox)
               /\ qWhole => Meets(d[Len(qInbox) + 1], qMeant, qGrouping, qStage)
  OBVIOUS
<1>2. Dialog' = Dialog
  BY DEF Q!Say, Dialog
<1>3. CASE qLink
  <2>1. qInbox' = Append(qInbox, m) /\ qInbox \in Seq(Line)
    BY <1>3 DEF Q!Say, PromptTypes
  <2>2. PICK e : /\ Drawing(e, Dialog, qInbox')
                 /\ e[Len(qInbox') + 1] = Draw(d[Len(qInbox) + 1], m)
    BY <1>1, <2>1, DrawingAppend
  <2>3. qWhole' => Meets(e[Len(qInbox') + 1], qMeant', qGrouping', qStage')
    BY <1>1, <2>2
  <2> QED BY <1>2, <2>2, <2>3
<1>4. CASE ~qLink
  <2>1. qInbox' = qInbox /\ ~qWhole'
    BY <1>4 DEF Q!Say
  <2> QED BY <1>1, <1>2, <2>1
<1> QED BY <1>3, <1>4

\* The queue stays one of lines, and the panel has drawn a dialog.
LEMMA PromptTypesKept ==
  ASSUME PromptTypes, Q!Next
  PROVE  PromptTypes'
<1> USE DEF PromptTypes, Line
<1>1. ASSUME NEW a \in {"begin", "end", "show", "button_group_end", "button_group_start",
                   "button", "text", "footer_button"}, Q!Say(a), qPrompt' \in Int, qLine' \in Int
      PROVE  qInbox' \in Seq(Line)
  <2>1. [action |-> a, prompt |-> qPrompt', line |-> qLine'] \in Line
    BY <1>1
  <2> HIDE DEF Line
  <2>2. Append(qInbox, [action |-> a, prompt |-> qPrompt', line |-> qLine']) \in Seq(Line)
    BY <2>1
  <2> QED BY <1>1, <2>2 DEF Q!Say
<1>2. CASE Q!SayBegin
  BY <1>1, <1>2 DEF Q!SayBegin
<1>3. CASE Q!SayLine
  BY <1>1, <1>3 DEF Q!SayLine
<1>4. CASE Q!SayShow
  BY <1>1, <1>4 DEF Q!SayShow
<1>5. CASE Q!SayEnd
  BY <1>1, <1>5 DEF Q!SayEnd
<1>6. CASE Q!HandleMacroResponse
  BY <1>6 DEF Q!HandleMacroResponse
<1>7. CASE Q!LinkLost \/ Q!LinkBack
  BY <1>7 DEF Q!LinkLost, Q!LinkBack
<1> QED BY <1>2, <1>3, <1>4, <1>5, <1>6, <1>7 DEF Q!Next

\* Every step keeps what the panel will have drawn in the end equal to the dialog.
LEMMA PromptStep ==
  ASSUME PromptInv, Q!Next
  PROVE  PromptInv'
<1>1. PromptTypes /\ PromptTypes'
  BY PromptTypesKept DEF PromptInv
<1>2. CASE Q!SayBegin
  <2> DEFINE m == [action |-> "begin", prompt |-> qPrompt', line |-> qLine']
  <2>1. m \in Line
    BY <1>1 DEF PromptTypes, Line
  <2>2. \A d : Meets(Draw(d, m), qMeant', qGrouping', qStage')
    BY <1>2 DEF Q!SayBegin, Meets, Draw, Q!Body
  <2> QED BY <1>1, <1>2, <2>1, <2>2, SayKeeps DEF Q!SayBegin
<1>3. CASE Q!SayLine
  <2> DEFINE m(a) == [action |-> a, prompt |-> qPrompt', line |-> qLine']
  <2>1. /\ \A a \in {"text", "button", "footer_button", "button_group_start", "button_group_end"} :
             m(a) \in Line
        /\ qStage = "building" /\ qStage' = "building" /\ qPrompt' = qPrompt
    BY <1>1, <1>3 DEF PromptTypes, Line, Q!SayLine
  <2> DEFINE Meant(in) == qMeant' = qMeant \cup {[prompt |-> qPrompt, line |-> qLine', in |-> in]}
  <2>2. \/ Meant(Q!Body) /\ UNCHANGED qGrouping /\ Q!Say("text")
        \/ Meant(qGrouping) /\ UNCHANGED qGrouping /\ Q!Say("button")
        \/ Meant(Q!Footer) /\ UNCHANGED qGrouping /\ Q!Say("footer_button")
        \/ Meant(Q!Body) /\ qGrouping' = qLine' /\ Q!Say("button_group_start")
        \/ qGrouping' = Q!Body /\ UNCHANGED qMeant /\ Q!Say("button_group_end")
    BY <1>3 DEF Q!SayLine
  <2>3. ASSUME NEW a \in {"text", "button", "footer_button", "button_group_start", "button_group_end"},
               Q!Say(a),
               \A d : Meets(d, qMeant, qGrouping, qStage) =>
                        Meets(Draw(d, m(a)), qMeant', qGrouping', qStage')
        PROVE  PromptInv'
    <3>1. qWhole' => qWhole
      BY <2>3 DEF Q!Say
    <3> QED BY <1>1, <2>1, <2>3, <3>1, SayKeeps
  <2>4. CASE Meant(Q!Body) /\ UNCHANGED qGrouping /\ Q!Say("text")
    BY <2>1, <2>3, <2>4 DEF Meets, Draw, Added, Q!Widget
  <2>5. CASE Meant(qGrouping) /\ UNCHANGED qGrouping /\ Q!Say("button")
    BY <2>1, <2>3, <2>5 DEF Meets, Draw, Added, Q!Widget
  <2>6. CASE Meant(Q!Footer) /\ UNCHANGED qGrouping /\ Q!Say("footer_button")
    BY <2>1, <2>3, <2>6 DEF Meets, Draw, Added, Q!Widget
  <2>7. CASE Meant(Q!Body) /\ qGrouping' = qLine' /\ Q!Say("button_group_start")
    BY <2>1, <2>3, <2>7 DEF Meets, Draw, Added, Q!Widget
  <2>8. CASE qGrouping' = Q!Body /\ UNCHANGED qMeant /\ Q!Say("button_group_end")
    BY <2>1, <2>3, <2>8 DEF Meets, Draw, Added, Q!Widget
  <2> QED BY <2>2, <2>4, <2>5, <2>6, <2>7, <2>8
<1>4. CASE Q!SayShow
  <2> DEFINE m == [action |-> "show", prompt |-> qPrompt', line |-> qLine']
  <2>1. m \in Line /\ (qWhole' => qWhole)
    BY <1>1, <1>4 DEF PromptTypes, Line, Q!SayShow, Q!Say
  <2>2. \A d : Meets(d, qMeant, qGrouping, qStage) =>
                           Meets(Draw(d, m), qMeant', qGrouping', qStage')
    BY <1>4 DEF Q!SayShow, Meets, Draw, Added
  <2> QED BY <1>1, <1>4, <2>1, <2>2, SayKeeps DEF Q!SayShow
<1>5. CASE Q!SayEnd
  <2> DEFINE m == [action |-> "end", prompt |-> qPrompt', line |-> qLine']
  <2>1. m \in Line
    BY <1>1 DEF PromptTypes, Line
  <2>2. \A d : Meets(Draw(d, m), qMeant', qGrouping', qStage')
    BY <1>5 DEF Q!SayEnd, Meets, Draw, Q!Body
  <2> QED BY <1>1, <1>5, <2>1, <2>2, SayKeeps DEF Q!SayEnd
<1>6. CASE Q!HandleMacroResponse
  <2>1. PICK d : /\ Drawing(d, Dialog, qInbox)
                 /\ qWhole => Meets(d[Len(qInbox) + 1], qMeant, qGrouping, qStage)
    BY DEF PromptInv
  <2>2. /\ qInbox \in Seq(Line) /\ qInbox # <<>> /\ qInbox' = Tail(qInbox)
        /\ Head(qInbox) \in Line
        /\ UNCHANGED <<qMeant, qGrouping, qStage, qWhole>>
    BY <1>1, <1>6 DEF Q!HandleMacroResponse, PromptTypes
  <2>3. Dialog' = Draw(Dialog, Head(qInbox))
    BY <1>6, <2>2 DEF Q!HandleMacroResponse, Dialog, Draw, Added, Q!Clean, Q!Add
  <2>4. PICK e : /\ Drawing(e, Dialog', qInbox')
                 /\ e[Len(qInbox') + 1] = d[Len(qInbox) + 1]
    BY <2>1, <2>2, <2>3, DrawingTail
  <2> QED BY <1>1, <2>1, <2>2, <2>4 DEF PromptInv
<1>7. CASE Q!LinkLost \/ Q!LinkBack
  BY <1>1, <1>7 DEF Q!LinkLost, Q!LinkBack, PromptInv, Dialog
<1> QED BY <1>2, <1>3, <1>4, <1>5, <1>6, <1>7 DEF Q!Next

\* The panel draws, in the end, the dialog that Klipper describes, however
\* many prompts and lines there are and however often the link is lost.
THEOREM DialogRight == PagesSpec => []DialogIsPrompt
<1>1. PagesInit => PromptInv
  <2> SUFFICES ASSUME Q!Init PROVE PromptInv
    BY PagesStart
  <2>1. PromptTypes
    BY DEF Q!Init, PromptTypes
  <2> DEFINE e == [i \in {1} |-> Dialog]
  <2>2. Drawing(e, Dialog, qInbox) /\ Meets(e[Len(qInbox) + 1], qMeant, qGrouping, qStage)
    BY DEF Q!Init, Drawing, Meets, Dialog, Q!Body
  <2> QED BY <2>1, <2>2 DEF PromptInv
<1>2. PromptInv /\ [PagesNext]_pagesVars => PromptInv'
  <2> SUFFICES ASSUME PromptInv, Q!Next \/ UNCHANGED qVars PROVE PromptInv'
    BY PageSteps
  <2>1. CASE UNCHANGED qVars
    BY <2>1 DEF qVars, PromptInv, PromptTypes, Dialog
  <2> QED BY <2>1, PromptStep
<1>3. PromptInv => DialogIsPrompt
  <2> SUFFICES ASSUME PromptInv, qInbox = <<>>, qWhole PROVE Meets(Dialog, qMeant, qGrouping, qStage)
    BY DEF DialogIsPrompt, Q!DialogIsPrompt, Meets, Dialog
  <2> QED BY DEF PromptInv, Drawing
<1> QED BY <1>1, <1>2, <1>3, PTL DEF PagesSpec
-----------------------------------------------------------------------------
(* Power.                                                                   *)

\* A reply names devices and those of them that are on; the last of the replies
\* that name d agrees with dev, or no reply names d.
DeviceReplyKind == {"devices", "state", "error", "connected"}
DeviceReply == [kind : DeviceReplyKind, of : SUBSET Device, on : SUBSET Device]
LastSays(replies, d, dev) ==
  \E i \in 1 .. Len(replies) :
     /\ d \in replies[i].of /\ (d \in replies[i].on <=> d \in dev)
     /\ \A j \in i + 1 .. Len(replies) : d \notin replies[j].of
NoneNames(replies, d) == \A i \in 1 .. Len(replies) : d \notin replies[i].of

PowerTypes ==
  /\ pDevice \subseteq Device /\ pDevices \subseteq Device /\ pKnown \subseteq Device
  /\ \A r \in pWire : r.of \subseteq Device
  /\ pInbox \in Seq(DeviceReply)
  /\ \A i \in 1 .. Len(pInbox) :
       /\ pInbox[i].on \subseteq pInbox[i].of
       /\ pInbox[i].kind \notin {"devices", "state"} => pInbox[i].of = {}

\* The switch of a device whose state is known will be set right: a tap on it is
\* under way, or the last reply about it is right, or it is right already.
SetRight(d) ==
  \/ \E r \in pWire : r.op = "post" /\ d \in r.of
  \/ LastSays(pInbox, d, pDevice)
  \/ NoneNames(pInbox, d) /\ (d \in pDevices => (d \in pSwitch <=> d \in pDevice))

PowerInv == PowerTypes /\ \A d \in pKnown : SetRight(d)

\* A new reply has the last word on the devices it names, and on no other.
LEMMA RepliesAppend ==
  ASSUME NEW replies \in Seq(DeviceReply), NEW m \in DeviceReply, NEW d, NEW dev
  PROVE  /\ d \in m.of /\ (d \in m.on <=> d \in dev) => LastSays(Append(replies, m), d, dev)
         /\ d \notin m.of =>
              /\ LastSays(replies, d, dev) => LastSays(Append(replies, m), d, dev)
              /\ NoneNames(replies, d) => NoneNames(Append(replies, m), d)
<1> DEFINE n == Len(replies)
           l == Append(replies, m)
<1>1. /\ n \in Nat /\ Len(l) = n + 1 /\ l[n + 1] = m
      /\ \A i \in 1 .. n : l[i] = replies[i]
  OBVIOUS
<1> HIDE DEF l
<1>2. d \in m.of /\ (d \in m.on <=> d \in dev) => LastSays(l, d, dev)
  BY <1>1 DEF LastSays
<1>3. d \notin m.of /\ LastSays(replies, d, dev) => LastSays(l, d, dev)
  BY <1>1 DEF LastSays
<1>4. d \notin m.of /\ NoneNames(replies, d) => NoneNames(l, d)
  BY <1>1 DEF NoneNames
<1> QED BY <1>2, <1>3, <1>4 DEF l

\* The reply that leaves had the last word, or another that stays has.
LEMMA RepliesTail ==
  ASSUME NEW replies \in Seq(DeviceReply), replies # <<>>, NEW d, NEW dev
  PROVE  /\ LastSays(replies, d, dev) =>
              \/ LastSays(Tail(replies), d, dev)
              \/ /\ NoneNames(Tail(replies), d)
                 /\ d \in Head(replies).of /\ (d \in Head(replies).on <=> d \in dev)
         /\ NoneNames(replies, d) => NoneNames(Tail(replies), d) /\ d \notin Head(replies).of
<1> DEFINE n == Len(replies)
           l == Tail(replies)
<1>1. /\ n \in Nat \ {0} /\ Len(l) = n - 1 /\ Head(replies) = replies[1]
      /\ \A i \in 1 .. n - 1 : l[i] = replies[i + 1]
  OBVIOUS
<1>2. \A i \in 2 .. n : i - 1 \in 1 .. n - 1 /\ replies[i] = l[i - 1]
  BY <1>1
<1> HIDE DEF l
<1>3. ASSUME LastSays(replies, d, dev)
      PROVE  \/ LastSays(l, d, dev)
             \/ NoneNames(l, d) /\ d \in replies[1].of /\ (d \in replies[1].on <=> d \in dev)
  <2>1. PICK i \in 1 .. n : /\ d \in replies[i].of /\ (d \in replies[i].on <=> d \in dev)
                            /\ \A j \in i + 1 .. n : d \notin replies[j].of
    BY <1>3 DEF LastSays
  <2>2. CASE i = 1
    BY <1>1, <2>1, <2>2 DEF NoneNames
  <2>3. CASE i # 1
    <3>1. i - 1 \in 1 .. Len(l) /\ l[i - 1] = replies[i]
      BY <1>1, <1>2, <2>3
    <3>2. \A j \in (i - 1) + 1 .. Len(l) : d \notin l[j].of
      BY <1>1, <2>1
    <3> QED BY <2>1, <3>1, <3>2 DEF LastSays
  <2> QED BY <2>2, <2>3
<1>4. NoneNames(replies, d) => NoneNames(l, d) /\ d \notin replies[1].of
  BY <1>1 DEF NoneNames
<1> QED BY <1>1, <1>3, <1>4 DEF l

\* A reply about some of the devices joins the inbox.
LEMMA TellTypes ==
  ASSUME PowerTypes, NEW k \in DeviceReplyKind, NEW of \in SUBSET Device, NEW on \in SUBSET of,
         k \notin {"devices", "state"} => of = {}, P!Tell(k, of, on)
  PROVE  /\ [kind |-> k, of |-> of, on |-> on] \in DeviceReply
         /\ pInbox \in Seq(DeviceReply) /\ pInbox' = Append(pInbox, [kind |-> k, of |-> of, on |-> on])
         /\ pInbox' \in Seq(DeviceReply)
         /\ \A i \in 1 .. Len(pInbox') :
              /\ pInbox'[i].on \subseteq pInbox'[i].of
              /\ pInbox'[i].kind \notin {"devices", "state"} => pInbox'[i].of = {}
<1> DEFINE m == [kind |-> k, of |-> of, on |-> on]
<1>1. m \in DeviceReply /\ pInbox \in Seq(DeviceReply) /\ pInbox' = Append(pInbox, m)
  BY DEF DeviceReply, P!Tell, PowerTypes
<1>2. /\ m.on \subseteq m.of /\ (m.kind \notin {"devices", "state"} => m.of = {})
      /\ \A i \in 1 .. Len(pInbox) :
              /\ pInbox[i].on \subseteq pInbox[i].of
              /\ pInbox[i].kind \notin {"devices", "state"} => pInbox[i].of = {}
  BY DEF PowerTypes
<1> HIDE DEF m
<1>3. pInbox' \in Seq(DeviceReply)
  BY <1>1
<1>4. \A i \in 1 .. Len(pInbox') : (i \in 1 .. Len(pInbox) /\ pInbox'[i] = pInbox[i]) \/ pInbox'[i] = m
  BY <1>1
<1> QED BY <1>1, <1>2, <1>3, <1>4 DEF m

\* Moonraker handles a request: it switches a device, or not, and replies.
LEMMA PowerServe ==
  ASSUME PowerInv, NEW r \in pWire, P!Serve(r)
  PROVE  PowerInv'
<1>1. /\ PowerTypes /\ r.of \subseteq Device /\ pDevice \subseteq Device /\ pInbox \in Seq(DeviceReply)
      /\ pWire' = pWire \ {r} /\ UNCHANGED <<pDevices, pSwitch>>
  BY DEF PowerInv, PowerTypes, P!Serve
<1>2. ASSUME NEW k \in DeviceReplyKind, NEW of \in SUBSET Device, k \notin {"devices", "state"} => of = {},
             NEW on \in SUBSET of, \A d \in of : d \in on <=> d \in pDevice',
             P!Tell(k, of, on), pDevice' \in SUBSET Device,
             pKnown' \subseteq pKnown \cup of, r.op = "post" => pKnown' \cap r.of \subseteq of,
             \A d \in Device \ of : d \in pDevice' <=> d \in pDevice
      PROVE  PowerInv'
  <2> DEFINE m == [kind |-> k, of |-> of, on |-> on]
  <2>1. PowerTypes' /\ m \in DeviceReply /\ pInbox' = Append(pInbox, m)
    BY <1>1, <1>2, TellTypes DEF PowerTypes
  <2>2. ASSUME NEW d \in pKnown' PROVE SetRight(d)'
    <3>1. CASE d \in of
      <4>1. d \in m.of /\ (d \in m.on <=> d \in pDevice')
        BY <1>2, <3>1
      <4>2. LastSays(pInbox', d, pDevice')
        BY <1>1, <2>1, <4>1, RepliesAppend
      <4> QED BY <4>2 DEF SetRight
    <3>2. CASE d \notin of
      <4>1. d \in pKnown /\ SetRight(d) /\ d \notin m.of
        BY <1>2, <3>2 DEF PowerInv
      <4>2. CASE \E q \in pWire : q.op = "post" /\ d \in q.of
        BY <1>1, <1>2, <2>2, <3>2, <4>2 DEF SetRight
      <4>3. CASE LastSays(pInbox, d, pDevice)
        <5>1. LastSays(pInbox, d, pDevice')
          BY <1>1, <1>2, <3>2, <4>1, <4>3 DEF LastSays, PowerTypes
        <5>2. LastSays(pInbox', d, pDevice')
          BY <1>1, <2>1, <4>1, <5>1, RepliesAppend
        <5> QED BY <5>2 DEF SetRight
      <4>4. CASE NoneNames(pInbox, d) /\ (d \in pDevices => (d \in pSwitch <=> d \in pDevice))
        <5>1. NoneNames(pInbox', d)
          BY <1>1, <2>1, <4>1, <4>4, RepliesAppend
        <5> QED BY <1>1, <1>2, <3>2, <4>4, <5>1 DEF SetRight, PowerTypes
      <4> QED BY <4>1, <4>2, <4>3, <4>4 DEF SetRight
    <3> QED BY <3>1, <3>2
  <2> QED BY <2>1, <2>2 DEF PowerInv
<1>3. CASE /\ r.op = "devices" /\ P!Tell("devices", Device, pDevice)
           /\ pKnown' = Device /\ UNCHANGED pDevice
  <2>1. /\ "devices" \in DeviceReplyKind /\ Device \in SUBSET Device /\ pDevice \in SUBSET Device
        /\ pDevice' = pDevice /\ pKnown' \subseteq pKnown \cup Device /\ r.op # "post"
    BY <1>1, <1>3 DEF DeviceReplyKind
  <2> QED BY <1>2, <1>3, <2>1
<1>4. CASE /\ r.op = "status" /\ P!Tell("state", r.of, pDevice \cap r.of)
           /\ pKnown' = pKnown \cup r.of /\ UNCHANGED pDevice
  <2>1. /\ "state" \in DeviceReplyKind /\ r.of \in SUBSET Device /\ pDevice \cap r.of \in SUBSET r.of
        /\ pDevice' = pDevice /\ pDevice \in SUBSET Device /\ r.op # "post"
        /\ \A d \in r.of : d \in pDevice \cap r.of <=> d \in pDevice'
    BY <1>1, <1>4 DEF DeviceReplyKind
  <2> QED BY <1>2, <1>4, <2>1
<1>5. CASE /\ r.op = "post"
           /\ pDevice' = (IF r.on THEN pDevice \cup r.of ELSE pDevice \ r.of)
           /\ P!Tell("state", r.of, pDevice' \cap r.of) /\ pKnown' = pKnown \cup r.of
  <2>1. /\ "state" \in DeviceReplyKind /\ r.of \in SUBSET Device /\ pDevice' \cap r.of \in SUBSET r.of
        /\ pDevice' \in SUBSET Device
        /\ \A d \in r.of : d \in pDevice' \cap r.of <=> d \in pDevice'
        /\ \A d \in Device \ r.of : d \in pDevice' <=> d \in pDevice
    BY <1>1, <1>5 DEF DeviceReplyKind
  <2> QED BY <1>2, <1>5, <2>1
<1>6. CASE P!Tell("error", {}, {}) /\ pKnown' = pKnown \ r.of /\ UNCHANGED pDevice
  <2>1. /\ "error" \in DeviceReplyKind /\ {} \in SUBSET Device /\ {} \in SUBSET {}
        /\ pDevice' = pDevice /\ pDevice \in SUBSET Device
        /\ pKnown' \subseteq pKnown \cup {} /\ pKnown' \cap r.of \subseteq {}
    BY <1>1, <1>6 DEF DeviceReplyKind
  <2> QED BY <1>2, <1>6, <2>1
<1> QED BY <1>3, <1>4, <1>5, <1>6 DEF P!Serve

\* The panel handles a reply.
LEMMA PowerHandle ==
  ASSUME PowerInv, P!Handle
  PROVE  PowerInv'
<1> DEFINE m == Head(pInbox)
<1>1. /\ PowerTypes /\ pInbox \in Seq(DeviceReply) /\ pInbox # <<>> /\ pInbox' = Tail(pInbox)
      /\ UNCHANGED <<pDevice, pKnown>> /\ m \in DeviceReply /\ m = pInbox[1] /\ P!Take(m)
  BY DEF PowerInv, PowerTypes, P!Handle
<1>2. pWire \subseteq pWire' /\ \A r \in pWire' : r.of \subseteq Device
  BY <1>1 DEF P!Handle, P!Send, P!Ask, PowerTypes
<1>3. /\ m.of \subseteq Device /\ m.on \subseteq m.of
      /\ m.kind \notin {"devices", "state"} => m.of = {}
  BY <1>1 DEF PowerTypes, DeviceReply
<1> HIDE DEF m
<1>4. /\ pDevices' \subseteq Device
      /\ \A d \in m.of \cap pDevices' : d \in pSwitch' <=> d \in m.on
      /\ \A d \in pDevices' \ m.of : d \in pDevices /\ (d \in pSwitch' <=> d \in pSwitch)
  BY <1>1, <1>3 DEF P!Take, P!Shown, PowerTypes
<1>5. PowerTypes'
  BY <1>1, <1>2, <1>4 DEF PowerTypes
<1>6. ASSUME NEW d \in pKnown' PROVE SetRight(d)'
  <2>1. SetRight(d)
    BY <1>1, <1>6 DEF PowerInv
  <2>2. CASE \E r \in pWire : r.op = "post" /\ d \in r.of
    BY <1>2, <2>2 DEF SetRight
  <2>3. CASE LastSays(pInbox, d, pDevice)
    <3>1. \/ LastSays(pInbox', d, pDevice')
          \/ NoneNames(pInbox', d) /\ d \in m.of /\ (d \in m.on <=> d \in pDevice')
      BY <1>1, <2>3, RepliesTail DEF m
    <3> QED BY <1>4, <3>1 DEF SetRight
  <2>4. CASE NoneNames(pInbox, d) /\ (d \in pDevices => (d \in pSwitch <=> d \in pDevice))
    <3>1. NoneNames(pInbox', d) /\ d \notin m.of
      BY <1>1, <2>4, RepliesTail DEF m
    <3> QED BY <1>1, <1>4, <2>4, <3>1 DEF SetRight
  <2> QED BY <2>1, <2>2, <2>3, <2>4 DEF SetRight
<1> QED BY <1>5, <1>6 DEF PowerInv

\* Taps, other clients and the link.
LEMMA PowerRest ==
  ASSUME PowerInv, P!Open \/ (\E d \in Device : P!Toggle(d)) \/ P!Other \/ P!Relink
  PROVE  PowerInv'
<1>1. CASE P!Open
  BY <1>1 DEF P!Open, P!Send, P!Ask, PowerInv, PowerTypes, SetRight
<1>2. ASSUME NEW d \in Device, P!Toggle(d) PROVE PowerInv'
  <2>1. PowerTypes'
    BY <1>2 DEF P!Toggle, P!Send, P!Ask, PowerInv, PowerTypes
  <2>2. ASSUME NEW e \in pKnown' PROVE SetRight(e)'
    <3>1. e \in pKnown /\ SetRight(e) /\ UNCHANGED <<pDevice, pDevices, pInbox>> /\ pWire \subseteq pWire'
      BY <1>2, <2>2 DEF P!Toggle, P!Send, PowerInv
    <3>2. CASE e = d
      <4>1. pLink
        BY <1>2, <2>2, <3>2 DEF P!Toggle
      <4>2. P!Ask("post", {d}, d \in pSwitch') \in pWire'
        BY <1>2, <4>1 DEF P!Toggle, P!Send
      <4> QED BY <3>2, <4>2 DEF SetRight, P!Ask
    <3>3. CASE e # d
      <4>1. e \in pSwitch' <=> e \in pSwitch
        BY <1>2, <3>3 DEF P!Toggle
      <4> QED BY <3>1, <4>1 DEF SetRight
    <3> QED BY <3>2, <3>3
  <2> QED BY <2>1, <2>2 DEF PowerInv
<1>3. CASE P!Other
  <2>1. UNCHANGED <<pDevices, pSwitch, pInbox>>
    BY <1>3 DEF P!Other
  <2>2. ASSUME NEW d \in Device, pDevice' = IF d \in pDevice THEN pDevice \ {d} ELSE pDevice \cup {d},
               pKnown' = pKnown \ {d}, UNCHANGED pWire
        PROVE  PowerInv'
    <3>1. PowerTypes'
      BY <2>1, <2>2 DEF PowerInv, PowerTypes
    <3>2. ASSUME NEW e \in pKnown' PROVE SetRight(e)'
      <4>1. SetRight(e) /\ (e \in pDevice' <=> e \in pDevice)
        BY <2>2, <3>2 DEF PowerInv
      <4> QED BY <2>1, <2>2, <4>1 DEF SetRight, LastSays, NoneNames
    <3> QED BY <3>1, <3>2 DEF PowerInv
  <2>3. ASSUME pWire' = {}, pKnown' = {}, UNCHANGED pDevice PROVE PowerInv'
    BY <2>1, <2>3 DEF PowerInv, PowerTypes
  <2> QED BY <1>3, <2>2, <2>3 DEF P!Other
<1>4. CASE P!Relink
  <2> DEFINE m == [kind |-> "connected", of |-> {}, on |-> {}]
  <2>1. /\ PowerTypes /\ P!Tell("connected", {}, {}) /\ "connected" \in DeviceReplyKind
        /\ {} \in SUBSET Device /\ {} \in SUBSET {}
        /\ UNCHANGED <<pDevice, pDevices, pSwitch, pWire, pKnown>>
    BY <1>4 DEF P!Relink, PowerInv, DeviceReplyKind
  <2>4. /\ m \in DeviceReply /\ pInbox \in Seq(DeviceReply)
        /\ pInbox' = Append(pInbox, m) /\ pInbox' \in Seq(DeviceReply)
        /\ \A i \in 1 .. Len(pInbox') :
             /\ pInbox'[i].on \subseteq pInbox'[i].of
             /\ pInbox'[i].kind \notin {"devices", "state"} => pInbox'[i].of = {}
    BY <2>1, TellTypes
  <2>3. PowerTypes'
    BY <2>1, <2>4 DEF PowerTypes
  <2>2. ASSUME NEW d \in pKnown' PROVE SetRight(d)'
    <3>1. d \notin m.of /\ SetRight(d)
      BY <2>1, <2>2 DEF PowerInv
    <3> QED BY <2>1, <2>4, <3>1, RepliesAppend DEF SetRight
  <2> QED BY <2>2, <2>3 DEF PowerInv
<1> QED BY <1>1, <1>2, <1>3, <1>4

\* Whatever order the replies come in, and whatever is refused or lost: once
\* nothing is under way, the switches are where the devices are.
THEOREM SwitchesRight == PagesSpec => []SwitchFollows
<1>1. PagesInit => PowerInv
  <2> SUFFICES ASSUME P!Init PROVE PowerInv
    BY PagesStart
  <2> QED BY DEF P!Init, P!Ask, PowerInv, PowerTypes
<1>2. PowerInv /\ [PagesNext]_pagesVars => PowerInv'
  <2> SUFFICES ASSUME PowerInv, P!Next \/ UNCHANGED pVars PROVE PowerInv'
    BY PageSteps
  <2>1. CASE UNCHANGED pVars
    BY <2>1 DEF pVars, PowerInv, PowerTypes, SetRight
  <2> QED BY <2>1, PowerServe, PowerHandle, PowerRest DEF P!Next
<1>3. PowerInv => SwitchFollows
  BY DEF PowerInv, SetRight, LastSays, SwitchFollows, P!SwitchFollows
<1> QED BY <1>1, <1>2, <1>3, PTL DEF PagesSpec

-----------------------------------------------------------------------------
(* Macros.                                                                  *)

DbRequest == {M!Read} \cup [op : {"write"}, of : Macro, hide : BOOLEAN]
MacroReply == [kind : {"settings", "objects", "connected"}, hidden : SUBSET Macro]
Writes(r, m) == r.op = "write" /\ r.of = m

\* The last of the requests that write m hides it just if hid has it, or none
\* writes it.
LastWrites(requests, m, hid) ==
  \E i \in 1 .. Len(requests) :
     /\ Writes(requests[i], m) /\ (requests[i].hide <=> m \in hid)
     /\ \A j \in i + 1 .. Len(requests) : ~Writes(requests[j], m)
NoneWrites(requests, m) == \A i \in 1 .. Len(requests) : ~Writes(requests[i], m)

MacroTypes ==
  /\ mDb \subseteq Macro /\ UNION mSettings \subseteq Macro
  /\ mItems \subseteq Macro /\ mHidden \subseteq Macro
  /\ mWire \in Seq(DbRequest) /\ mInbox \in Seq(MacroReply)

\* The list shows what its hidden macros leave; and once it was made from what
\* the database had, a macro is hidden in the list just if the database hides
\* it, or will when it has carried out what was asked.
MacroInv ==
  /\ MacroTypes
  /\ mVisible = (IF mAlways THEN mItems ELSE mItems \ mHidden)
  /\ mAgreed => \A m \in Macro :
       \/ LastWrites(mWire, m, mHidden)
       \/ NoneWrites(mWire, m) /\ (m \in mHidden <=> m \in mDb)

\* A new request has the last word on the macros it writes.
LEMMA RequestsAppend ==
  ASSUME NEW requests \in Seq(DbRequest), NEW r \in DbRequest, NEW m, NEW hid
  PROVE  /\ Writes(r, m) /\ (r.hide <=> m \in hid) => LastWrites(Append(requests, r), m, hid)
         /\ ~Writes(r, m) =>
              /\ LastWrites(requests, m, hid) => LastWrites(Append(requests, r), m, hid)
              /\ NoneWrites(requests, m) => NoneWrites(Append(requests, r), m)
<1> DEFINE n == Len(requests)
           l == Append(requests, r)
<1>1. /\ n \in Nat /\ Len(l) = n + 1 /\ l[n + 1] = r
      /\ \A i \in 1 .. n : l[i] = requests[i]
  OBVIOUS
<1> HIDE DEF l
<1>2. Writes(r, m) /\ (r.hide <=> m \in hid) => LastWrites(l, m, hid)
  BY <1>1 DEF LastWrites
<1>3. ~Writes(r, m) /\ LastWrites(requests, m, hid) => LastWrites(l, m, hid)
  BY <1>1 DEF LastWrites
<1>4. ~Writes(r, m) /\ NoneWrites(requests, m) => NoneWrites(l, m)
  BY <1>1 DEF NoneWrites
<1> QED BY <1>2, <1>3, <1>4 DEF l

\* The request that leaves had the last word, or another that stays has.
LEMMA RequestsTail ==
  ASSUME NEW requests \in Seq(DbRequest), requests # <<>>, NEW m, NEW hid
  PROVE  /\ LastWrites(requests, m, hid) =>
              \/ LastWrites(Tail(requests), m, hid)
              \/ /\ NoneWrites(Tail(requests), m)
                 /\ Writes(Head(requests), m) /\ (Head(requests).hide <=> m \in hid)
         /\ NoneWrites(requests, m) => NoneWrites(Tail(requests), m) /\ ~Writes(Head(requests), m)
<1> DEFINE n == Len(requests)
           l == Tail(requests)
<1>1. /\ n \in Nat \ {0} /\ Len(l) = n - 1 /\ Head(requests) = requests[1]
      /\ \A i \in 1 .. n - 1 : l[i] = requests[i + 1]
  OBVIOUS
<1>2. \A i \in 2 .. n : i - 1 \in 1 .. n - 1 /\ requests[i] = l[i - 1]
  BY <1>1
<1> HIDE DEF l
<1>3. ASSUME LastWrites(requests, m, hid)
      PROVE  \/ LastWrites(l, m, hid)
             \/ NoneWrites(l, m) /\ Writes(requests[1], m) /\ (requests[1].hide <=> m \in hid)
  <2>1. PICK i \in 1 .. n : /\ Writes(requests[i], m) /\ (requests[i].hide <=> m \in hid)
                            /\ \A j \in i + 1 .. n : ~Writes(requests[j], m)
    BY <1>3 DEF LastWrites
  <2>2. CASE i = 1
    BY <1>1, <2>1, <2>2 DEF NoneWrites
  <2>3. CASE i # 1
    <3>1. i - 1 \in 1 .. Len(l) /\ l[i - 1] = requests[i]
      BY <1>1, <1>2, <2>3
    <3>2. \A j \in (i - 1) + 1 .. Len(l) : ~Writes(l[j], m)
      BY <1>1, <2>1
    <3> QED BY <2>1, <3>1, <3>2 DEF LastWrites
  <2> QED BY <2>2, <2>3
<1>4. NoneWrites(requests, m) => NoneWrites(l, m) /\ ~Writes(requests[1], m)
  BY <1>1 DEF NoneWrites
<1> QED BY <1>1, <1>3, <1>4 DEF l

\* The panel handles a reply.
LEMMA MacroHandle ==
  ASSUME MacroInv, M!Handle
  PROVE  MacroInv'
<1>1. /\ MacroTypes /\ mInbox \in Seq(MacroReply) /\ mWire \in Seq(DbRequest)
      /\ Head(mInbox) \in MacroReply /\ mInbox' = Tail(mInbox) /\ mInbox' \in Seq(MacroReply)
      /\ UNCHANGED mDb
  BY DEF MacroInv, MacroTypes, M!Handle
<1> DEFINE k == Head(mInbox)
<1>2. CASE k.kind = "settings" /\ mSettings' = {k.hidden} /\ UNCHANGED <<M!pageVars, mAgreed, mWire, mSubscribing>>
  <2>1. UNION mSettings' \subseteq Macro
    BY <1>1, <1>2 DEF MacroReply
  <2> QED BY <1>1, <1>2, <2>1 DEF MacroInv, MacroTypes, M!pageVars
<1>3. CASE k.kind = "objects" /\ M!Populate /\ UNCHANGED <<mWire, mSubscribing>>
  <2>1. MacroTypes' /\ mVisible' = (IF mAlways' THEN mItems' ELSE mItems' \ mHidden')
    BY <1>1, <1>3 DEF M!Populate, MacroTypes
  <2>2. mAgreed' => mHidden' = mDb' /\ \A i \in DOMAIN mWire : mWire[i].op = "read"
    BY <1>1, <1>3 DEF M!Populate
  <2>3. mAgreed' => \A m \in Macro : NoneWrites(mWire', m) /\ (m \in mHidden' <=> m \in mDb')
    BY <1>1, <1>3, <2>2 DEF NoneWrites, Writes
  <2> QED BY <2>1, <2>3 DEF MacroInv
<1>4. CASE /\ k.kind = "connected" /\ mSettings' = M!Unread
           /\ mWire' = IF mLink THEN Append(mWire, M!Read) ELSE mWire
           /\ mSubscribing' = mLink /\ UNCHANGED <<M!pageVars, mAgreed>>
  <2>1. M!Read \in DbRequest /\ \A m : ~Writes(M!Read, m)
    BY DEF M!Read, DbRequest, Writes
  <2>2. mWire' \in Seq(DbRequest) /\ UNION mSettings' \subseteq Macro
    BY <1>1, <1>4, <2>1 DEF M!Unread
  <2>3. ASSUME NEW m \in Macro
        PROVE  /\ LastWrites(mWire, m, mHidden) => LastWrites(mWire', m, mHidden)
               /\ NoneWrites(mWire, m) => NoneWrites(mWire', m)
    BY <1>1, <1>4, <2>1, RequestsAppend
  <2> QED BY <1>1, <1>4, <2>2, <2>3 DEF MacroInv, MacroTypes, M!pageVars
<1> QED BY <1>2, <1>3, <1>4 DEF M!Handle

\* A macro is hidden or shown.
LEMMA MacroHideShow ==
  ASSUME MacroInv, NEW m \in Macro, M!HideShow(m)
  PROVE  MacroInv'
<1>1. /\ MacroTypes /\ mInbox \in Seq(MacroReply) /\ mWire \in Seq(DbRequest)
      /\ m \in mItems
      /\ UNCHANGED <<mDb, mSettings, mItems, mInbox, mAlways>>
  BY DEF MacroInv, MacroTypes, M!HideShow, M!Tap
<1>2. mHidden' \subseteq Macro /\ \A n : n # m => (n \in mHidden' <=> n \in mHidden)
  BY <1>1 DEF M!HideShow, MacroTypes
<1>3. mVisible' = (IF mAlways' THEN mItems' ELSE mItems' \ mHidden')
  <2>1. mVisible' = IF m \in mHidden' /\ ~mAlways THEN mVisible \ {m} ELSE mVisible \cup {m}
    BY DEF M!HideShow
  <2>2. mVisible = (IF mAlways THEN mItems ELSE mItems \ mHidden)
    BY DEF MacroInv
  <2> QED BY <1>1, <1>2, <2>1, <2>2
<1> DEFINE r == M!Write(m, m \in mHidden')
<1>4. r \in DbRequest /\ Writes(r, m) /\ (r.hide <=> m \in mHidden') /\ \A n : n # m => ~Writes(r, n)
  <2> DEFINE h == m \in mHidden'
  <2>1. h \in BOOLEAN
    OBVIOUS
  <2>2. r.hide <=> h
    BY DEF M!Write
  <2> HIDE DEF h
  <2>3. M!Write(m, h) \in DbRequest
    BY <2>1 DEF M!Write, DbRequest
  <2>4. r.op = "write" /\ r.of = m
    BY DEF M!Write
  <2> HIDE DEF r
  <2>5. Writes(r, m) /\ \A n : n # m => ~Writes(r, n)
    BY <2>4 DEF Writes
  <2> QED BY <2>2, <2>3, <2>5 DEF h, r
<1>5. mWire' = (IF mLink THEN Append(mWire, r) ELSE mWire) /\ (mAgreed' => mAgreed /\ mLink)
  BY DEF M!HideShow
<1> HIDE DEF r
<1>6. MacroTypes'
  BY <1>1, <1>2, <1>4, <1>5 DEF MacroTypes
<1>7. ASSUME mAgreed', NEW n \in Macro
      PROVE  \/ LastWrites(mWire', n, mHidden')
             \/ NoneWrites(mWire', n) /\ (n \in mHidden' <=> n \in mDb')
  <2>1. mAgreed /\ mWire' = Append(mWire, r)
    BY <1>5, <1>7
  <2>2. CASE n = m
    BY <1>1, <1>4, <2>1, <2>2, RequestsAppend
  <2>3. CASE n # m
    <3>1. \/ LastWrites(mWire, n, mHidden)
          \/ NoneWrites(mWire, n) /\ (n \in mHidden <=> n \in mDb)
      BY <2>1 DEF MacroInv
    <3>2. LastWrites(mWire, n, mHidden) => LastWrites(mWire, n, mHidden')
      BY <1>2, <2>3 DEF LastWrites
    <3> QED BY <1>1, <1>2, <1>4, <2>1, <2>3, <3>1, <3>2, RequestsAppend
  <2> QED BY <2>2, <2>3
<1> QED BY <1>3, <1>6, <1>7 DEF MacroInv

\* The database carries a request out.
LEMMA MacroDatabase ==
  ASSUME MacroInv, M!Database
  PROVE  MacroInv'
<1> DEFINE r == Head(mWire)
<1>1. /\ MacroTypes /\ mInbox \in Seq(MacroReply) /\ mWire \in Seq(DbRequest) /\ mWire # <<>>
      /\ r \in DbRequest /\ mWire' = Tail(mWire) /\ mWire' \in Seq(DbRequest)
      /\ UNCHANGED <<mSettings, mItems, mHidden, mVisible, mAlways>>
  BY DEF MacroInv, MacroTypes, M!Database, M!pageVars
<1> HIDE DEF r
<1>2. mVisible' = (IF mAlways' THEN mItems' ELSE mItems' \ mHidden')
  BY <1>1 DEF MacroInv
<1>3. ASSUME mDb' \subseteq Macro, mInbox' \in Seq(MacroReply),
             mAgreed' => mAgreed /\ \A m \in Macro :
               m \in mDb' <=> IF Writes(r, m) THEN r.hide ELSE m \in mDb
      PROVE  MacroInv'
  <2>1. MacroTypes'
    BY <1>1, <1>3 DEF MacroTypes
  <2>2. ASSUME mAgreed', NEW m \in Macro
        PROVE  \/ LastWrites(mWire', m, mHidden')
               \/ NoneWrites(mWire', m) /\ (m \in mHidden' <=> m \in mDb')
    <3>1. \/ LastWrites(mWire, m, mHidden)
          \/ NoneWrites(mWire, m) /\ (m \in mHidden <=> m \in mDb)
      BY <1>3, <2>2 DEF MacroInv
    <3>2. CASE LastWrites(mWire, m, mHidden)
      <4>1. \/ LastWrites(mWire', m, mHidden)
            \/ NoneWrites(mWire', m) /\ Writes(r, m) /\ (r.hide <=> m \in mHidden)
        BY <1>1, <3>2, RequestsTail DEF r
      <4> QED BY <1>1, <1>3, <2>2, <4>1
    <3>3. CASE NoneWrites(mWire, m) /\ (m \in mHidden <=> m \in mDb)
      <4>1. NoneWrites(mWire', m) /\ ~Writes(r, m)
        BY <1>1, <3>3, RequestsTail DEF r
      <4> QED BY <1>1, <1>3, <2>2, <3>3, <4>1
    <3> QED BY <3>1, <3>2, <3>3
  <2> QED BY <1>2, <2>1, <2>2 DEF MacroInv
<1>4. CASE r.op = "read" /\ mInbox' = Append(mInbox, [kind |-> "settings", hidden |-> mDb]) /\ UNCHANGED <<mDb, mAgreed>>
  <2>1. [kind |-> "settings", hidden |-> mDb] \in MacroReply
    BY <1>1 DEF MacroReply, MacroTypes
  <2>2. mDb' \subseteq Macro /\ mInbox' \in Seq(MacroReply)
    BY <1>1, <1>4, <2>1 DEF MacroTypes
  <2>3. \A m : ~Writes(r, m)
    BY <1>4 DEF Writes
  <2> QED BY <1>3, <1>4, <2>2, <2>3
<1>5. CASE r.op = "write" /\ mDb' = (IF r.hide THEN mDb \cup {r.of} ELSE mDb \ {r.of}) /\ UNCHANGED <<mInbox, mAgreed>>
  <2>6. M!Read.op = "read"
    BY DEF M!Read
  <2>4. r # M!Read
    BY <1>5, <2>6
  <2>5. r \in [op : {"write"}, of : Macro, hide : BOOLEAN]
    BY <1>1, <2>4 DEF DbRequest
  <2>1. r.of \in Macro
    BY <2>5
  <2>2. mDb' \subseteq Macro /\ mInbox' \in Seq(MacroReply)
    BY <1>1, <1>5, <2>1 DEF MacroTypes
  <2>3. \A m : m \in mDb' <=> IF Writes(r, m) THEN r.hide ELSE m \in mDb
    BY <1>5 DEF Writes
  <2> QED BY <1>3, <1>5, <2>2, <2>3
<1>6. CASE ~mAgreed' /\ UNCHANGED <<mDb, mInbox>>
  BY <1>1, <1>3, <1>6 DEF MacroTypes
<1> QED BY <1>4, <1>5, <1>6 DEF M!Database, r

\* The switch, the list of the objects, other clients and the link.
LEMMA MacroRest ==
  ASSUME MacroInv, M!ShowHidden \/ M!Objects \/ M!Other \/ M!Relink
  PROVE  MacroInv'
<1> USE DEF MacroInv, MacroTypes
<1>1. /\ [kind |-> "objects", hidden |-> {}] \in MacroReply
      /\ [kind |-> "connected", hidden |-> {}] \in MacroReply
  BY DEF MacroReply
<1>2. CASE M!ShowHidden
  BY <1>2 DEF M!ShowHidden, M!Tap
<1>3. CASE M!Objects
  BY <1>1, <1>3 DEF M!Objects, M!pageVars
<1>4. CASE M!Other
  <2>1. UNCHANGED <<mVisible, mAlways, mItems, mHidden, mSettings, mInbox>> /\ ~mAgreed'
    BY <1>4 DEF M!Other, M!pageVars
  <2>3. mDb' \subseteq mDb \cup Macro /\ mWire' \in {mWire, <<>>}
    BY <1>4 DEF M!Other
  <2>4. mDb \subseteq Macro /\ mWire \in Seq(DbRequest)
    OBVIOUS
  <2>2. mDb' \subseteq Macro /\ mWire' \in Seq(DbRequest)
    <3> HIDE DEF MacroInv
    <3>1. <<>> \in Seq(DbRequest)
      OBVIOUS
    <3> QED BY <2>3, <2>4, <3>1
  <2> QED BY <2>1, <2>2
<1>5. CASE M!Relink
  BY <1>1, <1>5 DEF M!Relink, M!pageVars
<1> QED BY <1>2, <1>3, <1>4, <1>5

\* Whatever the user hides and shows: once nothing is under way, the list hides
\* what the database has as hidden, and nothing else.
THEOREM MacrosRight == PagesSpec => []MacrosAgree
<1>1. PagesInit => MacroInv
  <2> SUFFICES ASSUME M!Init PROVE MacroInv
    BY PagesStart
  <2>1. M!Read \in DbRequest /\ UNION M!Unread = {}
    BY DEF DbRequest, M!Unread
  <2> QED BY <2>1 DEF M!Init, MacroInv, MacroTypes
<1>2. MacroInv /\ [PagesNext]_pagesVars => MacroInv'
  <2> SUFFICES ASSUME MacroInv, M!Next \/ UNCHANGED mVars PROVE MacroInv'
    BY PageSteps
  <2>1. CASE UNCHANGED mVars
    BY <2>1 DEF mVars, MacroInv, MacroTypes
  <2> QED BY <2>1, MacroHandle, MacroHideShow, MacroDatabase, MacroRest DEF M!Next
<1>3. MacroInv => MacrosAgree
  <2> SUFFICES ASSUME MacroInv, mWire = <<>>, mAgreed
               PROVE  mHidden = mDb /\ mVisible = (IF mAlways THEN mItems ELSE mItems \ mDb)
    BY DEF MacrosAgree, M!MacrosAgree
  <2>1. \A m \in Macro : m \in mHidden <=> m \in mDb
    BY DEF MacroInv, LastWrites
  <2>2. mHidden = mDb
    BY <2>1 DEF MacroInv, MacroTypes
  <2> QED BY <2>2 DEF MacroInv
<1> QED BY <1>1, <1>2, <1>3, PTL DEF PagesSpec

-----------------------------------------------------------------------------
(* Spoolman.                                                                *)

\* The last word in messages about the active spool is act, or there is none.
LastActive(messages, act) ==
  \E i \in 1 .. Len(messages) :
     /\ messages[i].kind = "active" /\ messages[i].id = act
     /\ \A j \in i + 1 .. Len(messages) : messages[j].kind # "active"
NoneActive(messages) == \A i \in 1 .. Len(messages) : messages[i].kind # "active"
Reloads(messages) == \E i \in 1 .. Len(messages) : messages[i].kind \in {"connected", "patched"}

\* The rows are marked as the page has it, and there are none before the first
\* list, which names every spool.
TableInv ==
  /\ \A i \in DOMAIN sTable : sTable[i].six = "active" <=> sTable[i].id = sActiveId
  /\ DOMAIN sSpools \in {{}, Spool}
  /\ DOMAIN sSpools = {} => DOMAIN sTable = {}
  /\ \A i \in 1 .. Len(sInbox) :
       sInbox[i].kind = "list" /\ sInbox[i].ok => DOMAIN sInbox[i].spools = Spool

\* While the link is up, the page has the active spool, or will be told of it.
ActiveTold ==
  \/ Reloads(sInbox)
  \/ S!Ask("active", 0) \in sWire
  \/ LastActive(sInbox, sActive)
  \/ NoneActive(sInbox) /\ (sActive # 0 => sActiveId = sActive)

SpoolInv == IsSeq(sInbox) /\ TableInv /\ (sLink => ActiveTold)

\* A new message has the last word on the active spool, if it says anything of it.
LEMMA MessagesAppend ==
  ASSUME NEW messages, IsSeq(messages), NEW m, NEW act
  PROVE  /\ m.kind = "active" /\ m.id = act => LastActive(Append(messages, m), act)
         /\ m.kind \in {"connected", "patched"} => Reloads(Append(messages, m))
         /\ Reloads(messages) => Reloads(Append(messages, m))
         /\ m.kind # "active" =>
              /\ LastActive(messages, act) => LastActive(Append(messages, m), act)
              /\ NoneActive(messages) => NoneActive(Append(messages, m))
<1> DEFINE n == Len(messages)
           l == Append(messages, m)
<1>1. /\ n \in Nat /\ Len(l) = n + 1 /\ l[n + 1] = m
      /\ \A i \in 1 .. n : l[i] = messages[i]
  BY SeqAppend
<1> HIDE DEF l
<1>2. m.kind = "active" /\ m.id = act => LastActive(l, act)
  BY <1>1 DEF LastActive
<1>3. m.kind # "active" /\ LastActive(messages, act) => LastActive(l, act)
  BY <1>1 DEF LastActive
<1>4. m.kind # "active" /\ NoneActive(messages) => NoneActive(l)
  BY <1>1 DEF NoneActive
<1>5. m.kind \in {"connected", "patched"} \/ Reloads(messages) => Reloads(l)
  BY <1>1 DEF Reloads
<1> QED BY <1>2, <1>3, <1>4, <1>5 DEF l

\* The message that leaves had the last word, or another that stays has.
LEMMA MessagesTail ==
  ASSUME NEW messages, IsSeq(messages), messages # <<>>, NEW act
  PROVE  /\ LastActive(messages, act) =>
              \/ LastActive(Tail(messages), act)
              \/ NoneActive(Tail(messages)) /\ Head(messages).kind = "active" /\ Head(messages).id = act
         /\ NoneActive(messages) => NoneActive(Tail(messages)) /\ Head(messages).kind # "active"
         /\ Reloads(messages) => Reloads(Tail(messages)) \/ Head(messages).kind \in {"connected", "patched"}
<1> DEFINE n == Len(messages)
           l == Tail(messages)
<1>1. /\ n \in Nat \ {0} /\ Len(l) = n - 1 /\ Head(messages) = messages[1]
      /\ \A i \in 1 .. n - 1 : l[i] = messages[i + 1]
  BY SeqTail
<1>2. \A i \in 2 .. n : i - 1 \in 1 .. n - 1 /\ messages[i] = l[i - 1]
  BY <1>1
<1> HIDE DEF l
<1>3. ASSUME LastActive(messages, act)
      PROVE  \/ LastActive(l, act)
             \/ NoneActive(l) /\ messages[1].kind = "active" /\ messages[1].id = act
  <2>1. PICK i \in 1 .. n : /\ messages[i].kind = "active" /\ messages[i].id = act
                            /\ \A j \in i + 1 .. n : messages[j].kind # "active"
    BY <1>3 DEF LastActive
  <2>2. CASE i = 1
    BY <1>1, <2>1, <2>2 DEF NoneActive
  <2>3. CASE i # 1
    <3>1. i - 1 \in 1 .. Len(l) /\ l[i - 1] = messages[i]
      BY <1>1, <1>2, <2>3
    <3>2. \A j \in (i - 1) + 1 .. Len(l) : l[j].kind # "active"
      BY <1>1, <2>1
    <3> QED BY <2>1, <3>1, <3>2 DEF LastActive
  <2> QED BY <2>2, <2>3
<1>4. NoneActive(messages) => NoneActive(l) /\ messages[1].kind # "active"
  BY <1>1 DEF NoneActive
<1>5. Reloads(messages) => Reloads(l) \/ messages[1].kind \in {"connected", "patched"}
  BY <1>1, <1>2 DEF Reloads
<1> QED BY <1>1, <1>3, <1>4, <1>5 DEF l

\* A table that is filled marks the row of the active spool and no other; there
\* is nothing to fill while no spool is known.
LEMMA PopulateMarks ==
  ASSUME NEW order, NEW known, NEW act, NEW all, S!Populate(order, known, act, all)
  PROVE  /\ DOMAIN known = {} => sTable' = sTable
         /\ DOMAIN known # {} =>
              \A i \in DOMAIN sTable' : sTable'[i].six = "active" <=> sTable'[i].id = act
<1> DEFINE chosen == SelectSeq(order, LAMBDA s : all \/ ~known[s])
<1>1. sTable' = IF DOMAIN known = {} THEN sTable
                ELSE [i \in 1 .. Len(chosen) |-> S!Row(chosen[i], i, known, act)]
  BY DEF S!Populate
<1> HIDE DEF chosen
<1>2. \A id, i : /\ S!Row(id, i, known, act).id = id
                 /\ S!Row(id, i, known, act).six = "active" <=> id = act
  BY DEF S!Row
<1>3. CASE DOMAIN known # {}
  <2>1. sTable' = [i \in 1 .. Len(chosen) |-> S!Row(chosen[i], i, known, act)]
    BY <1>1, <1>3
  <2> QED BY <1>2, <1>3, <2>1
<1> QED BY <1>1, <1>3

\* The table is filled from what is known then.
LEMMA TableFilled ==
  ASSUME TableInv, NEW order, NEW known, NEW act, NEW all, S!Populate(order, known, act, all),
         sSpools' = known, sActiveId' = act, DOMAIN known \in {DOMAIN sSpools, Spool},
         \A i \in 1 .. Len(sInbox') :
           sInbox'[i].kind = "list" /\ sInbox'[i].ok => DOMAIN sInbox'[i].spools = Spool
  PROVE  TableInv'
<1>1. CASE DOMAIN known = {}
  <2>1. DOMAIN sTable = {}
    BY <1>1 DEF TableInv
  <2>2. sTable' = sTable
    BY <1>1, PopulateMarks
  <2> QED BY <1>1, <2>1, <2>2 DEF TableInv
<1>2. CASE DOMAIN known # {}
  <2>1. \A i \in DOMAIN sTable' : sTable'[i].six = "active" <=> sTable'[i].id = act
    BY <1>2, PopulateMarks
  <2> QED BY <1>2, <2>1 DEF TableInv
<1> QED BY <1>1, <1>2

\* The page handles a message.
LEMMA SpoolHandle ==
  ASSUME SpoolInv, S!Handle
  PROVE  SpoolInv'
<1> DEFINE m == Head(sInbox)
<1>1. /\ IsSeq(sInbox) /\ sInbox # <<>> /\ sInbox' = Tail(sInbox) /\ TableInv
      /\ UNCHANGED <<sActive, sLink>>
  BY DEF SpoolInv, S!Handle
<1>2. /\ IsSeq(sInbox') /\ m = sInbox[1] /\ 1 \in 1 .. Len(sInbox)
      /\ Len(sInbox') = Len(sInbox) - 1 /\ Len(sInbox) \in Nat \ {0}
      /\ \A i \in 1 .. Len(sInbox') : sInbox'[i] = sInbox[i + 1]
  BY <1>1, SeqTail
<1> HIDE DEF m
<1>3. \A i \in 1 .. Len(sInbox') :
        sInbox'[i].kind = "list" /\ sInbox'[i].ok => DOMAIN sInbox'[i].spools = Spool
  BY <1>1, <1>2 DEF TableInv
<1>4. ASSUME ActiveTold, sLink, m.kind \notin {"active", "connected", "patched"},
             UNCHANGED <<sActiveId, sWire>>
      PROVE  ActiveTold'
  BY <1>1, <1>4, MessagesTail DEF ActiveTold, m
<1>5. CASE m.kind = "list" /\ S!TakeList(m)
  <2>1. TableInv'
    <3>1. CASE m.ok
      <4>1. DOMAIN sSpools' = Spool /\ S!Populate(S!ById(DOMAIN m.spools), m.spools, sActiveId, sShow)
            /\ sSpools' = m.spools /\ UNCHANGED sActiveId
        BY <1>1, <1>2, <1>5, <3>1 DEF S!TakeList, TableInv
      <4>2. DOMAIN m.spools = Spool
        BY <4>1
      <4> QED BY <1>1, <1>3, <3>1, <4>1, <4>2, TableFilled
    <3>2. CASE ~m.ok
      BY <1>1, <1>3, <1>5, <3>2 DEF S!TakeList, TableInv
    <3> QED BY <3>1, <3>2
  <2>2. UNCHANGED <<sActiveId, sWire>>
    BY <1>5 DEF S!TakeList
  <2> QED BY <1>1, <1>2, <1>4, <1>5, <2>1, <2>2 DEF SpoolInv
<1>6. CASE m.kind = "active" /\ S!TakeActive(m)
  <2>1. UNCHANGED <<sSpools, sWire>>
    BY <1>6 DEF S!TakeActive
  <2>2. TableInv' /\ sActiveId' = IF m.id # 0 THEN m.id ELSE sActiveId
    <3>1. CASE m.id # 0
      <4>1. sActiveId' = m.id /\ S!Populate(S!ById(DOMAIN sSpools), sSpools, m.id, sShow)
        BY <1>6, <3>1 DEF S!TakeActive
      <4>2. sSpools' = sSpools /\ DOMAIN sSpools \in {DOMAIN sSpools, Spool}
        BY <2>1
      <4> QED BY <1>1, <1>3, <3>1, <4>1, <4>2, TableFilled
    <3>2. CASE m.id = 0
      BY <1>1, <1>3, <1>6, <2>1, <3>2 DEF S!TakeActive, TableInv
    <3> QED BY <3>1, <3>2
  <2>3. ASSUME ActiveTold PROVE ActiveTold'
    <3>1. CASE Reloads(sInbox)
      BY <1>1, <1>6, <3>1, MessagesTail DEF ActiveTold, m
    <3>2. CASE S!Ask("active", 0) \in sWire
      BY <2>1, <3>2 DEF ActiveTold, S!Ask
    <3>3. CASE LastActive(sInbox, sActive)
      <4>1. LastActive(sInbox', sActive) \/ (NoneActive(sInbox') /\ m.id = sActive)
        BY <1>1, <3>3, MessagesTail DEF m
      <4> QED BY <1>1, <2>2, <4>1 DEF ActiveTold
    <3>4. CASE NoneActive(sInbox)
      BY <1>1, <1>6, <3>4, MessagesTail DEF m
    <3> QED BY <2>3, <3>1, <3>2, <3>3, <3>4 DEF ActiveTold
  <2> QED BY <1>1, <1>2, <2>2, <2>3 DEF SpoolInv
<1>7. CASE m.kind \in {"connected", "patched"} /\ S!Send(S!Reload) /\ UNCHANGED S!pageVars
  <2>1. TableInv'
    BY <1>1, <1>3, <1>7 DEF TableInv, S!pageVars
  <2>2. sLink' => S!Ask("active", 0) \in sWire'
    BY <1>1, <1>7 DEF S!Send, S!Reload, S!Ask
  <2> QED BY <1>2, <2>1, <2>2 DEF SpoolInv, ActiveTold, S!Ask
<1> QED BY <1>5, <1>6, <1>7 DEF S!Handle, m

\* A message comes in, and the page is as it was.
LEMMA SpoolTell ==
  ASSUME SpoolInv, NEW m, sInbox' = Append(sInbox, m), UNCHANGED S!pageVars,
         m.kind = "list" /\ m.ok => DOMAIN m.spools = Spool,
         sLink' =>
           \/ m.kind = "active" /\ m.id = sActive'
           \/ m.kind \in {"connected", "patched"}
           \/ /\ sLink /\ m.kind # "active" /\ UNCHANGED sActive
              /\ S!Ask("active", 0) \in sWire => S!Ask("active", 0) \in sWire'
  PROVE  SpoolInv'
<1>1. IsSeq(sInbox) /\ TableInv
  BY DEF SpoolInv
<1>2. /\ IsSeq(sInbox') /\ Len(sInbox) \in Nat /\ Len(sInbox') = Len(sInbox) + 1
      /\ sInbox'[Len(sInbox) + 1] = m
      /\ \A i \in 1 .. Len(sInbox) : sInbox'[i] = sInbox[i]
  BY <1>1, SeqAppend
<1>3. \A i \in 1 .. Len(sInbox') :
        sInbox'[i].kind = "list" /\ sInbox'[i].ok => DOMAIN sInbox'[i].spools = Spool
  <2> TAKE i \in 1 .. Len(sInbox')
  <2>1. CASE i = Len(sInbox) + 1 BY <1>2, <2>1
  <2>2. CASE i \in 1 .. Len(sInbox) BY <1>1, <1>2, <2>2 DEF TableInv
  <2> QED BY <1>2, <2>1, <2>2
<1>4. TableInv'
  BY <1>1, <1>3 DEF TableInv, S!pageVars
<1>5. ASSUME sLink' PROVE ActiveTold'
  <2>1. CASE m.kind = "active" /\ m.id = sActive'
    BY <1>1, <2>1, MessagesAppend DEF ActiveTold
  <2>2. CASE m.kind \in {"connected", "patched"}
    BY <1>1, <2>2, MessagesAppend DEF ActiveTold
  <2>3. CASE /\ sLink /\ m.kind # "active" /\ UNCHANGED sActive
             /\ S!Ask("active", 0) \in sWire => S!Ask("active", 0) \in sWire'
    <3>1. ActiveTold
      BY <2>3 DEF SpoolInv
    <3>2. (S!Ask("active", 0) \in sWire)' <=> S!Ask("active", 0) \in sWire'
      BY DEF S!Ask
    <3>3. sActiveId' = sActiveId
      BY DEF S!pageVars
    <3> QED BY <1>1, <2>3, <3>1, <3>2, <3>3, MessagesAppend DEF ActiveTold
  <2> QED BY <1>5, <2>1, <2>2, <2>3
<1> QED BY <1>2, <1>4, <1>5 DEF SpoolInv

\* A tap asks for something or fills the table anew.
LEMMA SpoolTap ==
  ASSUME SpoolInv, S!Tap
  PROVE  SpoolInv'
<1>1. UNCHANGED <<sActive, sInbox, sLink>> /\ IsSeq(sInbox) /\ TableInv
  BY DEF S!Tap, SpoolInv
<1>2. sWire \subseteq sWire' /\ UNCHANGED <<sSpools, sActiveId>>
  BY DEF S!Tap, S!Send, S!pageVars
<1>3. \/ UNCHANGED sTable
      \/ \E order, all : S!Populate(order, sSpools, sActiveId, all)
  BY DEF S!Tap, S!pageVars
<1>4. TableInv'
  <2>1. \A i \in 1 .. Len(sInbox') :
          sInbox'[i].kind = "list" /\ sInbox'[i].ok => DOMAIN sInbox'[i].spools = Spool
    BY <1>1 DEF TableInv
  <2>2. CASE UNCHANGED sTable
    BY <1>1, <1>2, <2>2 DEF TableInv
  <2>3. CASE \E order, all : S!Populate(order, sSpools, sActiveId, all)
    BY <1>1, <1>2, <2>1, <2>3, TableFilled
  <2> QED BY <1>3, <2>2, <2>3
<1>5. ActiveTold => ActiveTold'
  BY <1>1, <1>2 DEF ActiveTold, S!Ask
<1> QED BY <1>1, <1>4, <1>5 DEF SpoolInv

\* Moonraker handles a request.
LEMMA SpoolServe ==
  ASSUME SpoolInv, NEW r \in sWire, S!Serve(r)
  PROVE  SpoolInv'
<1>1. UNCHANGED S!pageVars /\ sLink' = sLink /\ sWire' = sWire \ {r}
  BY DEF S!Serve
<1>2. r.op # "active" => (S!Ask("active", 0) \in sWire => S!Ask("active", 0) \in sWire')
  BY <1>1 DEF S!Ask
<1> USE DEF S!Tell, S!Msg, S!ActiveIs
<1>3. CASE /\ r.op = "list" /\ UNCHANGED <<sArchived, sActive, sOther>>
           /\ S!Tell([S!Msg("list") EXCEPT !.ok = TRUE, !.spools = [s \in Spool |-> s \in sArchived]])
  BY <1>1, <1>2, <1>3, SpoolTell
<1>4. CASE r.op = "active" /\ S!Tell(S!ActiveIs(sActive)) /\ UNCHANGED <<sArchived, sActive, sOther>>
  BY <1>1, <1>4, SpoolTell
<1>5. CASE r.op = "post" /\ sActive' = r.id /\ S!Tell(S!ActiveIs(r.id))
  BY <1>1, <1>5, SpoolTell
<1>6. CASE r.op \in {"archive", "unarchive"} /\ S!Tell(S!Msg("patched")) /\ UNCHANGED sActive
  BY <1>1, <1>6, SpoolTell
<1>7. CASE /\ r.op \notin {"active", "post"} /\ UNCHANGED <<sArchived, sActive>>
           /\ S!Tell(S!Msg(IF r.op = "list" THEN "list" ELSE "patched"))
  BY <1>1, <1>2, <1>7, SpoolTell
<1> QED BY <1>3, <1>4, <1>5, <1>6, <1>7 DEF S!Serve

\* Other clients and the link.
LEMMA SpoolRest ==
  ASSUME SpoolInv, S!Other \/ S!Relink
  PROVE  SpoolInv'
<1> USE DEF S!Tell, S!Msg, S!ActiveIs
<1>1. CASE S!Relink
  BY <1>1, SpoolTell DEF S!Relink
<1>2. CASE S!Other
  <2>1. UNCHANGED S!pageVars
    BY <1>2 DEF S!Other
  <2>2. CASE sLink /\ sInbox' = Append(sInbox, S!ActiveIs(sActive'))
    BY <2>1, <2>2, SpoolTell
  <2>3. CASE sInbox' = sInbox /\ (sLink' => sLink /\ UNCHANGED <<sActive, sWire>>)
    BY <2>1, <2>3 DEF SpoolInv, TableInv, ActiveTold, S!pageVars, S!Ask
  <2> QED BY <1>2, <2>2, <2>3 DEF S!Other
<1> QED BY <1>1, <1>2

\* In whatever order the replies come: once nothing is under way, the page has
\* the active spool Moonraker has and marks its row.
THEOREM ActiveRight == PagesSpec => []ActiveFollows
<1>1. PagesInit => SpoolInv
  <2> SUFFICES ASSUME S!Init PROVE SpoolInv
    BY PagesStart
  <2>1. TableInv
    BY DEF S!Init, TableInv
  <2> QED BY <2>1, SeqEmpty DEF S!Init, S!Reload, SpoolInv, ActiveTold
<1>2. SpoolInv /\ [PagesNext]_pagesVars => SpoolInv'
  <2> SUFFICES ASSUME SpoolInv, S!Next \/ UNCHANGED sVars PROVE SpoolInv'
    BY PageSteps
  <2>1. CASE UNCHANGED sVars
    BY <2>1 DEF sVars, SpoolInv, TableInv, ActiveTold, S!Ask
  <2> QED BY <2>1, SpoolHandle, SpoolTap, SpoolServe, SpoolRest DEF S!Next
<1>3. SpoolInv => ActiveFollows
  BY DEF SpoolInv, TableInv, ActiveTold, Reloads, LastActive, ActiveFollows, S!ActiveFollows, S!Settled
<1> QED BY <1>1, <1>2, <1>3, PTL DEF PagesSpec

-----------------------------------------------------------------------------
(* Feed: which report has the last word on a field.                         *)

IsReport(m) == m.kind \in {"subscription", "update"}
Has(m, f) == IsReport(m) /\ f \in DOMAIN m.data
LastHas(q, f, v) ==
  \E i \in 1 .. Len(q) : /\ Has(q[i], f) /\ q[i].data[f] = v
                         /\ \A j \in i + 1 .. Len(q) : ~Has(q[j], f)
NoneHas(q, f) == \A i \in 1 .. Len(q) : ~Has(q[i], f)
NoReport(q) == \A i \in 1 .. Len(q) : ~IsReport(q[i])

\* When what waits in q is handled, State will have v for the field f.
Fresh(q, st, f, v) ==
  LastHas(q, f, v) \/ (NoneHas(q, f) /\ f \in DOMAIN st /\ st[f] = v)

\* A new report has the last word on the fields it carries.
LEMMA ReportsAppend ==
  ASSUME NEW q, IsSeq(q), NEW m, NEW f, NEW v
  PROVE  /\ Has(m, f) /\ m.data[f] = v => LastHas(Append(q, m), f, v)
         /\ ~Has(m, f) /\ LastHas(q, f, v) => LastHas(Append(q, m), f, v)
         /\ ~Has(m, f) /\ NoneHas(q, f) => NoneHas(Append(q, m), f)
         /\ NoReport(Append(q, m)) <=> NoReport(q) /\ ~IsReport(m)
<1> DEFINE n == Len(q)
           l == Append(q, m)
<1>1. /\ n \in Nat /\ Len(l) = n + 1 /\ l[n + 1] = m
      /\ \A i \in 1 .. n : l[i] = q[i]
  BY SeqAppend
<1> HIDE DEF l
<1>2. Has(m, f) /\ m.data[f] = v => LastHas(l, f, v)
  BY <1>1 DEF LastHas
<1>3. ~Has(m, f) /\ LastHas(q, f, v) => LastHas(l, f, v)
  BY <1>1 DEF LastHas
<1>4. ~Has(m, f) /\ NoneHas(q, f) => NoneHas(l, f)
  BY <1>1 DEF NoneHas
<1>5. NoReport(l) <=> NoReport(q) /\ ~IsReport(m)
  <2>1. NoReport(l) => NoReport(q) /\ ~IsReport(m)
    BY <1>1 DEF NoReport
  <2>2. NoReport(q) /\ ~IsReport(m) => NoReport(l)
    BY <1>1 DEF NoReport
  <2> QED BY <2>1, <2>2
<1> QED BY <1>2, <1>3, <1>4, <1>5 DEF l

\* The report that leaves had the last word, or another that stays has.
LEMMA ReportsTail ==
  ASSUME NEW q, IsSeq(q), q # <<>>, NEW f, NEW v
  PROVE  /\ LastHas(q, f, v) =>
              \/ LastHas(Tail(q), f, v)
              \/ NoneHas(Tail(q), f) /\ Has(Head(q), f) /\ Head(q).data[f] = v
         /\ NoneHas(q, f) => NoneHas(Tail(q), f) /\ ~Has(Head(q), f)
         /\ NoReport(q) <=> NoReport(Tail(q)) /\ ~IsReport(Head(q))
<1> DEFINE n == Len(q)
           l == Tail(q)
<1>1. /\ n \in Nat \ {0} /\ Len(l) = n - 1 /\ Head(q) = q[1]
      /\ \A i \in 1 .. n - 1 : l[i] = q[i + 1]
  BY SeqTail
<1>2. \A i \in 2 .. n : i - 1 \in 1 .. n - 1 /\ q[i] = l[i - 1]
  BY <1>1
<1> HIDE DEF l
<1>3. ASSUME LastHas(q, f, v)
      PROVE  \/ LastHas(l, f, v)
             \/ NoneHas(l, f) /\ Has(q[1], f) /\ q[1].data[f] = v
  <2>1. PICK i \in 1 .. n : /\ Has(q[i], f) /\ q[i].data[f] = v
                            /\ \A j \in i + 1 .. n : ~Has(q[j], f)
    BY <1>3 DEF LastHas
  <2>2. CASE i = 1
    BY <1>1, <2>1, <2>2 DEF NoneHas
  <2>3. CASE i # 1
    <3>1. i - 1 \in 1 .. Len(l) /\ l[i - 1] = q[i]
      BY <1>1, <1>2, <2>3
    <3>2. \A j \in (i - 1) + 1 .. Len(l) : ~Has(l[j], f)
      BY <1>1, <2>1
    <3> QED BY <2>1, <3>1, <3>2 DEF LastHas
  <2> QED BY <2>2, <2>3
<1>4. NoneHas(q, f) => NoneHas(l, f) /\ ~Has(q[1], f)
  BY <1>1 DEF NoneHas
<1>5. NoReport(q) => NoReport(l) /\ ~IsReport(q[1])
  BY <1>1 DEF NoReport
<1>6. NoReport(l) /\ ~IsReport(q[1]) => NoReport(q)
  BY <1>1, <1>2 DEF NoReport
<1> QED BY <1>1, <1>3, <1>4, <1>5, <1>6 DEF l

\* A subscription's reply has every field; an update has those that changed.
LEMMA FreshReport ==
  ASSUME NEW q, IsSeq(q), NEW st, NEW m, IsReport(m), NEW f, NEW v, NEW old,
         \/ f \in DOMAIN m.data /\ m.data[f] = v
         \/ f \notin DOMAIN m.data /\ Fresh(q, st, f, old) /\ old = v
  PROVE  Fresh(Append(q, m), st, f, v)
BY ReportsAppend DEF Fresh, Has

\* A message that is no report leaves what State will have.
LEMMA FreshAnyway ==
  ASSUME NEW q, IsSeq(q), NEW st, NEW m, ~IsReport(m), NEW f, NEW v, Fresh(q, st, f, v)
  PROVE  Fresh(Append(q, m), st, f, v)
BY ReportsAppend DEF Fresh, Has

\* State takes the next message.
LEMMA FreshTail ==
  ASSUME NEW q, IsSeq(q), q # <<>>, NEW st, NEW new, NEW f, NEW v, Fresh(q, st, f, v),
         Has(Head(q), f) => f \in DOMAIN new /\ new[f] = Head(q).data[f],
         ~Has(Head(q), f) /\ f \in DOMAIN st => f \in DOMAIN new /\ new[f] = st[f]
  PROVE  Fresh(Tail(q), new, f, v)
BY ReportsTail DEF Fresh

\* With no report waiting, State has it already.
LEMMA FreshNow ==
  ASSUME NEW q, NEW st, NEW f, NEW v, Fresh(q, st, f, v), NoReport(q)
  PROVE  f \in DOMAIN st /\ st[f] = v
BY DEF Fresh, NoReport, LastHas, Has

\* A report laid over what is known wins on its own fields, and on no others.
LEMMA OverFields ==
  ASSUME NEW report, NEW old
  PROVE  /\ DOMAIN B!Over(report, old) = DOMAIN report \cup DOMAIN old
         /\ \A f \in DOMAIN report : B!Over(report, old)[f] = report[f]
         /\ \A f \in DOMAIN old \ DOMAIN report : B!Over(report, old)[f] = old[f]
BY DEF B!Over

-----------------------------------------------------------------------------
(* Bed mesh.                                                                *)

MeshOps == {"clear", "calibrate", "load", "remove", "save"}

\* What the page shows is the mesh t.
MeshIs(t) ==
  /\ bActive = t.name
  /\ bSave = (t.name # NoProfile) /\ bMeshShown = bSave
  /\ bMeshShown => bMesh = t.matrix
  /\ t.profiles \subseteq bRows

MeshTypes ==
  /\ IsSeq(bInbox) /\ IsSeq(bWire)
  /\ DOMAIN bPrinter = {"name", "matrix", "profiles"}
  /\ \A i \in 1 .. Len(bInbox) :
       bInbox[i].kind \in {"objects", "subscription", "update"}
       /\ (bInbox[i].kind = "objects" => DOMAIN bInbox[i].data = {})
  /\ \A i \in 1 .. Len(bWire) : bWire[i].op \in MeshOps

\* While the printer reports, State will know what was reported, more profiles
\* than that perhaps; and when all of it is handled, so does the page, unless
\* the last report had no name.
MeshTold ==
  /\ Fresh(bInbox, bState, "name", bTold.name)
  /\ Fresh(bInbox, bState, "matrix", bTold.matrix)
  /\ \/ LastHas(bInbox, "profiles", bTold.profiles)
     \/ /\ NoneHas(bInbox, "profiles")
        /\ "profiles" \in DOMAIN bState /\ bTold.profiles \subseteq bState["profiles"]
  /\ NoReport(bInbox) /\ bWhole => MeshIs(bTold)

MeshInv == MeshTypes /\ (bStage = "up" => MeshTold)

\* State's merge of a report: what is in it, else what was known; of profiles
\* also those that were known.
LEMMA MergedFields ==
  ASSUME NEW bm
  PROVE  /\ DOMAIN B!Merged(bm) = DOMAIN bm \cup DOMAIN bState
         /\ \A f \in DOMAIN bm : /\ f # "profiles" => B!Merged(bm)[f] = bm[f]
                                 /\ f = "profiles" => bm[f] \subseteq B!Merged(bm)[f]
         /\ \A f \in DOMAIN bState \ DOMAIN bm : B!Merged(bm)[f] = bState[f]
<1>1. CASE {"profiles"} \subseteq DOMAIN bm \cap DOMAIN bState
  <2> DEFINE all == [bm EXCEPT !["profiles"] = @ \cup bState["profiles"]]
  <2>1. /\ DOMAIN all = DOMAIN bm /\ all["profiles"] = bm["profiles"] \cup bState["profiles"]
        /\ \A f \in DOMAIN bm : f # "profiles" => all[f] = bm[f]
    BY <1>1
  <2>2. B!Merged(bm) = B!Over(all, bState)
    BY <1>1 DEF B!Merged
  <2> HIDE DEF all
  <2>3. /\ DOMAIN B!Over(all, bState) = DOMAIN all \cup DOMAIN bState
        /\ \A f \in DOMAIN all : B!Over(all, bState)[f] = all[f]
        /\ \A f \in DOMAIN bState \ DOMAIN all : B!Over(all, bState)[f] = bState[f]
    BY OverFields
  <2>4. DOMAIN B!Merged(bm) = DOMAIN bm \cup DOMAIN bState
    BY <2>1, <2>2, <2>3
  <2>5. \A f \in DOMAIN bState \ DOMAIN bm : B!Merged(bm)[f] = bState[f]
    BY <2>1, <2>2, <2>3
  <2>6. \A f \in DOMAIN bm : f # "profiles" => B!Merged(bm)[f] = bm[f]
    BY <2>1, <2>2, <2>3
  <2>7. bm["profiles"] \subseteq B!Merged(bm)["profiles"]
    BY <1>1, <2>1, <2>2, <2>3
  <2> QED BY <2>4, <2>5, <2>6, <2>7
<1>2. CASE ~({"profiles"} \subseteq DOMAIN bm \cap DOMAIN bState)
  <2>1. B!Merged(bm) = B!Over(bm, bState)
    BY <1>2 DEF B!Merged
  <2>2. /\ DOMAIN B!Over(bm, bState) = DOMAIN bm \cup DOMAIN bState
        /\ \A f \in DOMAIN bm : B!Over(bm, bState)[f] = bm[f]
        /\ \A f \in DOMAIN bState \ DOMAIN bm : B!Over(bm, bState)[f] = bState[f]
    BY OverFields
  <2>3. DOMAIN B!Merged(bm) = DOMAIN bm \cup DOMAIN bState
    BY <2>1, <2>2
  <2>4. \A f \in DOMAIN bState \ DOMAIN bm : B!Merged(bm)[f] = bState[f]
    BY <2>1, <2>2
  <2>5. \A f \in DOMAIN bm : B!Merged(bm)[f] = bm[f]
    BY <2>1, <2>2
  <2> QED BY <2>3, <2>4, <2>5
<1> QED BY <1>1, <1>2

\* The page takes the next message, after State.
LEMMA MeshHandle ==
  ASSUME MeshInv, B!Handle
  PROVE  MeshInv'
<1> DEFINE m == Head(bInbox)
           q == Tail(bInbox)
<1>1. /\ IsSeq(bInbox) /\ bInbox # <<>> /\ bInbox' = q /\ bState' = B!Merged(m.data)
      /\ UNCHANGED <<bPrinter, bTold, bWire>> /\ (bStage' = "up" => bStage = "up")
  BY DEF B!Handle, B!Receive, MeshInv, MeshTypes
<1>2. /\ IsSeq(q) /\ m = bInbox[1] /\ Len(bInbox) \in Nat \ {0} /\ Len(q) = Len(bInbox) - 1
      /\ \A i \in 1 .. Len(bInbox) - 1 : q[i] = bInbox[i + 1]
  BY <1>1, SeqTail
<1>3. /\ m.kind \in {"objects", "subscription", "update"}
      /\ m.kind = "objects" => DOMAIN m.data = {} /\ ~IsReport(m)
      /\ m.kind # "objects" => IsReport(m)
  BY <1>2 DEF MeshInv, MeshTypes, IsReport
<1>4. MeshTypes'
  BY <1>1, <1>2 DEF MeshInv, MeshTypes
<1>5. /\ DOMAIN bState' = DOMAIN m.data \cup DOMAIN bState
      /\ \A f \in DOMAIN m.data : /\ f # "profiles" => bState'[f] = m.data[f]
                                  /\ f = "profiles" => m.data[f] \subseteq bState'[f]
      /\ \A f \in DOMAIN bState \ DOMAIN m.data : bState'[f] = bState[f]
  BY <1>1, MergedFields
<1> HIDE DEF m, q
<1>6. SUFFICES ASSUME bStage = "up" PROVE MeshTold'
  BY <1>1, <1>4 DEF MeshInv
<1>7. \A f : Has(m, f) => f \in DOMAIN m.data
  BY DEF Has
<1>8. \A f : ~Has(m, f) => f \notin DOMAIN m.data
  BY <1>3 DEF Has
<1>9. ASSUME NEW f \in {"name", "matrix"}, Fresh(bInbox, bState, f, bTold[f])
      PROVE  Fresh(q, bState', f, bTold[f])
  <2>1. Has(m, f) => f \in DOMAIN bState' /\ bState'[f] = m.data[f]
    BY <1>5, <1>7
  <2>2. ~Has(m, f) /\ f \in DOMAIN bState => f \in DOMAIN bState' /\ bState'[f] = bState[f]
    BY <1>5, <1>8
  <2> QED BY <1>1, <1>9, <2>1, <2>2, FreshTail DEF m, q
<1>10. /\ Fresh(q, bState', "name", bTold.name)
       /\ Fresh(q, bState', "matrix", bTold.matrix)
  BY <1>6, <1>9 DEF MeshInv, MeshTold
<1>11. /\ LastHas(bInbox, "profiles", bTold.profiles) =>
            \/ LastHas(q, "profiles", bTold.profiles)
            \/ /\ NoneHas(q, "profiles") /\ Has(m, "profiles")
               /\ m.data["profiles"] = bTold.profiles
       /\ NoneHas(bInbox, "profiles") => NoneHas(q, "profiles") /\ ~Has(m, "profiles")
       /\ NoReport(bInbox) <=> NoReport(q) /\ ~IsReport(m)
  BY <1>1, ReportsTail DEF m, q
<1>12. \/ LastHas(q, "profiles", bTold.profiles)
       \/ /\ NoneHas(q, "profiles")
          /\ "profiles" \in DOMAIN bState' /\ bTold.profiles \subseteq bState'["profiles"]
          /\ Has(m, "profiles") => m.data["profiles"] = bTold.profiles
  BY <1>5, <1>6, <1>7, <1>8, <1>11 DEF MeshInv, MeshTold
<1>13. ASSUME NoReport(q), bWhole' PROVE MeshIs(bTold)'
  <2>1. CASE m.kind = "objects"
    <3>1. MeshIs(bTold)
      BY <1>3, <1>6, <1>11, <1>13, <2>1 DEF B!Handle, MeshInv, MeshTold, m
    <3> QED BY <1>1, <2>1, <3>1 DEF B!Handle, MeshIs, m
  <2>2. CASE m.kind # "objects"
    <3>1. B!Refresh(m.data, bState')
      BY <2>2 DEF B!Handle, m
    <3>2. "name" \in DOMAIN m.data
      BY <1>13, <3>1 DEF B!Refresh
    <3>3. /\ bState'["name"] = bTold.name /\ bState'["matrix"] = bTold.matrix
      BY <1>10, <1>13, FreshNow
    <3>4. m.data["name"] = bTold.name
      BY <1>5, <3>2, <3>3
    <3>5. B!From(m.data, bState', "matrix") = bTold.matrix
      BY <1>5, <3>3 DEF B!From
    <3>6. bTold.profiles \subseteq B!From(m.data, bState', "profiles")
      BY <1>3, <1>12, <1>13, <2>2 DEF B!From, NoReport, LastHas, Has
    <3>7. /\ bActive' = bTold.name /\ bSave' = (bTold.name # NoProfile) /\ bMeshShown' = bSave'
          /\ bSave' => bMesh' = bTold.matrix
          /\ bTold.profiles \subseteq bRows'
      BY <3>1, <3>2, <3>4, <3>5, <3>6 DEF B!Refresh
    <3> QED BY <1>1, <3>7 DEF MeshIs
  <2> QED BY <2>1, <2>2
<1> QED BY <1>1, <1>10, <1>12, <1>13 DEF MeshTold

\* The page comes to the front.
LEMMA MeshForeground ==
  ASSUME MeshInv, B!Foreground
  PROVE  MeshInv'
<1>1. /\ UNCHANGED <<bPrinter, bTold, bState, bStage, bInbox, bWire>> /\ B!Refresh(bState, bState)
  BY DEF B!Foreground, B!feedVars
<1>2. MeshTypes'
  BY <1>1 DEF MeshInv, MeshTypes
<1>3. ASSUME MeshTold, NoReport(bInbox), bWhole' PROVE MeshIs(bTold)'
  <2>1. "name" \in DOMAIN bState
    BY <1>1, <1>3 DEF B!Refresh
  <2>2. /\ bState["name"] = bTold.name /\ "matrix" \in DOMAIN bState /\ bState["matrix"] = bTold.matrix
    BY <1>3, FreshNow DEF MeshTold
  <2>3. "profiles" \in DOMAIN bState /\ bTold.profiles \subseteq bState["profiles"]
    BY <1>3 DEF MeshTold, NoReport, LastHas, Has
  <2>4. /\ bActive' = bTold.name /\ bSave' = (bTold.name # NoProfile) /\ bMeshShown' = bSave'
        /\ bSave' => bMesh' = bTold.matrix
        /\ bTold.profiles \subseteq bRows'
    BY <1>1, <2>1, <2>2, <2>3 DEF B!Refresh, B!From
  <2> QED BY <1>1, <2>4 DEF MeshIs
<1>4. MeshTold => MeshTold'
  BY <1>1, <1>3 DEF MeshTold
<1> QED BY <1>1, <1>2, <1>4 DEF MeshInv

\* Taps only send scripts.
LEMMA MeshTap ==
  ASSUME MeshInv, B!Tap
  PROVE  MeshInv'
<1>1. /\ UNCHANGED <<bPrinter, bTold, bState, bStage, bInbox, bActive, bMesh, bMeshShown, bSave, bRows, bWhole>>
      /\ \/ bWire' = bWire
         \/ \E op \in MeshOps : \E p :
              bWire' = Append(bWire, [op |-> op, of |-> p])
  BY DEF B!Tap, B!Script, B!feedVars, MeshOps
<1>2. IsSeq(bWire') /\ \A i \in 1 .. Len(bWire') : bWire'[i].op \in MeshOps
  <2>1. CASE bWire' = bWire
    BY <2>1 DEF MeshInv, MeshTypes
  <2>2. ASSUME NEW op \in MeshOps, NEW p, bWire' = Append(bWire, [op |-> op, of |-> p])
        PROVE  IsSeq(bWire') /\ \A i \in 1 .. Len(bWire') : bWire'[i].op \in MeshOps
    <3> DEFINE r == [op |-> op, of |-> p]
    <3>1. r.op \in MeshOps /\ bWire' = Append(bWire, r)
      BY <2>2
    <3> HIDE DEF r
    <3> QED BY <3>1, SeqAppend DEF MeshInv, MeshTypes
  <2> QED BY <1>1, <2>1, <2>2
<1> QED BY <1>1, <1>2 DEF MeshInv, MeshTypes, MeshTold, MeshIs

\* A script runs.
LEMMA MeshRun ==
  ASSUME MeshInv, B!Run
  PROVE  MeshInv'
<1>1. /\ UNCHANGED <<bTold, bState, bInbox, bActive, bMesh, bMeshShown, bSave, bRows, bWhole>>
      /\ bStage' = "up" => bStage = "up"
      /\ bPrinter' \in B!Effect(Head(bWire))
      /\ bWire # <<>> /\ bWire' \in {<<>>, Tail(bWire)}
  BY DEF B!Run, B!pageVars
<1>2. /\ Head(bWire) = bWire[1] /\ 1 \in 1 .. Len(bWire)
      /\ IsSeq(bWire') /\ \A i \in 1 .. Len(bWire') : bWire'[i].op \in MeshOps
  <2>1. IsSeq(bWire) /\ \A i \in 1 .. Len(bWire) : bWire[i].op \in MeshOps
    BY DEF MeshInv, MeshTypes
  <2>2. /\ Len(bWire) \in Nat \ {0} /\ Head(bWire) = bWire[1] /\ IsSeq(Tail(bWire))
        /\ Len(Tail(bWire)) = Len(bWire) - 1
        /\ \A i \in 1 .. Len(bWire) - 1 : Tail(bWire)[i] = bWire[i + 1]
    BY <1>1, <2>1, SeqTail
  <2>3. CASE bWire' = Tail(bWire)
    BY <2>1, <2>2, <2>3
  <2>4. CASE bWire' = <<>>
    BY <2>2, <2>4, SeqEmpty
  <2> QED BY <1>1, <2>2, <2>3, <2>4
<1>3. Head(bWire).op \in MeshOps
  BY <1>2 DEF MeshInv, MeshTypes
<1>4. DOMAIN bPrinter' = {"name", "matrix", "profiles"}
  BY <1>1, <1>3 DEF B!Effect, B!NoMesh, MeshOps, MeshInv, MeshTypes
<1> QED BY <1>1, <1>2, <1>4 DEF MeshInv, MeshTypes, MeshTold, MeshIs

\* Messages are sent, and the link is lost and comes back.
LEMMA MeshLink ==
  ASSUME MeshInv, B!Link \/ B!Elsewhere
  PROVE  MeshInv'
<1>1. UNCHANGED <<bActive, bMesh, bMeshShown, bSave, bRows, bWhole>>
  BY DEF B!Link, B!Elsewhere, B!pageVars
<1>2. IsSeq(bWire') /\ \A i \in 1 .. Len(bWire') : bWire'[i].op \in MeshOps
  BY SeqEmpty DEF B!Link, B!Elsewhere, MeshInv, MeshTypes
<1>3. CASE B!Elsewhere
  <2>1. UNCHANGED <<bTold, bState, bStage, bInbox>> /\ bPrinter' \in Meshes
    BY <1>3 DEF B!Elsewhere, B!Change
  <2> QED BY <1>1, <1>2, <2>1 DEF Meshes, MeshInv, MeshTypes, MeshTold, MeshIs
<1>4. CASE B!Drop
  BY <1>1, <1>2, <1>4 DEF B!Drop, MeshInv, MeshTypes, MeshTold, MeshIs
<1>5. CASE B!Connect
  BY <1>2, <1>5 DEF B!Connect, MeshInv, MeshTypes
<1>6. CASE B!AnswerList
  <2>1. IsSeq(bInbox')
    <3>1. bInbox' = Append(<< >>, [kind |-> "objects", data |-> B!Unknown])
      BY <1>6 DEF B!AnswerList
    <3> QED BY <3>1, SeqAppend, SeqEmpty
  <2> QED BY <1>2, <1>6, <2>1 DEF B!AnswerList, B!Unknown, MeshInv, MeshTypes
<1>7. ASSUME NEW r, UNCHANGED <<bPrinter, bState>>, bTold' = bPrinter,
             r.kind \in {"subscription", "update"}, bInbox' = Append(bInbox, r),
             \A f \in DOMAIN r.data : r.data[f] = bPrinter[f],
             \/ DOMAIN bPrinter \subseteq DOMAIN r.data
             \/ bStage = "up" /\ \A f \in DOMAIN bPrinter \ DOMAIN r.data : bTold[f] = bPrinter[f]
      PROVE  MeshInv'
  <2>1. MeshTypes'
    BY <1>2, <1>7, SeqAppend DEF MeshInv, MeshTypes
  <2>2. IsReport(r) /\ IsSeq(bInbox) /\ DOMAIN bPrinter = {"name", "matrix", "profiles"}
    BY <1>7 DEF IsReport, MeshInv, MeshTypes
  <2>3. ASSUME NEW f \in {"name", "matrix"} PROVE Fresh(Append(bInbox, r), bState, f, bPrinter[f])
    <3>1. \/ f \in DOMAIN r.data /\ r.data[f] = bPrinter[f]
          \/ f \notin DOMAIN r.data /\ Fresh(bInbox, bState, f, bTold[f]) /\ bTold[f] = bPrinter[f]
      BY <1>7, <2>2 DEF MeshInv, MeshTold
    <3> QED BY <2>2, <3>1, FreshReport
  <2>4. CASE "profiles" \in DOMAIN r.data
    <3>1. LastHas(Append(bInbox, r), "profiles", bPrinter["profiles"])
      BY <1>7, <2>2, <2>4, ReportsAppend DEF Has
    <3> QED BY <1>7, <2>1, <2>2, <2>3, <3>1, ReportsAppend DEF MeshInv, MeshTold
  <2>5. CASE "profiles" \notin DOMAIN r.data
    <3>1. /\ bTold["profiles"] = bPrinter["profiles"]
          /\ \/ LastHas(bInbox, "profiles", bTold["profiles"])
             \/ /\ NoneHas(bInbox, "profiles")
                /\ "profiles" \in DOMAIN bState /\ bTold.profiles \subseteq bState["profiles"]
      BY <1>7, <2>2, <2>5 DEF MeshInv, MeshTold
    <3>2. ~Has(r, "profiles")
      BY <2>5 DEF Has
    <3>3. \/ LastHas(Append(bInbox, r), "profiles", bPrinter["profiles"])
          \/ /\ NoneHas(Append(bInbox, r), "profiles")
             /\ "profiles" \in DOMAIN bState /\ bPrinter["profiles"] \subseteq bState["profiles"]
      BY <2>2, <3>1, <3>2, ReportsAppend
    <3> QED BY <1>7, <2>1, <2>2, <2>3, <3>3, ReportsAppend DEF MeshInv, MeshTold
  <2> QED BY <2>4, <2>5
<1>8. CASE B!AnswerSubscribe
  <2> DEFINE r == [kind |-> "subscription", data |-> bPrinter]
  <2>1. /\ UNCHANGED <<bPrinter, bState>> /\ bTold' = bPrinter /\ bInbox' = Append(bInbox, r)
        /\ r.kind \in {"subscription", "update"} /\ r.data = bPrinter
    BY <1>8 DEF B!AnswerSubscribe
  <2> HIDE DEF r
  <2> QED BY <1>7, <2>1
<1>9. CASE B!SendUpdate
  <2> DEFINE r == [kind |-> "update", data |-> [f \in B!Changed |-> bPrinter[f]]]
  <2>1. /\ UNCHANGED <<bPrinter, bState>> /\ bTold' = bPrinter /\ bInbox' = Append(bInbox, r)
        /\ r.kind \in {"subscription", "update"} /\ bStage = "up"
        /\ DOMAIN r.data = B!Changed /\ \A f \in DOMAIN r.data : r.data[f] = bPrinter[f]
    BY <1>9 DEF B!SendUpdate
  <2> HIDE DEF r
  <2>2. \A f \in DOMAIN bPrinter \ DOMAIN r.data : bTold[f] = bPrinter[f]
    BY <2>1 DEF B!Changed, MeshInv, MeshTypes
  <2> QED BY <1>7, <2>1, <2>2
<1> QED BY <1>3, <1>4, <1>5, <1>6, <1>8, <1>9 DEF B!Link, B!Network

\* State fills up what an update leaves out: once nothing is under way, a page
\* whose last report had a name shows the printer's active mesh.
THEOREM MeshRight == PagesSpec => []ProfileFollows
<1>1. PagesInit => MeshInv
  <2> SUFFICES ASSUME B!Init PROVE MeshInv
    BY PagesStart
  <2>1. DOMAIN bPrinter = {"name", "matrix", "profiles"}
    BY DEF B!Init, B!FeedInit, Meshes
  <2> QED BY <2>1, SeqEmpty DEF B!Init, B!FeedInit, MeshInv, MeshTypes
<1>2. MeshInv /\ [PagesNext]_pagesVars => MeshInv'
  <2> SUFFICES ASSUME MeshInv, B!Next \/ UNCHANGED bVars PROVE MeshInv'
    BY PageSteps
  <2>1. CASE UNCHANGED bVars
    BY <2>1 DEF bVars, MeshInv, MeshTypes, MeshTold, MeshIs
  <2> QED BY <2>1, MeshHandle, MeshForeground, MeshTap, MeshRun, MeshLink DEF B!Next
<1>3. MeshInv => ProfileFollows
  BY DEF MeshInv, MeshTold, MeshIs, NoReport, ProfileFollows, B!ProfileFollows, B!Settled
<1> QED BY <1>1, <1>2, <1>3, PTL DEF PagesSpec

-----------------------------------------------------------------------------
(* Controls.                                                                *)

\* The number a page of kind k shows for v.
Number(k, v) == IF k \in C!Fraction THEN C!Percent(v) ELSE v

\* Where the scripts w take the printer from p.
Target(w, p) == IF w = <<>> THEN p ELSE w[Len(w)].by

\* A page of kind k that shows s, with nothing left to handle, agrees with the
\* number t last reported: at once or, a slider, when the scripts w have made
\* the printer's number of p.
Agrees(k, s, t, p, w) ==
  /\ k \in C!OnOff /\ t = Target(w, p) => s \in {t, C!Percent(t)}
  /\ k = "limits" /\ p = t /\ s # t => \E i \in 1 .. Len(w) : w[i].by # t
  /\ k \notin C!OnOff \cup {"limits"} => s = Number(k, t)

ControlTypes ==
  /\ IsSeq(cInbox) /\ IsSeq(cWire)
  /\ {cPrinter, cTold} \subseteq C!Numbers /\ cShown \in C!Value /\ cKind \in C!Kind
  /\ "value" \in DOMAIN cState => cState["value"] \in C!Value
  /\ \A i \in 1 .. Len(cInbox) :
       /\ cInbox[i].kind \in {"objects", "subscription", "update"}
       /\ cInbox[i].kind = "objects" => DOMAIN cInbox[i].data = {}
       /\ cInbox[i].kind # "objects" =>
            DOMAIN cInbox[i].data = {"value"} /\ cInbox[i].data["value"] \in C!Value
  /\ cDrag => cKind \in C!Slider
  /\ cKind \in C!Slider =>
       \A i \in 1 .. Len(cWire) : ~cWire[i].adds /\ cWire[i].by \in C!Value

\* State is empty until the subscription's reply, which comes first.
ControlOrder ==
  /\ cStage \in {"list", "subscribe"} => cInbox = <<>>
  /\ cStage = "listed" => Len(cInbox) = 1 /\ cInbox[1].kind = "objects"
  /\ cStage \in {"list", "listed", "subscribe"} => "value" \notin DOMAIN cState
  /\ \A i \in 1 .. Len(cInbox) :
       cInbox[i].kind = "subscription" => i = 1 /\ "value" \notin DOMAIN cState
  /\ cSynced => "value" \in DOMAIN cState

ControlTold ==
  /\ Fresh(cInbox, cState, "value", cTold["value"])
  /\ cSynced /\ ~cDrag /\ NoReport(cInbox) =>
       Agrees(cKind, cShown, cTold["value"], cPrinter["value"], cWire)

ControlInv == ControlTypes /\ ControlOrder /\ (cStage = "up" => ControlTold)

\* A page that shows the number last reported agrees with it.
LEMMA ToldAgrees ==
  ASSUME NEW k, NEW t, NEW p, NEW w
  PROVE  Agrees(k, Number(k, t), t, p, w)
BY DEF Agrees, Number, C!OnOff, C!Fraction, C!FineTune, C!Percent

\* No page shows a number that is none.
LEMMA NumbersShown ==
  ASSUME NEW v \in C!Value
  PROVE  C!Shows(v) \in C!Value /\ C!Shows(v) = Number(cKind, v)
BY NumbersAssumption DEF C!Shows, C!Value, C!Percent, Number

\* The page takes the next message, after State.
LEMMA ControlHandle ==
  ASSUME ControlInv, C!Handle
  PROVE  ControlInv'
<1> DEFINE m == Head(cInbox)
           q == Tail(cInbox)
<1>1. /\ IsSeq(cInbox) /\ cInbox # <<>> /\ cInbox' = q /\ cState' = C!Over(m.data, cState)
      /\ UNCHANGED <<cPrinter, cTold, cOther, cKind, cFront, cWire>>
      /\ cStage' = IF m.kind = "objects" /\ cStage = "listed" THEN "subscribe" ELSE cStage
  BY DEF C!Handle, C!Receive, C!Take, ControlInv, ControlTypes
<1>2. /\ IsSeq(q) /\ m = cInbox[1] /\ Len(cInbox) \in Nat \ {0} /\ Len(q) = Len(cInbox) - 1
      /\ \A i \in 1 .. Len(cInbox) - 1 : q[i] = cInbox[i + 1]
  BY <1>1, SeqTail
<1>3. /\ m.kind \in {"objects", "subscription", "update"}
      /\ m.kind = "objects" => DOMAIN m.data = {} /\ ~IsReport(m)
      /\ m.kind # "objects" =>
           IsReport(m) /\ DOMAIN m.data = {"value"} /\ m.data["value"] \in C!Value
  BY <1>2 DEF ControlInv, ControlTypes, IsReport
<1>4. /\ DOMAIN cState' = DOMAIN m.data \cup DOMAIN cState
      /\ \A f \in DOMAIN m.data : cState'[f] = m.data[f]
      /\ \A f \in DOMAIN cState \ DOMAIN m.data : cState'[f] = cState[f]
  BY <1>1 DEF C!Over
<1>5. \/ m.kind = "objects" /\ cShown' = 0 /\ ~cDrag' /\ ~cSynced'
      \/ m.kind # "objects" /\ cShown' = C!Shows(m.data["value"]) /\ cDrag' = cDrag /\ cSynced'
      \/ /\ m.kind = "objects" \/ (m.kind = "subscription" /\ cKind \notin C!Subscribed)
         /\ UNCHANGED <<cShown, cDrag, cSynced>>
  BY <1>3 DEF C!Handle, C!Take, m
<1> HIDE DEF m, q
<1>6. cShown' \in C!Value
  <2>1. 0 \in C!Value
    BY NumbersAssumption DEF C!Value
  <2>2. m.kind # "objects" => C!Shows(m.data["value"]) \in C!Value
    BY <1>3, NumbersShown
  <2>3. cShown \in C!Value
    BY DEF ControlInv, ControlTypes
  <2> QED BY <1>5, <2>1, <2>2, <2>3
<1>7. ControlTypes'
  <2>1. "value" \in DOMAIN cState' => cState'["value"] \in C!Value
    BY <1>3, <1>4 DEF ControlInv, ControlTypes
  <2>2. cDrag' => cDrag
    BY <1>5
  <2> QED BY <1>1, <1>2, <1>6, <2>1, <2>2 DEF ControlInv, ControlTypes
<1>8. ControlOrder'
  <2>1. cStage' \in {"list", "listed", "subscribe"} => cStage = "listed"
    BY <1>1 DEF ControlInv, ControlOrder
  <2>2. cStage = "listed" => cStage' = "subscribe" /\ m.kind = "objects" /\ Len(q) = 0
    BY <1>1, <1>2 DEF ControlInv, ControlOrder
  <2>3. Len(q) = 0 => q = <<>>
    BY <1>2, SeqTail
  <2>4. cStage = "listed" => "value" \notin DOMAIN cState'
    BY <1>3, <1>4, <2>2 DEF ControlInv, ControlOrder
  <2>5. \A i \in 1 .. Len(q) : q[i].kind # "subscription"
    BY <1>2 DEF ControlInv, ControlOrder
  <2>6. cSynced' => "value" \in DOMAIN cState'
    BY <1>3, <1>4, <1>5 DEF ControlInv, ControlOrder
  <2> QED BY <1>1, <2>1, <2>2, <2>3, <2>4, <2>5, <2>6 DEF ControlOrder
<1>9. SUFFICES ASSUME cStage = "up" PROVE ControlTold'
  BY <1>1, <1>7, <1>8 DEF ControlInv
<1>10. Fresh(q, cState', "value", cTold["value"])
  <2>1. Has(m, "value") => "value" \in DOMAIN cState' /\ cState'["value"] = m.data["value"]
    BY <1>4 DEF Has
  <2>2. ~Has(m, "value") /\ "value" \in DOMAIN cState =>
          "value" \in DOMAIN cState' /\ cState'["value"] = cState["value"]
    BY <1>3, <1>4 DEF Has
  <2>3. Fresh(cInbox, cState, "value", cTold["value"])
    BY <1>9 DEF ControlInv, ControlTold
  <2> QED BY <1>1, <2>1, <2>2, <2>3, FreshTail DEF m, q
<1>11. ASSUME cSynced', ~cDrag', NoReport(q)
       PROVE  Agrees(cKind, cShown', cTold["value"], cPrinter["value"], cWire)
  <2>1. "value" \in DOMAIN cState' /\ cState'["value"] = cTold["value"]
    BY <1>10, <1>11, FreshNow
  <2>2. CASE m.kind # "objects" /\ cShown' = C!Shows(m.data["value"])
    <3>1. cShown' = Number(cKind, cTold["value"])
      BY <1>3, <1>4, <2>1, <2>2, NumbersShown
    <3> QED BY <3>1, ToldAgrees
  <2>3. CASE UNCHANGED <<cShown, cDrag, cSynced>> /\ m.kind = "objects"
    <3>1. NoReport(cInbox)
      BY <1>1, <1>3, <1>11, <2>3, ReportsTail DEF m, q
    <3> QED BY <1>9, <1>11, <2>3, <3>1 DEF ControlInv, ControlTold
  <2>4. CASE UNCHANGED <<cShown, cDrag, cSynced>> /\ m.kind = "subscription"
    BY <1>2, <1>11, <2>4 DEF ControlInv, ControlOrder
  <2> QED BY <1>5, <1>11, <2>2, <2>3, <2>4
<1> QED BY <1>1, <1>10, <1>11 DEF ControlTold

\* What changes neither the messages nor the printer keeps the order of things.
LEMMA ControlPage ==
  ASSUME ControlInv, UNCHANGED <<cTold, cState, cStage, cInbox, cKind>>,
         cPrinter' \in C!Numbers, cShown' \in C!Value,
         cDrag' => cKind \in C!Slider, IsSeq(cWire'),
         cKind \in C!Slider => \A i \in 1 .. Len(cWire') : ~cWire'[i].adds /\ cWire'[i].by \in C!Value,
         cSynced' => "value" \in DOMAIN cState,
         cStage = "up" /\ cSynced' /\ ~cDrag' /\ NoReport(cInbox) =>
           Agrees(cKind, cShown', cTold["value"], cPrinter'["value"], cWire')
  PROVE  ControlInv'
<1>1. ControlTypes'
  BY DEF ControlInv, ControlTypes
<1>2. ControlOrder'
  BY DEF ControlInv, ControlOrder
<1>3. cStage = "up" => ControlTold'
  BY DEF ControlInv, ControlTold
<1> QED BY <1>1, <1>2, <1>3 DEF ControlInv

\* The page comes to the front and goes.
LEMMA ControlFront ==
  ASSUME ControlInv, C!Foreground \/ C!Back
  PROVE  ControlInv'
<1>1. UNCHANGED <<cPrinter, cTold, cState, cStage, cInbox, cKind, cDrag, cWire>>
  BY DEF C!Foreground, C!Back, C!feedVars
<1>2. \/ "value" \in DOMAIN cState /\ cShown' = C!Shows(cState["value"]) /\ cSynced'
      \/ cSynced' = cSynced /\ cShown' = cShown
      \/ /\ cKind = "homing" /\ cShown' = 0 /\ cSynced' = cSynced
         /\ "value" \notin DOMAIN cState
  BY DEF C!Foreground, C!Back, C!ReadsState
<1>3. cSynced' => "value" \in DOMAIN cState
  BY <1>2 DEF ControlInv, ControlOrder
<1>4. cShown' \in C!Value
  BY <1>2, NumbersShown, NumbersAssumption DEF C!Value, ControlInv, ControlTypes
<1>5. ASSUME cStage = "up", cSynced', ~cDrag', NoReport(cInbox)
      PROVE  Agrees(cKind, cShown', cTold["value"], cPrinter["value"], cWire)
  <2>1. CASE "value" \in DOMAIN cState /\ cShown' = C!Shows(cState["value"])
    <3>1. cState["value"] = cTold["value"]
      BY <1>5, FreshNow DEF ControlInv, ControlTold
    <3>2. cShown' = Number(cKind, cTold["value"])
      BY <2>1, <3>1, NumbersShown DEF ControlInv, ControlTypes
    <3> QED BY <3>2, ToldAgrees
  <2>2. CASE cSynced' = cSynced /\ cShown' = cShown
    BY <1>1, <1>5, <2>2 DEF ControlInv, ControlTold
  <2> QED BY <1>2, <1>3, <1>5, <2>1, <2>2
<1>6. /\ cPrinter' \in C!Numbers /\ IsSeq(cWire') /\ (cDrag' => cKind \in C!Slider)
      /\ cKind \in C!Slider => \A i \in 1 .. Len(cWire') : ~cWire'[i].adds /\ cWire'[i].by \in C!Value
  BY <1>1 DEF ControlInv, ControlTypes
<1>7. cStage = "up" /\ cSynced' /\ ~cDrag' /\ NoReport(cInbox) =>
        Agrees(cKind, cShown', cTold["value"], cPrinter'["value"], cWire')
  BY <1>1, <1>5
<1> QED BY <1>1, <1>3, <1>4, <1>6, <1>7, ControlPage

\* What a slider has sent is what it shows.
LEMMA SentAgrees ==
  ASSUME NEW k \in C!Slider, NEW s, NEW t, NEW p, NEW w, IsSeq(w), NEW x, x.by = s
  PROVE  Agrees(k, s, t, p, Append(w, x))
<1>1. /\ Len(Append(w, x)) = Len(w) + 1 /\ Len(w) \in Nat
      /\ Append(w, x)[Len(w) + 1] = x
  BY SeqAppend
<1> DEFINE l == Append(w, x)
<1> HIDE DEF l
<1>2. l # <<>> /\ Len(w) + 1 \in 1 .. Len(l)
  <2>1. IsSeq(l) /\ Len(l) = Len(w) + 1 /\ Len(w) \in Nat
    BY <1>1, SeqAppend DEF l
  <2>2. l = <<>> <=> Len(l) = 0
    BY <2>1, SeqNone
  <2> QED BY <2>1, <2>2
<1>3. Target(l, p) = s
  BY <1>1, <1>2 DEF l, Target
<1>4. \E i \in 1 .. Len(l) : l[i].by = s
  BY <1>1, <1>2 DEF l
<1>5. k \in C!OnOff \/ k = "limits"
  BY DEF C!Slider, C!OnOff
<1>6. k = "limits" => k \notin C!OnOff
  BY DEF C!OnOff
<1>7. Agrees(k, s, t, p, l)
  BY <1>3, <1>4, <1>5, <1>6 DEF Agrees
<1> QED BY <1>7 DEF l

\* One more script changes nothing for a page that waits for the report.
LEMMA AskedAgrees ==
  ASSUME NEW k, k \notin C!OnOff, NEW s, NEW t, NEW p, NEW w, IsSeq(w), NEW x,
         Agrees(k, s, t, p, w)
  PROVE  Agrees(k, s, t, p, Append(w, x))
<1>1. /\ Len(Append(w, x)) = Len(w) + 1 /\ Len(w) \in Nat
      /\ \A i \in 1 .. Len(w) : Append(w, x)[i] = w[i]
  BY SeqAppend
<1>2. \A i \in 1 .. Len(w) : i \in 1 .. Len(Append(w, x))
  BY <1>1
<1> QED BY <1>1, <1>2 DEF Agrees

\* The slider and its buttons.
LEMMA ControlSlide ==
  ASSUME ControlInv, C!Drag \/ C!Release \/ C!OffMax
  PROVE  ControlInv'
<1> DEFINE x == [adds |-> FALSE, by |-> cShown']
<1>1. /\ UNCHANGED <<cPrinter, cTold, cState, cStage, cInbox, cKind>> /\ cKind \in C!Slider
      /\ cSynced' => cSynced
  <2>1. CASE C!Drag
    BY <2>1 DEF C!Drag, C!feedVars
  <2>2. CASE C!Release
    BY <2>2 DEF C!Release, C!Sends, C!feedVars, ControlInv, ControlTypes
  <2>3. CASE C!OffMax
    BY <2>3 DEF C!OffMax, C!Sends, C!feedVars, C!OnOff, C!Slider
  <2> QED BY <2>1, <2>2, <2>3
<1>2. /\ cShown' \in C!Value
      /\ cWire' \in {cWire, Append(cWire, x)}
      /\ cStage = "up" => cDrag' \/ cWire' = Append(cWire, x)
  <2>1. CASE C!Drag
    BY <2>1 DEF C!Drag
  <2>2. CASE C!Release
    BY <2>2 DEF C!Release, C!Script, C!Send, ControlInv, ControlTypes
  <2>3. CASE C!OffMax
    <3>1. cShown' \in C!Value
      BY <2>3, NumbersAssumption DEF C!OffMax, C!Value
    <3> QED BY <2>3, <3>1 DEF C!OffMax, C!Script, C!Send
  <2> QED BY <2>1, <2>2, <2>3
<1>3. ~x.adds /\ x.by = cShown'
  OBVIOUS
<1> HIDE DEF x
<1>4. IsSeq(cWire) /\ \A i \in 1 .. Len(cWire) : ~cWire[i].adds /\ cWire[i].by \in C!Value
  BY <1>1 DEF ControlInv, ControlTypes
<1>5. IsSeq(cWire') /\ \A i \in 1 .. Len(cWire') : ~cWire'[i].adds /\ cWire'[i].by \in C!Value
  <2>1. CASE cWire' = Append(cWire, x)
    BY <1>2, <1>3, <1>4, <2>1, SeqAppend
  <2> QED BY <1>2, <1>4, <2>1
<1>6. cStage = "up" /\ ~cDrag' =>
        Agrees(cKind, cShown', cTold["value"], cPrinter'["value"], cWire')
  BY <1>1, <1>2, <1>3, <1>4, SentAgrees
<1>7. cSynced' => "value" \in DOMAIN cState
  BY <1>1 DEF ControlInv, ControlOrder
<1>8. cPrinter' \in C!Numbers
  BY <1>1 DEF ControlInv, ControlTypes
<1> QED BY <1>1, <1>2, <1>5, <1>6, <1>7, <1>8, ControlPage

\* The other buttons only send.
LEMMA ControlAsk ==
  ASSUME ControlInv,
         C!Reset \/ C!StepFactor \/ C!StepPressure \/ C!StepOffset \/ C!Homing \/ C!Enter \/ C!Extrude
  PROVE  ControlInv'
<1>1. UNCHANGED <<cPrinter, cTold, cState, cStage, cInbox, cKind, cShown, cDrag, cSynced>>
  BY DEF C!Reset, C!StepFactor, C!StepPressure, C!StepOffset, C!Homing, C!Enter, C!Extrude,
         C!Asks, C!Sends, C!feedVars
<1>2. cKind \notin C!OnOff /\ (cKind \in C!Slider => C!Reset /\ cKind = "limits")
  BY DEF C!Reset, C!StepFactor, C!StepPressure, C!StepOffset, C!Homing, C!Enter, C!Extrude,
         C!OnOff, C!Slider
<1>3. cWire' = cWire \/ \E x : cWire' = Append(cWire, x)
  BY DEF C!Reset, C!StepFactor, C!StepPressure, C!StepOffset, C!Homing, C!Enter, C!Extrude,
         C!Script, C!Adjust, C!Send
<1>4. cKind \in C!Slider => cWire' = cWire \/ cWire' = Append(cWire, [adds |-> FALSE, by |-> Top])
  BY <1>2 DEF C!Reset, C!Script, C!Send
<1>5. IsSeq(cWire) /\ cPrinter \in C!Numbers /\ cShown \in C!Value
  BY DEF ControlInv, ControlTypes
<1>6. IsSeq(cWire')
  BY <1>3, <1>5, SeqAppend
<1>7. ASSUME cKind \in C!Slider
      PROVE  \A i \in 1 .. Len(cWire') : ~cWire'[i].adds /\ cWire'[i].by \in C!Value
  <2> DEFINE x == [adds |-> FALSE, by |-> Top]
  <2>1. ~x.adds /\ x.by \in C!Value
    BY NumbersAssumption DEF C!Value
  <2> HIDE DEF x
  <2>2. \A i \in 1 .. Len(cWire) : ~cWire[i].adds /\ cWire[i].by \in C!Value
    BY <1>7 DEF ControlInv, ControlTypes
  <2>3. CASE cWire' = Append(cWire, x)
    BY <1>5, <2>1, <2>2, <2>3, SeqAppend
  <2> QED BY <1>4, <1>7, <2>2, <2>3 DEF x
<1>8. cStage = "up" /\ cSynced' /\ ~cDrag' /\ NoReport(cInbox) =>
        Agrees(cKind, cShown', cTold["value"], cPrinter'["value"], cWire')
  <2>1. SUFFICES ASSUME cStage = "up", cSynced, ~cDrag, NoReport(cInbox)
                 PROVE  Agrees(cKind, cShown, cTold["value"], cPrinter["value"], cWire')
    BY <1>1
  <2>2. Agrees(cKind, cShown, cTold["value"], cPrinter["value"], cWire)
    BY <2>1 DEF ControlInv, ControlTold
  <2> QED BY <1>2, <1>3, <1>5, <2>2, AskedAgrees
<1>9. cSynced' => "value" \in DOMAIN cState
  BY <1>1 DEF ControlInv, ControlOrder
<1>10. cPrinter' \in C!Numbers /\ cShown' \in C!Value /\ (cDrag' => cKind \in C!Slider)
  BY <1>1, <1>5 DEF ControlInv, ControlTypes
<1> QED BY <1>1, <1>6, <1>7, <1>8, <1>9, <1>10, ControlPage

\* Klipper runs a script: a slider's number is then the printer's, and a
\* number that is back where it was reported, which will not be reported again,
\* is not one a page could know.
LEMMA ControlRun ==
  ASSUME ControlInv, C!Run
  PROVE  ControlInv'
<1> DEFINE w == Tail(cWire)
           p == cPrinter["value"]
           t == cTold["value"]
<1>1. /\ UNCHANGED <<cTold, cState, cStage, cInbox, cKind, cShown, cDrag>>
      /\ cWire # <<>> /\ cWire' = w /\ (cSynced' => cSynced)
  BY DEF C!Run
<1>2. /\ IsSeq(w) /\ Len(cWire) \in Nat \ {0} /\ Len(w) = Len(cWire) - 1 /\ Head(cWire) = cWire[1]
      /\ \A i \in 1 .. Len(cWire) - 1 : w[i] = cWire[i + 1]
  BY <1>1, SeqTail DEF ControlInv, ControlTypes
<1>4. cPrinter \in C!Numbers /\ cTold \in C!Numbers /\ p \in C!Value /\ t \in C!Value /\ cShown \in C!Value
  BY DEF ControlInv, ControlTypes, C!Numbers
<1>5. C!Result(Head(cWire)) \in C!Value
  BY <1>4 DEF C!Result
<1>6. cPrinter' \in C!Numbers
  BY <1>4, <1>5 DEF C!Run, C!Numbers
<1> HIDE DEF w, p, t
<1>3. w = <<>> <=> Len(cWire) = 1
  BY <1>2, SeqNone
<1>7. cKind \in C!Slider => \A i \in 1 .. Len(w) : ~w[i].adds /\ w[i].by \in C!Value
  BY <1>2 DEF ControlInv, ControlTypes
<1>8. cSynced' => "value" \in DOMAIN cState
  BY <1>1 DEF ControlInv, ControlOrder
<1>9. ASSUME cStage = "up", cSynced', ~cDrag, NoReport(cInbox)
      PROVE  Agrees(cKind, cShown, t, cPrinter'["value"], w)
  <2>1. Agrees(cKind, cShown, t, p, cWire)
    BY <1>1, <1>9 DEF ControlInv, ControlTold, t, p
  <2>2. /\ cPrinter' = [cPrinter EXCEPT !["value"] = C!Result(Head(cWire))]
        /\ cKind \in C!OnOff \/ ~C!Unseen
    BY <1>9 DEF C!Run
  <2>3. cPrinter'["value"] = C!Result(Head(cWire))
    BY <1>4, <2>2 DEF C!Numbers
  <2>4. ASSUME cKind \in C!Slider PROVE cPrinter'["value"] = cWire[1].by
    <3>1. ~cWire[1].adds /\ cWire[1].by \in C!Value
      BY <1>2, <2>4 DEF ControlInv, ControlTypes
    <3> QED BY <1>2, <2>3, <3>1 DEF C!Result
  <2>5. CASE cKind \in C!OnOff
    <3>1. cKind \in C!Slider
      BY <2>5 DEF C!OnOff, C!Slider
    <3>2. Target(w, cPrinter'["value"]) = cWire[Len(cWire)].by
      BY <1>2, <1>3, <2>4, <3>1 DEF Target
    <3>3. Target(cWire, p) = cWire[Len(cWire)].by
      BY <1>1 DEF Target
    <3>4. t = Target(cWire, p) => cShown \in {t, C!Percent(t)}
      BY <2>1, <2>5 DEF Agrees
    <3>5. t = Target(w, cPrinter'["value"]) => cShown \in {t, C!Percent(t)}
      BY <3>2, <3>3, <3>4
    <3> QED BY <2>5, <3>5 DEF Agrees, C!OnOff
  <2>6. CASE cKind = "limits"
    <3>1. cKind \in C!Slider /\ cKind \notin C!OnOff
      BY <2>6 DEF C!OnOff, C!Slider
    <3>2. SUFFICES ASSUME cPrinter'["value"] = t, cShown # t
                   PROVE  \E i \in 1 .. Len(w) : w[i].by # t
      BY <2>6, <3>1 DEF Agrees
    <3>3. cPrinter' = cPrinter
      <4>1. cPrinter' = cTold
        BY <1>4, <1>6, <3>2 DEF C!Numbers, t
      <4> QED BY <2>2, <3>1, <4>1 DEF C!Unseen
    <3>4. PICK i \in 1 .. Len(cWire) : cWire[i].by # t
      BY <2>1, <2>6, <3>1, <3>2, <3>3 DEF Agrees, p
    <3>5. i # 1
      BY <2>4, <3>1, <3>2, <3>4
    <3>6. i - 1 \in 1 .. Len(w) /\ w[i - 1] = cWire[i]
      BY <1>2, <3>5
    <3> QED BY <3>4, <3>6
  <2>7. CASE cKind \notin C!OnOff /\ cKind # "limits"
    BY <2>1, <2>7 DEF Agrees
  <2> QED BY <2>5, <2>6, <2>7
<1>10. /\ IsSeq(cWire') /\ cShown' \in C!Value /\ (cDrag' => cKind \in C!Slider)
       /\ cKind \in C!Slider => \A i \in 1 .. Len(cWire') : ~cWire'[i].adds /\ cWire'[i].by \in C!Value
  BY <1>1, <1>2, <1>4, <1>7 DEF ControlInv, ControlTypes
<1>11. cStage = "up" /\ cSynced' /\ ~cDrag' /\ NoReport(cInbox) =>
         Agrees(cKind, cShown', cTold["value"], cPrinter'["value"], cWire')
  BY <1>1, <1>9 DEF t
<1> QED BY <1>1, <1>6, <1>8, <1>10, <1>11, ControlPage

\* Other clients, the network and what Moonraker reports.
LEMMA ControlElsewhere ==
  ASSUME ControlInv, C!Elsewhere
  PROVE  ControlInv'
<1>1. /\ UNCHANGED <<cTold, cState, cStage, cInbox, cKind, cShown, cDrag, cWire>>
      /\ cPrinter' \in C!Numbers \ {cPrinter} /\ cSynced' = (cSynced /\ ~C!Unseen)
  BY DEF C!Elsewhere, C!Change, C!Numbers, C!Value
<1>2. cSynced' => cSynced /\ cPrinter' # cTold
  BY <1>1 DEF C!Unseen
<1>3. /\ cShown' \in C!Value /\ IsSeq(cWire') /\ (cDrag' => cKind \in C!Slider)
      /\ cKind \in C!Slider => \A i \in 1 .. Len(cWire') : ~cWire'[i].adds /\ cWire'[i].by \in C!Value
  BY <1>1 DEF ControlInv, ControlTypes
<1>4. cSynced' => "value" \in DOMAIN cState
  BY <1>2 DEF ControlInv, ControlOrder
<1>5. ASSUME cStage = "up", cSynced', ~cDrag, NoReport(cInbox)
      PROVE  Agrees(cKind, cShown, cTold["value"], cPrinter'["value"], cWire)
  <2>1. Agrees(cKind, cShown, cTold["value"], cPrinter["value"], cWire)
    BY <1>2, <1>5 DEF ControlInv, ControlTold
  <2>2. cPrinter'["value"] # cTold["value"]
    BY <1>1, <1>2, <1>5 DEF C!Numbers, ControlInv, ControlTypes
  <2>3. cWire # <<>> => Target(cWire, cPrinter'["value"]) = Target(cWire, cPrinter["value"])
    BY DEF Target
  <2>4. cWire = <<>> => Target(cWire, cPrinter'["value"]) # cTold["value"]
    BY <2>2 DEF Target
  <2> QED BY <2>1, <2>2, <2>3, <2>4 DEF Agrees
<1> QED BY <1>1, <1>3, <1>4, <1>5, ControlPage

\* A report on its way keeps the page waiting.
LEMMA ControlReport ==
  ASSUME ControlTypes, ControlOrder, UNCHANGED <<cPrinter, cState, cKind, cShown, cDrag, cWire>>,
         cTold' = cPrinter, cStage' = "up", cSynced' => cSynced,
         NEW r, cInbox' = Append(cInbox, r), r.data = cPrinter,
         \/ r.kind = "update"
         \/ r.kind = "subscription" /\ cInbox = <<>> /\ "value" \notin DOMAIN cState
  PROVE  ControlInv'
<1>1. /\ IsSeq(cInbox') /\ Len(cInbox) \in Nat /\ Len(cInbox') = Len(cInbox) + 1
      /\ cInbox'[Len(cInbox) + 1] = r /\ \A i \in 1 .. Len(cInbox) : cInbox'[i] = cInbox[i]
  BY SeqAppend DEF ControlTypes
<1>2. /\ IsReport(r) /\ Has(r, "value") /\ r.data["value"] = cPrinter["value"]
      /\ DOMAIN r.data = {"value"} /\ cPrinter["value"] \in C!Value
  BY DEF IsReport, Has, ControlTypes, C!Numbers
<1>3. ControlTypes'
  BY <1>1, <1>2 DEF ControlTypes
<1>4. ControlOrder'
  BY <1>1, SeqNone DEF ControlOrder, ControlTypes
<1>5. Fresh(Append(cInbox, r), cState, "value", cPrinter["value"])
  BY <1>2, FreshReport DEF ControlTypes, Has
<1>6. ~NoReport(cInbox')
  BY <1>1, <1>2 DEF NoReport
<1>7. ControlTold'
  BY <1>5, <1>6 DEF ControlTold
<1> QED BY <1>3, <1>4, <1>7 DEF ControlInv

\* The link is lost and comes back, and Moonraker answers and reports.
LEMMA ControlLink ==
  ASSUME ControlInv, C!Link
  PROVE  ControlInv'
<1>1. /\ UNCHANGED <<cKind, cShown, cFront, cDrag>>
      /\ cSynced' => cSynced /\ cStage' \notin {"down", "list"}
      /\ cWire' = IF cStage' = "down" THEN <<>> ELSE cWire
  BY DEF C!Link
<1>2. /\ IsSeq(cWire')
      /\ cKind \in C!Slider => \A i \in 1 .. Len(cWire') : ~cWire'[i].adds /\ cWire'[i].by \in C!Value
  <2>1. CASE cWire' = cWire
    BY <2>1 DEF ControlInv, ControlTypes
  <2>2. CASE cWire' = <<>>
    BY <2>2, SeqEmpty
  <2> QED BY <1>1, <2>1, <2>2
<1>3. CASE C!Drop
  <2>1. UNCHANGED <<cPrinter, cTold, cState, cInbox>> /\ cStage' = "down"
    BY <1>3 DEF C!Drop
  <2>2. ControlTypes'
    BY <1>1, <1>2, <2>1 DEF ControlInv, ControlTypes
  <2>3. ControlOrder'
    BY <1>1, <2>1 DEF ControlInv, ControlOrder
  <2> QED BY <2>1, <2>2, <2>3 DEF ControlInv
<1>4. CASE C!Connect
  <2>1. /\ UNCHANGED <<cPrinter, cTold, cInbox>> /\ cInbox = <<>> /\ cStage' = "list"
        /\ DOMAIN cState' = {}
    BY <1>4 DEF C!Connect, C!Unknown
  <2>2. ControlTypes'
    BY <1>1, <1>2, <2>1 DEF ControlInv, ControlTypes
  <2>3. ControlOrder'
    BY <1>1, <2>1 DEF ControlInv, ControlOrder
  <2> QED BY <2>1, <2>2, <2>3 DEF ControlInv
<1>5. CASE C!AnswerList
  <2> DEFINE r == [kind |-> "objects", data |-> C!Unknown]
  <2>1. /\ UNCHANGED <<cPrinter, cTold, cState>> /\ cStage = "list" /\ cStage' = "listed"
        /\ cInbox' = Append(<<>>, r)
    BY <1>5 DEF C!AnswerList
  <2>2. r.kind = "objects" /\ DOMAIN r.data = {}
    BY DEF C!Unknown
  <2> HIDE DEF r
  <2>3. IsSeq(cInbox') /\ Len(cInbox') = 1 /\ cInbox'[1] = r
    BY <2>1, SeqSingle
  <2>4. ControlTypes'
    BY <1>1, <1>2, <2>1, <2>2, <2>3 DEF ControlInv, ControlTypes
  <2>5. ControlOrder'
    BY <1>1, <2>1, <2>2, <2>3 DEF ControlInv, ControlOrder
  <2> QED BY <2>1, <2>4, <2>5 DEF ControlInv
<1>6. CASE C!AnswerSubscribe
  <2> DEFINE r == [kind |-> "subscription", data |-> cPrinter]
  <2>1. /\ UNCHANGED <<cPrinter, cState>> /\ cTold' = cPrinter /\ cStage' = "up"
        /\ cInbox' = Append(cInbox, r) /\ cStage = "subscribe"
    BY <1>6 DEF C!AnswerSubscribe
  <2>2. r.kind = "subscription" /\ r.data = cPrinter
    OBVIOUS
  <2> HIDE DEF r
  <2>3. cInbox = <<>> /\ "value" \notin DOMAIN cState
    BY <2>1 DEF ControlInv, ControlOrder
  <2>4. cWire' = cWire
    BY <1>1, <2>1
  <2> QED BY <1>1, <2>1, <2>2, <2>3, <2>4, ControlReport DEF ControlInv
<1>7. CASE C!SendUpdate
  <2> DEFINE r == [kind |-> "update", data |-> [f \in C!Changed |-> cPrinter[f]]]
  <2>1. /\ UNCHANGED <<cPrinter, cState>> /\ cTold' = cPrinter /\ cStage' = "up"
        /\ cInbox' = Append(cInbox, r) /\ C!Changed = {"value"}
    BY <1>7 DEF C!SendUpdate, C!Changed
  <2>2. r.kind = "update" /\ r.data = cPrinter
    BY <2>1 DEF ControlInv, ControlTypes, C!Numbers
  <2> HIDE DEF r
  <2>3. cWire' = cWire
    BY <1>1, <2>1
  <2> QED BY <1>1, <2>1, <2>2, <2>3, ControlReport DEF ControlInv
<1> QED BY <1>3, <1>4, <1>5, <1>6, <1>7 DEF C!Link, C!Network

\* Once all is run and reported, the page's number is the printer's, whichever
\* of its own taps and the printer's reports came last.
THEOREM NumberRight == PagesSpec => []ShownIsReported
<1>1. PagesInit => ControlInv
  <2> SUFFICES ASSUME C!Init PROVE ControlInv
    BY PagesStart
  <2>1. /\ cPrinter \in C!Numbers /\ cTold = cPrinter /\ cShown = 0 /\ 0 \in C!Value
        /\ cKind \in C!Kind /\ DOMAIN cState = {} /\ cStage = "down" /\ cInbox = <<>>
        /\ ~cDrag /\ cWire = <<>> /\ ~cSynced
    BY NumbersAssumption DEF C!Init, C!FeedInit, C!Unknown, C!Numbers, C!Value
  <2>2. ControlTypes
    BY <2>1, SeqEmpty DEF ControlTypes
  <2>3. ControlOrder
    BY <2>1 DEF ControlOrder
  <2> QED BY <2>1, <2>2, <2>3 DEF ControlInv
<1>2. ControlInv /\ [PagesNext]_pagesVars => ControlInv'
  <2> SUFFICES ASSUME ControlInv, C!Next \/ UNCHANGED cVars PROVE ControlInv'
    BY PageSteps
  <2>1. CASE UNCHANGED cVars
    BY <2>1 DEF cVars, ControlInv, ControlTypes, ControlOrder, ControlTold
  <2> QED BY <2>1, ControlHandle, ControlFront, ControlSlide, ControlAsk, ControlRun,
             ControlElsewhere, ControlLink DEF C!Next
<1>3. ControlInv => ShownIsReported
  <2> SUFFICES ASSUME ControlInv, C!Settled, cWire = <<>>, ~cDrag, cSynced
               PROVE  cShown \in {cPrinter["value"], C!Percent(cPrinter["value"])}
    BY DEF ShownIsReported, C!ShownIsReported
  <2>1. Agrees(cKind, cShown, cPrinter["value"], cPrinter["value"], <<>>)
    BY DEF C!Settled, ControlInv, ControlTold, NoReport
  <2>2. Target(<<>>, cPrinter["value"]) = cPrinter["value"]
    BY DEF Target
  <2> QED BY <2>1, <2>2 DEF Agrees, Number
<1> QED BY <1>1, <1>2, <1>3, PTL DEF PagesSpec

-----------------------------------------------------------------------------
(* Print readings.                                                          *)

Readings == {"file", "duration", "total_layer", "progress"}

ReadingTypes ==
  /\ IsSeq(rInbox) /\ IsSeq(rAsked)
  /\ DOMAIN rPrinter = Readings /\ DOMAIN rState \in {{}, Readings}
  /\ \A i \in 1 .. Len(rInbox) :
       /\ rInbox[i].kind \in {"objects", "subscription", "update", "metadata"}
       /\ rInbox[i].kind = "objects" => DOMAIN rInbox[i].data = {}
       /\ rInbox[i].kind = "subscription" => DOMAIN rInbox[i].data = Readings
       /\ rInbox[i].kind = "update" => DOMAIN rInbox[i].data \subseteq Readings
       /\ rInbox[i].kind = "metadata" => rInbox[i].data \in {"error", "bare", "whole"}

\* State is empty until the subscription's reply, which comes before the updates.
ReadingOrder ==
  /\ rStage = "list" => rInbox = <<>>
  /\ rStage = "listed" => Len(rInbox) > 0 /\ rInbox[1].kind = "objects"
  /\ rStage \in {"list", "listed", "subscribe"} => NoReport(rInbox) /\ DOMAIN rState = {}
  /\ DOMAIN rState = {} =>
       /\ rStage = "up" => \E i \in 1 .. Len(rInbox) : rInbox[i].kind = "subscription"
       /\ \A i \in 1 .. Len(rInbox) : rInbox[i].kind = "update" =>
            \E j \in 1 .. i - 1 : rInbox[j].kind = "subscription"

\* The page's file and progress are State's, and the estimate and the picture
\* this file's unless a reply came late.
ReadingPage ==
  /\ DOMAIN rState = Readings => rShown = rState["file"] /\ rProgress = rState["progress"]
  /\ ~rLate => {rEstimated, rThumb} \subseteq {NoPrint, rShown}

NoReply(q) == \A i \in 1 .. Len(q) : q[i].kind # "metadata"
LastReply(q, f) ==
  \E i \in 1 .. Len(q) : /\ q[i].kind = "metadata" /\ q[i].file = f
                         /\ \A j \in i + 1 .. Len(q) : q[j].kind # "metadata"

\* The last request that is not handled is about the shown file; when there is
\* none, the answer was about it, and the readings are the file's and State's.
ReadingReplies ==
  /\ rAsked # <<>> => rAsked[Len(rAsked)] = rShown
  /\ rAsked = <<>> => NoReply(rInbox) \/ LastReply(rInbox, rShown)
  /\ rAsked = <<>> /\ NoReply(rInbox) =>
       /\ rAnswer \in {"whole", "reported"} =>
            /\ rEstimated = rShown /\ rThumb = rShown /\ rFile = rShown
            /\ rElapsed = rState["duration"]
            /\ rLeft # R!Dots => rLeft = Estimate[rShown] - rElapsed /\ rEta = rLeft
       /\ rAnswer = "reported" => rLayers \in {Layers[rShown], rState["total_layer"]}

ReadingInv ==
  /\ ReadingTypes /\ ReadingOrder /\ ReadingPage
  /\ rStage = "up" => \A f \in Readings : Fresh(rInbox, rState, f, rTold[f])
  /\ rStage = "up" /\ DOMAIN rState = Readings /\ rShown # NoPrint => ReadingReplies

\* One more message in q.
LEMMA ReplyAppend ==
  ASSUME NEW q, IsSeq(q), NEW m, NEW f
  PROVE  /\ m.kind # "metadata" /\ NoReply(q) => NoReply(Append(q, m))
         /\ m.kind # "metadata" /\ LastReply(q, f) => LastReply(Append(q, m), f)
         /\ m.kind = "metadata" /\ m.file = f => LastReply(Append(q, m), f)
         /\ NoReply(Append(q, m)) => NoReply(q) /\ m.kind # "metadata"
<1> DEFINE n == Len(q)
           l == Append(q, m)
<1>1. /\ n \in Nat /\ Len(l) = n + 1 /\ l[n + 1] = m
      /\ \A i \in 1 .. n : l[i] = q[i]
  BY SeqAppend
<1> HIDE DEF l
<1>2. m.kind # "metadata" /\ NoReply(q) => NoReply(l)
  BY <1>1 DEF NoReply
<1>3. m.kind # "metadata" /\ LastReply(q, f) => LastReply(l, f)
  BY <1>1 DEF LastReply
<1>4. m.kind = "metadata" /\ m.file = f => LastReply(l, f)
  BY <1>1 DEF LastReply
<1>5. NoReply(l) => NoReply(q) /\ m.kind # "metadata"
  BY <1>1 DEF NoReply
<1> QED BY <1>2, <1>3, <1>4, <1>5 DEF l

\* One message fewer in q.
LEMMA ReplyTail ==
  ASSUME NEW q, IsSeq(q), q # <<>>, NEW f
  PROVE  /\ NoReply(q) <=> NoReply(Tail(q)) /\ Head(q).kind # "metadata"
         /\ LastReply(q, f) =>
              \/ LastReply(Tail(q), f)
              \/ NoReply(Tail(q)) /\ Head(q).kind = "metadata" /\ Head(q).file = f
<1> DEFINE n == Len(q)
           l == Tail(q)
<1>1. /\ n \in Nat \ {0} /\ Len(l) = n - 1 /\ Head(q) = q[1]
      /\ \A i \in 1 .. n - 1 : l[i] = q[i + 1]
  BY SeqTail
<1>2. \A i \in 2 .. n : i - 1 \in 1 .. n - 1 /\ q[i] = l[i - 1]
  BY <1>1
<1> HIDE DEF l
<1>3. ASSUME LastReply(q, f)
      PROVE  LastReply(l, f) \/ (NoReply(l) /\ q[1].kind = "metadata" /\ q[1].file = f)
  <2>1. PICK i \in 1 .. n : /\ q[i].kind = "metadata" /\ q[i].file = f
                            /\ \A j \in i + 1 .. n : q[j].kind # "metadata"
    BY <1>3 DEF LastReply
  <2>2. CASE i = 1
    BY <1>1, <2>1, <2>2 DEF NoReply
  <2>3. CASE i # 1
    <3>1. i - 1 \in 1 .. Len(l) /\ l[i - 1] = q[i]
      BY <1>1, <1>2, <2>3
    <3>2. \A j \in (i - 1) + 1 .. Len(l) : l[j].kind # "metadata"
      BY <1>1, <2>1
    <3> QED BY <2>1, <3>1, <3>2 DEF LastReply
  <2> QED BY <2>2, <2>3
<1>4. NoReply(q) => NoReply(l) /\ q[1].kind # "metadata"
  BY <1>1 DEF NoReply
<1>5. ASSUME NoReply(l), q[1].kind # "metadata" PROVE NoReply(q)
  <2>1. \A i \in 2 .. n : q[i].kind # "metadata"
    BY <1>1, <1>2, <1>5 DEF NoReply
  <2>2. \A i \in 1 .. n : i = 1 \/ i \in 2 .. n
    BY <1>1
  <2> QED BY <1>5, <2>1, <2>2 DEF NoReply
<1> QED BY <1>1, <1>3, <1>4, <1>5 DEF l

\* What State has after the next message.
LEMMA ReadingState ==
  ASSUME ReadingTypes, ReadingOrder, R!Handle
  PROVE  /\ rInbox # <<>> /\ IsSeq(rInbox) /\ rInbox' = Tail(rInbox)
         /\ UNCHANGED <<rPrinter, rTold>> /\ DOMAIN rState' \in {{}, Readings}
         /\ Head(rInbox).kind \in {"objects", "subscription", "update", "metadata"}
         /\ Head(rInbox).kind \in {"objects", "metadata"} =>
              /\ DOMAIN rState' = DOMAIN rState /\ \A f \in Readings : ~Has(Head(rInbox), f)
              /\ \A f \in DOMAIN rState : rState'[f] = rState[f]
         /\ Head(rInbox).kind = "subscription" =>
              DOMAIN Head(rInbox).data = Readings
         /\ Head(rInbox).kind = "update" =>
              DOMAIN rState = Readings /\ DOMAIN Head(rInbox).data \subseteq Readings
         /\ Head(rInbox).kind \in {"subscription", "update"} =>
              /\ DOMAIN rState' = Readings
              /\ \A f \in Readings :
                   /\ f \in DOMAIN Head(rInbox).data => rState'[f] = Head(rInbox).data[f]
                   /\ f \notin DOMAIN Head(rInbox).data => f \in DOMAIN rState /\ rState'[f] = rState[f]
<1> DEFINE m == Head(rInbox)
<1>1. /\ rInbox # <<>> /\ IsSeq(rInbox) /\ rInbox' = Tail(rInbox)
      /\ UNCHANGED <<rPrinter, rTold>>
      /\ rState' = IF m.kind = "metadata" THEN rState ELSE R!Over(m.data, rState)
  BY DEF R!Handle, R!Receive, ReadingTypes
<1>2. m = rInbox[1] /\ Len(rInbox) \in Nat \ {0}
  BY <1>1, SeqTail
<1>3. m.kind # "metadata" =>
        /\ DOMAIN rState' = DOMAIN m.data \cup DOMAIN rState
        /\ \A f \in DOMAIN m.data : rState'[f] = m.data[f]
        /\ \A f \in DOMAIN rState \ DOMAIN m.data : rState'[f] = rState[f]
  BY <1>1 DEF R!Over
<1> HIDE DEF m
<1>4. /\ m.kind \in {"objects", "subscription", "update", "metadata"}
      /\ m.kind = "objects" => DOMAIN m.data = {}
      /\ m.kind = "subscription" => DOMAIN m.data = Readings
      /\ m.kind = "update" => DOMAIN m.data \subseteq Readings
  BY <1>2 DEF ReadingTypes
<1>5. DOMAIN rState = {} \/ DOMAIN rState = Readings
  BY DEF ReadingTypes
<1>6. m.kind = "update" => DOMAIN rState = Readings
  BY <1>2, <1>5 DEF ReadingOrder
<1>7. m.kind \in {"objects", "metadata"} =>
        /\ DOMAIN rState' = DOMAIN rState /\ \A f \in Readings : ~Has(m, f)
        /\ \A f \in DOMAIN rState : rState'[f] = rState[f]
  BY <1>1, <1>3, <1>4 DEF Has, IsReport
<1>8. m.kind \in {"subscription", "update"} =>
        /\ DOMAIN rState' = Readings
        /\ \A f \in Readings :
             /\ f \in DOMAIN m.data => rState'[f] = m.data[f]
             /\ f \notin DOMAIN m.data => f \in DOMAIN rState /\ rState'[f] = rState[f]
  BY <1>3, <1>4, <1>5, <1>6
<1>9. DOMAIN rState' \in {{}, Readings}
  BY <1>4, <1>5, <1>7, <1>8
<1> QED BY <1>1, <1>4, <1>6, <1>7, <1>8, <1>9 DEF m

\* The messages that still wait after it.
LEMMA ReadingRest ==
  ASSUME ReadingTypes, ReadingOrder, R!Handle, IsSeq(rAsked')
  PROVE  ReadingTypes' /\ ReadingOrder'
<1> DEFINE m == Head(rInbox)
           q == Tail(rInbox)
<1>1. /\ rInbox # <<>> /\ IsSeq(rInbox) /\ rInbox' = q /\ UNCHANGED rPrinter
      /\ DOMAIN rState' \in {{}, Readings}
      /\ m.kind \in {"objects", "metadata"} => DOMAIN rState' = DOMAIN rState
      /\ m.kind \notin {"objects", "metadata"} =>
           DOMAIN rState' = Readings /\ m.kind \in {"subscription", "update"}
  BY ReadingState
<1>2. /\ IsSeq(q) /\ m = rInbox[1] /\ Len(rInbox) \in Nat \ {0} /\ Len(q) = Len(rInbox) - 1
      /\ \A i \in 1 .. Len(rInbox) - 1 : q[i] = rInbox[i + 1]
  BY <1>1, SeqTail
<1>3. rStage' = IF m.kind = "objects" /\ rStage = "listed" THEN "subscribe" ELSE rStage
  BY DEF R!Handle, R!Receive
<1> HIDE DEF m, q
<1>4. ReadingTypes'
  <2>1. \A i \in 1 .. Len(q) : i + 1 \in 1 .. Len(rInbox) /\ q[i] = rInbox[i + 1]
    BY <1>2
  <2>2. DOMAIN rPrinter = Readings
    BY DEF ReadingTypes
  <2>3. ASSUME NEW n \in 1 .. Len(rInbox)
        PROVE  /\ rInbox[n].kind \in {"objects", "subscription", "update", "metadata"}
               /\ rInbox[n].kind = "objects" => DOMAIN rInbox[n].data = {}
               /\ rInbox[n].kind = "subscription" => DOMAIN rInbox[n].data = Readings
               /\ rInbox[n].kind = "update" => DOMAIN rInbox[n].data \subseteq Readings
               /\ rInbox[n].kind = "metadata" => rInbox[n].data \in {"error", "bare", "whole"}
    BY DEF ReadingTypes
  <2>4. IsSeq(rInbox') /\ IsSeq(rAsked') /\ DOMAIN rPrinter' = Readings
        /\ DOMAIN rState' \in {{}, Readings}
    BY <1>1, <1>2, <2>2
  <2> QED BY <1>1, <2>1, <2>3, <2>4 DEF ReadingTypes
<1>5. rStage = "list" => FALSE
  BY <1>1 DEF ReadingOrder
<1>6. rStage = "listed" => rStage' = "subscribe"
  BY <1>2, <1>3 DEF ReadingOrder
<1>7. ASSUME rStage \in {"listed", "subscribe"} PROVE NoReport(q) /\ DOMAIN rState' = {}
  <2>1. NoReport(rInbox) /\ DOMAIN rState = {}
    BY <1>7 DEF ReadingOrder
  <2>2. ~IsReport(m)
    BY <1>2, <2>1 DEF NoReport
  <2> QED BY <1>1, <1>2, <2>1, <2>2 DEF NoReport, IsReport
<1>8. ASSUME DOMAIN rState' = {}
      PROVE  /\ rStage' = "up" => \E i \in 1 .. Len(q) : q[i].kind = "subscription"
             /\ \A i \in 1 .. Len(q) : q[i].kind = "update" =>
                  \E j \in 1 .. i - 1 : q[j].kind = "subscription"
  <2>1. DOMAIN rState = {} /\ m.kind \in {"objects", "metadata"}
    BY <1>1, <1>8 DEF Readings
  <2>2. rStage' = "up" => rStage = "up"
    BY <1>3
  <2>3. ASSUME NEW i \in 1 .. Len(rInbox), rInbox[i].kind = "subscription"
        PROVE  i - 1 \in 1 .. Len(q) /\ q[i - 1].kind = "subscription"
    <3>1. i # 1
      BY <1>2, <2>1, <2>3
    <3>2. i - 1 \in 1 .. Len(rInbox) - 1
      BY <1>2, <3>1
    <3> QED BY <1>2, <2>3, <3>2
  <2>4. rStage = "up" => \E i \in 1 .. Len(rInbox) : rInbox[i].kind = "subscription"
    BY <2>1 DEF ReadingOrder
  <2>5. ASSUME NEW i \in 1 .. Len(q), q[i].kind = "update"
        PROVE  \E j \in 1 .. i - 1 : q[j].kind = "subscription"
    <3>1. i + 1 \in 1 .. Len(rInbox) /\ rInbox[i + 1].kind = "update"
      BY <1>2, <2>5
    <3>2. PICK j \in 1 .. (i + 1) - 1 : rInbox[j].kind = "subscription"
      BY <2>1, <3>1 DEF ReadingOrder
    <3>3. j \in 1 .. Len(rInbox) /\ j - 1 \in 1 .. Len(q) /\ q[j - 1].kind = "subscription"
      BY <2>3, <3>1, <3>2
    <3> QED BY <3>2, <3>3
  <2> QED BY <2>2, <2>3, <2>4, <2>5
<1>9. ReadingOrder'
  BY <1>1, <1>3, <1>5, <1>6, <1>7, <1>8 DEF ReadingOrder
<1> QED BY <1>4, <1>9

\* The page is filled and its file's metadata asked for.
LEMMA ReadingRefill ==
  ASSUME ReadingInv, R!Handle, R!Refill(rState'), DOMAIN rState' = Readings
  PROVE  /\ IsSeq(rAsked') /\ ReadingPage'
         /\ rStage = "up" /\ rShown' # NoPrint => ReadingReplies'
<1>1. /\ rShown' = rState'["file"] /\ rProgress' = rState'["progress"]
      /\ rEstimated' = NoPrint /\ rThumb' = NoPrint /\ rLate' = FALSE
      /\ rAsked' = IF rShown' = NoPrint \/ rStage = "down" THEN rAsked ELSE Append(rAsked, rShown')
  BY DEF R!Refill, R!Of, Readings
<1>2. IsSeq(rAsked)
  BY DEF ReadingInv, ReadingTypes
<1>3. /\ IsSeq(Append(rAsked, rShown')) /\ Len(Append(rAsked, rShown')) = Len(rAsked) + 1
      /\ Len(rAsked) \in Nat /\ Append(rAsked, rShown')[Len(rAsked) + 1] = rShown'
  BY <1>2, SeqAppend
<1>4. IsSeq(rAsked') /\ ReadingPage'
  BY <1>1, <1>2, <1>3 DEF ReadingPage
<1>5. ASSUME rStage = "up", rShown' # NoPrint PROVE ReadingReplies'
  <2>1. /\ rAsked' = Append(rAsked, rShown') /\ IsSeq(rAsked') /\ Len(rAsked') = Len(rAsked) + 1
        /\ rAsked'[Len(rAsked')] = rShown'
    BY <1>1, <1>3, <1>5
  <2>2. rAsked' # <<>>
    BY <1>3, <2>1, SeqNone
  <2> QED BY <2>1, <2>2 DEF ReadingReplies
<1> QED BY <1>4, <1>5

\* An update about the same file.
LEMMA ReadingSame ==
  ASSUME ReadingInv, R!Handle, Head(rInbox).kind = "update",
         "file" \notin DOMAIN Head(rInbox).data
  PROVE  /\ IsSeq(rAsked') /\ ReadingPage'
         /\ rStage = "up" /\ rShown' # NoPrint => ReadingReplies'
<1> DEFINE m == Head(rInbox)
           q == Tail(rInbox)
           u == m.data
<1>1. /\ R!SameFile(u) /\ rLayers' = R!MaxLayer(u)
      /\ "duration" \in DOMAIN u => R!TimeProgress(u["duration"], R!EstimateOf(rEstimated'), rEta)
      /\ "duration" \notin DOMAIN u => UNCHANGED <<rLeft, rEta, rElapsed>>
  BY DEF R!Handle, R!Consume
<1>2. /\ UNCHANGED <<rShown, rEstimated, rThumb, rFile, rAsked, rLate>>
      /\ rProgress' = IF "progress" \in DOMAIN u THEN u["progress"] ELSE rProgress
      /\ rAnswer' = IF rAnswer = "whole" THEN "reported" ELSE rAnswer
  BY <1>1 DEF R!SameFile, R!Of
<1>3. /\ rInbox # <<>> /\ IsSeq(rInbox) /\ rInbox' = q
      /\ DOMAIN rState = Readings /\ DOMAIN rState' = Readings
      /\ \A f \in Readings : /\ f \in DOMAIN u => rState'[f] = u[f]
                             /\ f \notin DOMAIN u => rState'[f] = rState[f]
  BY ReadingState DEF ReadingInv
<1>4. m.kind = "update" /\ "file" \notin DOMAIN u
  OBVIOUS
<1> HIDE DEF m, q, u
<1>5. {"file", "duration", "total_layer", "progress"} = Readings
  BY DEF Readings
<1>6. IsSeq(rAsked')
  BY <1>2 DEF ReadingInv, ReadingTypes
<1>7. rState'["file"] = rState["file"]
  BY <1>3, <1>4, <1>5
<1>8. rProgress' = rState'["progress"]
  BY <1>2, <1>3, <1>5 DEF ReadingInv, ReadingPage
<1>9. ReadingPage'
  BY <1>2, <1>3, <1>7, <1>8 DEF ReadingInv, ReadingPage
<1>10. ASSUME rStage = "up", rShown # NoPrint PROVE ReadingReplies'
  <2>1. ReadingReplies
    BY <1>3, <1>10 DEF ReadingInv
  <2>2. /\ NoReply(rInbox) <=> NoReply(q)
        /\ LastReply(rInbox, rShown) => LastReply(q, rShown)
    BY <1>3, <1>4, ReplyTail DEF m, q
  <2>3. ASSUME rAsked = <<>>, NoReply(q), rAnswer' \in {"whole", "reported"}
        PROVE  /\ rEstimated = rShown /\ rThumb = rShown /\ rFile = rShown
               /\ rElapsed' = rState'["duration"]
               /\ rLeft' # R!Dots => rLeft' = Estimate[rShown] - rElapsed' /\ rEta' = rLeft'
               /\ rLayers' \in {Layers[rShown], rState'["total_layer"]}
    <3>1. rAnswer \in {"whole", "reported"}
      BY <1>2, <2>3
    <3>2. /\ rEstimated = rShown /\ rThumb = rShown /\ rFile = rShown
          /\ rElapsed = rState["duration"]
          /\ rLeft # R!Dots => rLeft = Estimate[rShown] - rElapsed /\ rEta = rLeft
      BY <2>1, <2>2, <2>3, <3>1 DEF ReadingReplies
    <3>3. R!EstimateOf(rEstimated') = Estimate[rShown]
      BY <1>2, <1>10, <3>2 DEF R!EstimateOf
    <3>4. /\ rElapsed' = rState'["duration"]
          /\ rLeft' # R!Dots => rLeft' = Estimate[rShown] - rElapsed' /\ rEta' = rLeft'
      <4>1. CASE "duration" \in DOMAIN u
        <5>1. R!TimeProgress(u["duration"], Estimate[rShown], rEta)
          BY <1>1, <3>3, <4>1
        <5>2. u["duration"] = rState'["duration"]
          BY <1>3, <1>5, <4>1
        <5> QED BY <5>1, <5>2 DEF R!TimeProgress
      <4>2. CASE "duration" \notin DOMAIN u
        BY <1>1, <1>3, <1>5, <3>2, <4>2
      <4> QED BY <4>1, <4>2
    <3>5. rLayers' \in {Layers[rShown], rState'["total_layer"]}
      BY <1>1, <1>3, <1>5, <1>10, <3>2 DEF R!MaxLayer, R!Of
    <3> QED BY <3>2, <3>4, <3>5
  <2>4. /\ rAsked # <<>> => rAsked[Len(rAsked)] = rShown
        /\ rAsked = <<>> => NoReply(q) \/ LastReply(q, rShown)
    BY <2>1, <2>2 DEF ReadingReplies
  <2> QED BY <1>2, <1>3, <2>3, <2>4 DEF ReadingReplies
<1> QED BY <1>2, <1>6, <1>9, <1>10

\* A reply about a file; the last one is about the shown file.
LEMMA ReadingMetadata ==
  ASSUME ReadingInv, R!Handle, Head(rInbox).kind = "metadata"
  PROVE  /\ IsSeq(rAsked') /\ ReadingPage'
         /\ rStage = "up" /\ DOMAIN rState' = Readings /\ rShown' # NoPrint => ReadingReplies'
<1> DEFINE m == Head(rInbox)
           q == Tail(rInbox)
<1>1. R!TakeMetadata(m) /\ rState' = rState
  BY DEF R!Handle, R!Receive
<1>2. /\ UNCHANGED <<rShown, rLayers, rProgress, rAsked>> /\ rAnswer' = m.data
      /\ rLate' = (rLate \/ m.file # rShown)
      /\ m.data = "whole" =>
           /\ rEstimated' = m.file /\ rThumb' = m.file /\ rFile' = m.file
           /\ "duration" \in DOMAIN rState =>
                R!TimeProgress(rState["duration"], Estimate[m.file], rEta)
      /\ m.data # "whole" => UNCHANGED <<rEstimated, rThumb>>
  BY <1>1 DEF R!TakeMetadata
<1>3. rInbox # <<>> /\ IsSeq(rInbox) /\ rInbox' = q /\ m = rInbox[1] /\ Len(rInbox) \in Nat \ {0}
  BY ReadingState, SeqTail DEF ReadingInv
<1>4. m.kind = "metadata"
  OBVIOUS
<1> HIDE DEF m, q
<1>5. m.data \in {"error", "bare", "whole"}
  BY <1>3, <1>4 DEF ReadingInv, ReadingTypes
<1>6. IsSeq(rAsked')
  BY <1>2 DEF ReadingInv, ReadingTypes
<1>7. ReadingPage'
  BY <1>1, <1>2 DEF ReadingInv, ReadingPage
<1>8. ASSUME rStage = "up", DOMAIN rState = Readings, rShown # NoPrint PROVE ReadingReplies'
  <2>1. ReadingReplies
    BY <1>8 DEF ReadingInv
  <2>2. /\ ~NoReply(rInbox)
        /\ LastReply(rInbox, rShown) => LastReply(q, rShown) \/ (NoReply(q) /\ m.file = rShown)
    BY <1>3, <1>4, ReplyTail DEF m, q
  <2>3. rAsked = <<>> => LastReply(q, rShown) \/ (NoReply(q) /\ m.file = rShown)
    BY <2>1, <2>2 DEF ReadingReplies
  <2>4. ASSUME rAsked = <<>>, NoReply(q), rAnswer' \in {"whole", "reported"}
        PROVE  /\ rEstimated' = rShown /\ rThumb' = rShown /\ rFile' = rShown
               /\ rElapsed' = rState["duration"]
               /\ rLeft' # R!Dots => rLeft' = Estimate[rShown] - rElapsed' /\ rEta' = rLeft'
    <3>1. m.file = rShown
      BY <2>3, <2>4 DEF NoReply, LastReply
    <3>2. m.data = "whole"
      BY <1>2, <1>5, <2>4
    <3>3. R!TimeProgress(rState["duration"], Estimate[rShown], rEta)
      BY <1>2, <1>8, <3>1, <3>2 DEF Readings
    <3> QED BY <1>2, <3>1, <3>2, <3>3 DEF R!TimeProgress
  <2>5. rAnswer' # "reported"
    BY <1>2, <1>5
  <2>6. rAsked # <<>> => rAsked[Len(rAsked)] = rShown
    BY <2>1 DEF ReadingReplies
  <2> QED BY <1>1, <1>2, <1>3, <2>3, <2>4, <2>5, <2>6 DEF ReadingReplies
<1> QED BY <1>1, <1>2, <1>6, <1>7, <1>8

\* The page takes the next message, after State.
LEMMA ReadingHandle ==
  ASSUME ReadingInv, R!Handle
  PROVE  ReadingInv'
<1> DEFINE m == Head(rInbox)
<1>1. /\ rInbox # <<>> /\ IsSeq(rInbox) /\ rInbox' = Tail(rInbox)
      /\ UNCHANGED <<rPrinter, rTold>> /\ (rStage' = "up" => rStage = "up")
  BY ReadingState DEF ReadingInv, R!Handle, R!Receive
<1>2. ReadingTypes /\ ReadingOrder
  BY DEF ReadingInv
<1>3. /\ IsSeq(rAsked') /\ ReadingPage'
      /\ rStage = "up" /\ DOMAIN rState' = Readings /\ rShown' # NoPrint => ReadingReplies'
  <2>1. CASE m.kind = "metadata"
    BY <2>1, ReadingMetadata
  <2>2. CASE m.kind = "subscription" \/ (m.kind = "update" /\ "file" \in DOMAIN m.data)
    <3>1. DOMAIN rState' = Readings
      BY <1>2, <2>2, ReadingState
    <3>2. R!Refill(rState')
      BY <2>2 DEF R!Handle, R!InitPage, R!Consume
    <3> QED BY <3>1, <3>2, ReadingRefill
  <2>3. CASE m.kind = "update" /\ "file" \notin DOMAIN m.data
    BY <2>3, ReadingSame
  <2>4. CASE m.kind = "objects"
    <3>1. UNCHANGED <<rShown, rEstimated, rFile, rThumb, rLeft, rEta, rElapsed, rLayers, rProgress,
                      rAsked, rAnswer, rLate>>
      BY <2>4 DEF R!Handle, R!pageVars, R!timeVars
    <3>2. DOMAIN rState' = DOMAIN rState /\ \A f \in DOMAIN rState : rState'[f] = rState[f]
      BY <1>2, <2>4, ReadingState
    <3>3. IsSeq(rAsked')
      BY <1>2, <3>1 DEF ReadingTypes
    <3>4. ReadingPage'
      BY <3>1, <3>2 DEF ReadingInv, ReadingPage, Readings
    <3>5. ASSUME rStage = "up", DOMAIN rState = Readings, rShown # NoPrint PROVE ReadingReplies'
      <4>1. ReadingReplies
        BY <3>5 DEF ReadingInv
      <4>2. /\ NoReply(rInbox) <=> NoReply(Tail(rInbox))
            /\ LastReply(rInbox, rShown) => LastReply(Tail(rInbox), rShown)
        BY <1>1, <2>4, ReplyTail
      <4>3. rState'["duration"] = rState["duration"] /\ rState'["total_layer"] = rState["total_layer"]
        BY <3>2, <3>5 DEF Readings
      <4> QED BY <1>1, <3>1, <4>1, <4>2, <4>3 DEF ReadingReplies
    <3> QED BY <3>1, <3>2, <3>3, <3>4, <3>5
  <2> QED BY <1>2, <2>1, <2>2, <2>3, <2>4, ReadingState
<1>4. ReadingTypes' /\ ReadingOrder'
  BY <1>2, <1>3, ReadingRest
<1>5. ASSUME rStage = "up", NEW f \in Readings PROVE Fresh(Tail(rInbox), rState', f, rTold[f])
  <2>1. Fresh(rInbox, rState, f, rTold[f])
    BY <1>5 DEF ReadingInv
  <2>2. Has(m, f) => f \in DOMAIN rState' /\ rState'[f] = m.data[f]
    BY <1>2, ReadingState DEF Has, IsReport
  <2>3. ~Has(m, f) /\ f \in DOMAIN rState => f \in DOMAIN rState' /\ rState'[f] = rState[f]
    BY <1>2, ReadingState DEF Has, IsReport
  <2> HIDE DEF m
  <2> QED BY <1>1, <2>1, <2>2, <2>3, FreshTail DEF m
<1> QED BY <1>1, <1>3, <1>4, <1>5 DEF ReadingInv

\* Moonraker answers the first request that waits.
LEMMA ReadingAnswer ==
  ASSUME ReadingInv, R!AnswerMetadata
  PROVE  ReadingInv'
<1> DEFINE a == Head(rAsked)
<1>1. PICK d \in {"error", "bare", "whole"} :
        rInbox' = Append(rInbox, [kind |-> "metadata", file |-> a, data |-> d])
  BY DEF R!AnswerMetadata
<1> DEFINE m == [kind |-> "metadata", file |-> a, data |-> d]
<1>2. m.kind = "metadata" /\ m.file = a /\ m.data \in {"error", "bare", "whole"} /\ ~IsReport(m)
  BY DEF IsReport
<1>3. rInbox' = Append(rInbox, m)
  BY <1>1
<1>4. /\ UNCHANGED <<rPrinter, rTold, rState, rStage, rShown, rEstimated, rFile, rThumb,
                     rLeft, rEta, rElapsed, rLayers, rProgress, rAnswer, rLate>>
      /\ rAsked # <<>> /\ rStage # "list" /\ rAsked' = Tail(rAsked)
  BY DEF R!AnswerMetadata, R!pageVars, R!timeVars
<1>5. IsSeq(rInbox) /\ IsSeq(rAsked)
  BY DEF ReadingInv, ReadingTypes
<1>6. /\ a = rAsked[1] /\ IsSeq(rAsked') /\ Len(rAsked) \in Nat \ {0}
      /\ Len(rAsked') = Len(rAsked) - 1
      /\ \A i \in 1 .. Len(rAsked) - 1 : rAsked'[i] = rAsked[i + 1]
  BY <1>4, <1>5, SeqTail
<1> HIDE DEF m, a
<1>7. /\ IsSeq(rInbox') /\ Len(rInbox) \in Nat /\ Len(rInbox') = Len(rInbox) + 1
      /\ rInbox'[Len(rInbox) + 1] = m /\ \A i \in 1 .. Len(rInbox) : rInbox'[i] = rInbox[i]
  BY <1>3, <1>5, SeqAppend
<1>8. ReadingTypes'
  BY <1>2, <1>4, <1>6, <1>7 DEF ReadingInv, ReadingTypes
<1>9. NoReport(rInbox) => NoReport(rInbox')
  BY <1>2, <1>7 DEF NoReport
<1>10. ReadingOrder'
  BY <1>2, <1>4, <1>7, <1>9 DEF ReadingInv, ReadingOrder
<1>11. ReadingPage'
  BY <1>4 DEF ReadingInv, ReadingPage
<1>12. rStage = "up" => \A f \in Readings : Fresh(rInbox', rState', f, rTold'[f])
  BY <1>2, <1>3, <1>4, <1>5, FreshAnyway DEF ReadingInv
<1>13. ASSUME ReadingReplies PROVE ReadingReplies'
  <2>1. rAsked[Len(rAsked)] = rShown
    BY <1>4, <1>13 DEF ReadingReplies
  <2>2. ~NoReply(rInbox')
    BY <1>2, <1>7 DEF NoReply
  <2>3. CASE rAsked' = <<>>
    <3>1. Len(rAsked) = 1
      BY <1>6, <2>3, SeqNone
    <3>2. LastReply(rInbox', rShown)
      BY <1>2, <1>3, <1>5, <1>6, <2>1, <3>1, ReplyAppend
    <3> QED BY <1>4, <2>2, <2>3, <3>2 DEF ReadingReplies
  <2>4. CASE rAsked' # <<>>
    <3>1. Len(rAsked') \in 1 .. Len(rAsked) - 1
      BY <1>6, <2>4, SeqNone
    <3>2. rAsked'[Len(rAsked')] = rShown
      BY <1>6, <2>1, <3>1
    <3> QED BY <1>4, <2>4, <3>2 DEF ReadingReplies
  <2> QED BY <2>3, <2>4
<1> QED BY <1>4, <1>8, <1>10, <1>11, <1>12, <1>13 DEF ReadingInv

\* A report is sent: the subscription's reply, then the updates.
LEMMA ReadingReport ==
  ASSUME ReadingInv, rStage' = "up", rTold' = rPrinter, rAsked' = rAsked,
         UNCHANGED <<rPrinter, rState, rShown, rEstimated, rFile, rThumb, rLeft, rEta, rElapsed,
                     rLayers, rProgress, rAnswer, rLate>>,
         NEW m, rInbox' = Append(rInbox, m),
         \A f \in DOMAIN m.data : m.data[f] = rPrinter[f],
         \/ /\ m.kind = "subscription" /\ DOMAIN m.data = Readings
            /\ NoReport(rInbox) /\ DOMAIN rState = {}
         \/ /\ m.kind = "update" /\ DOMAIN m.data \subseteq Readings /\ rStage = "up"
            /\ \A f \in Readings \ DOMAIN m.data : rTold[f] = rPrinter[f]
  PROVE  ReadingInv'
<1>1. IsSeq(rInbox) /\ m.kind # "metadata" /\ IsReport(m)
  BY DEF ReadingInv, ReadingTypes, IsReport
<1>2. /\ IsSeq(rInbox') /\ Len(rInbox) \in Nat /\ Len(rInbox') = Len(rInbox) + 1
      /\ rInbox'[Len(rInbox) + 1] = m /\ \A i \in 1 .. Len(rInbox) : rInbox'[i] = rInbox[i]
  BY <1>1, SeqAppend
<1>3. ReadingTypes'
  BY <1>1, <1>2 DEF ReadingInv, ReadingTypes
<1>4. ReadingOrder'
  <2>1. CASE m.kind = "subscription"
    <3>1. \A i \in 1 .. Len(rInbox') : rInbox'[i].kind # "update"
      BY <1>2, <2>1 DEF NoReport, IsReport
    <3>2. \E i \in 1 .. Len(rInbox') : rInbox'[i].kind = "subscription"
      BY <1>2, <2>1
    <3> QED BY <3>1, <3>2 DEF ReadingOrder
  <2>2. CASE m.kind = "update"
    <3>1. rStage = "up"
      BY <2>2
    <3>2. ASSUME DOMAIN rState = {}
          PROVE  /\ \E i \in 1 .. Len(rInbox') : rInbox'[i].kind = "subscription"
                 /\ \A i \in 1 .. Len(rInbox') : rInbox'[i].kind = "update" =>
                      \E j \in 1 .. i - 1 : rInbox'[j].kind = "subscription"
      <4>1. PICK k \in 1 .. Len(rInbox) : rInbox[k].kind = "subscription"
        BY <3>1, <3>2 DEF ReadingInv, ReadingOrder
      <4>2. \A i \in 1 .. Len(rInbox) : rInbox[i].kind = "update" =>
              \E j \in 1 .. i - 1 : rInbox[j].kind = "subscription"
        BY <3>2 DEF ReadingInv, ReadingOrder
      <4>3. k \in 1 .. Len(rInbox') /\ rInbox'[k].kind = "subscription"
        BY <1>2, <4>1
      <4>4. ASSUME NEW i \in 1 .. Len(rInbox'), rInbox'[i].kind = "update"
            PROVE  \E j \in 1 .. i - 1 : rInbox'[j].kind = "subscription"
        <5>1. CASE i = Len(rInbox) + 1
          BY <1>2, <4>1, <5>1
        <5>2. CASE i \in 1 .. Len(rInbox)
          <6>1. PICK j \in 1 .. i - 1 : rInbox[j].kind = "subscription"
            BY <1>2, <4>2, <4>4, <5>2
          <6> QED BY <1>2, <5>2, <6>1
        <5> QED BY <1>2, <5>1, <5>2
      <4> QED BY <4>3, <4>4
    <3> QED BY <3>2 DEF ReadingOrder
  <2> QED BY <2>1, <2>2
<1>5. ReadingPage'
  BY DEF ReadingInv, ReadingPage
<1>6. ASSUME NEW f \in Readings PROVE Fresh(Append(rInbox, m), rState, f, rPrinter[f])
  <2>1. \/ f \in DOMAIN m.data /\ m.data[f] = rPrinter[f]
        \/ f \notin DOMAIN m.data /\ Fresh(rInbox, rState, f, rTold[f]) /\ rTold[f] = rPrinter[f]
    BY DEF ReadingInv
  <2> QED BY <1>1, <2>1, FreshReport
<1>7. ASSUME DOMAIN rState = Readings, rShown # NoPrint PROVE ReadingReplies'
  <2>1. m.kind = "update" /\ ReadingReplies
    BY <1>7 DEF ReadingInv, Readings
  <2>2. /\ NoReply(rInbox) <=> NoReply(Append(rInbox, m))
        /\ LastReply(rInbox, rShown) => LastReply(Append(rInbox, m), rShown)
    BY <1>1, ReplyAppend
  <2> QED BY <2>1, <2>2 DEF ReadingReplies
<1> QED BY <1>3, <1>4, <1>5, <1>6, <1>7 DEF ReadingInv

\* The link is lost and comes back, Moonraker answers and reports, the printer
\* goes on.
LEMMA ReadingLink ==
  ASSUME ReadingInv, R!Link \/ R!Prints
  PROVE  ReadingInv'
<1>1. UNCHANGED <<rShown, rEstimated, rFile, rThumb, rLeft, rEta, rElapsed, rLayers, rProgress,
                  rAnswer, rLate>>
  BY DEF R!Link, R!Prints, R!pageVars, R!timeVars
<1>2. rAsked' = rAsked \/ (rAsked' = <<>> /\ rStage' = "down")
  BY DEF R!Link, R!Prints
<1>3. IsSeq(rAsked')
  BY <1>2, SeqEmpty DEF ReadingInv, ReadingTypes
<1>4. CASE R!Prints
  <2>1. UNCHANGED <<rTold, rState, rStage, rInbox, rAsked>> /\ DOMAIN rPrinter' = Readings
    BY <1>4 DEF R!Prints, R!Change, PrintReports, Readings
  <2>2. ReadingTypes' /\ ReadingOrder' /\ ReadingPage'
    BY <1>1, <1>3, <2>1 DEF ReadingInv, ReadingTypes, ReadingOrder, ReadingPage
  <2> QED BY <1>1, <2>1, <2>2 DEF ReadingInv, ReadingReplies
<1>5. CASE R!Drop
  <2>1. UNCHANGED <<rPrinter, rTold, rState, rInbox>> /\ rStage' = "down"
    BY <1>5 DEF R!Drop
  <2>2. ReadingTypes' /\ ReadingOrder' /\ ReadingPage'
    BY <1>1, <1>3, <2>1 DEF ReadingInv, ReadingTypes, ReadingOrder, ReadingPage
  <2> QED BY <2>1, <2>2 DEF ReadingInv
<1>6. CASE R!Connect
  <2>1. /\ UNCHANGED <<rPrinter, rTold, rInbox>> /\ rInbox = <<>> /\ rStage' = "list"
        /\ DOMAIN rState' = {}
    BY <1>6 DEF R!Connect, R!Unknown
  <2>2. ReadingTypes' /\ ReadingOrder' /\ ReadingPage'
    BY <1>1, <1>3, <2>1
       DEF ReadingInv, ReadingTypes, ReadingOrder, ReadingPage, NoReport, Readings
  <2> QED BY <2>1, <2>2 DEF ReadingInv
<1>7. CASE R!AnswerList
  <2> DEFINE m == [kind |-> "objects", data |-> R!Unknown]
  <2>1. /\ UNCHANGED <<rPrinter, rTold, rState>> /\ rStage = "list" /\ rStage' = "listed"
        /\ rInbox' = Append(<<>>, m)
    BY <1>7 DEF R!AnswerList
  <2>2. m.kind = "objects" /\ DOMAIN m.data = {} /\ ~IsReport(m)
    BY DEF R!Unknown, IsReport
  <2> HIDE DEF m
  <2>3. IsSeq(rInbox') /\ Len(rInbox') = 1 /\ rInbox'[1] = m
    BY <2>1, SeqSingle
  <2>4. ReadingTypes'
    BY <1>1, <1>3, <2>1, <2>2, <2>3 DEF ReadingInv, ReadingTypes
  <2>5. ReadingOrder'
    BY <2>1, <2>2, <2>3 DEF ReadingInv, ReadingOrder, NoReport
  <2>6. ReadingPage'
    BY <1>1, <2>1 DEF ReadingInv, ReadingPage
  <2> QED BY <2>1, <2>4, <2>5, <2>6 DEF ReadingInv
<1>8. CASE R!AnswerSubscribe
  <2> DEFINE m == [kind |-> "subscription", data |-> rPrinter]
  <2>1. /\ UNCHANGED <<rPrinter, rState>> /\ rTold' = rPrinter /\ rStage' = "up"
        /\ rInbox' = Append(rInbox, m) /\ rStage = "subscribe"
    BY <1>8 DEF R!AnswerSubscribe
  <2>2. m.kind = "subscription" /\ m.data = rPrinter
    OBVIOUS
  <2> HIDE DEF m
  <2>3. NoReport(rInbox) /\ DOMAIN rState = {} /\ DOMAIN m.data = Readings
    BY <2>1, <2>2 DEF ReadingInv, ReadingOrder, ReadingTypes
  <2>4. rAsked' = rAsked /\ \A f \in DOMAIN m.data : m.data[f] = rPrinter[f]
    BY <1>2, <2>1, <2>2
  <2> QED BY <1>1, <2>1, <2>2, <2>3, <2>4, ReadingReport
<1>9. CASE R!SendUpdate
  <2> DEFINE m == [kind |-> "update", data |-> [f \in R!Changed |-> rPrinter[f]]]
  <2>1. /\ UNCHANGED <<rPrinter, rState>> /\ rTold' = rPrinter /\ rStage' = "up" /\ rStage = "up"
        /\ rInbox' = Append(rInbox, m)
    BY <1>9 DEF R!SendUpdate
  <2>2. /\ m.kind = "update" /\ DOMAIN m.data = R!Changed
        /\ \A f \in DOMAIN m.data : m.data[f] = rPrinter[f]
    OBVIOUS
  <2> HIDE DEF m
  <2>3. /\ DOMAIN m.data \subseteq Readings
        /\ \A f \in Readings \ DOMAIN m.data : rTold[f] = rPrinter[f]
    BY <2>2 DEF R!Changed, Readings
  <2>4. rAsked' = rAsked
    BY <1>2, <2>1
  <2> QED BY <1>1, <2>1, <2>2, <2>3, <2>4, ReadingReport
<1> QED BY <1>4, <1>5, <1>6, <1>7, <1>8, <1>9 DEF R!Link, R!Network

\* Replies come late, or not at all, and in between come other files: once
\* nothing is under way, the readings are the shown file's.
THEOREM ReadingsRight == PagesSpec => []ReadingsOfFile
<1>1. PagesInit => ReadingInv
  <2> SUFFICES ASSUME R!Init PROVE ReadingInv
    BY PagesStart
  <2>1. /\ DOMAIN rPrinter = Readings /\ DOMAIN rState = {} /\ rStage = "down" /\ rInbox = <<>>
        /\ rAsked = <<>> /\ rEstimated = NoPrint /\ rThumb = NoPrint
    BY DEF R!Init, R!FeedInit, R!Unknown, PrintReports, Readings
  <2>2. ReadingTypes /\ ReadingOrder /\ ReadingPage
    BY <2>1, SeqEmpty DEF ReadingTypes, ReadingOrder, ReadingPage, Readings
  <2> QED BY <2>1, <2>2 DEF ReadingInv
<1>2. ReadingInv /\ [PagesNext]_pagesVars => ReadingInv'
  <2> SUFFICES ASSUME ReadingInv, R!Next \/ UNCHANGED rVars PROVE ReadingInv'
    BY PageSteps
  <2>1. CASE UNCHANGED rVars
    BY <2>1 DEF rVars, ReadingInv, ReadingTypes, ReadingOrder, ReadingPage, ReadingReplies
  <2> QED BY <2>1, ReadingHandle, ReadingAnswer, ReadingLink DEF R!Next
<1>3. ReadingInv => ReadingsOfFile
  <2>1. ASSUME ReadingInv, ~rLate PROVE {rEstimated, rThumb} \subseteq {NoPrint, rShown}
    BY <2>1 DEF ReadingInv, ReadingPage
  <2>2. ASSUME ReadingInv, R!Settled, rAsked = <<>>, rShown # NoPrint
        PROVE  /\ rShown = rPrinter.file /\ rProgress = rPrinter.progress
               /\ rAnswer \in {"whole", "reported"} =>
                    /\ {rEstimated, rThumb, rFile} = {rShown}
                    /\ rElapsed = rPrinter.duration
                    /\ rLeft # R!Dots => rLeft = Estimate[rShown] - rElapsed /\ rEta = rLeft
               /\ rAnswer = "reported" => rLayers \in {Layers[rShown], rPrinter.total_layer}
    <3>1. rStage = "up" /\ rInbox = <<>> /\ rTold = rPrinter
      BY <2>2 DEF R!Settled
    <3>2. \A f \in Readings : f \in DOMAIN rState /\ rState[f] = rPrinter[f]
      BY <2>2, <3>1, FreshNow DEF ReadingInv, NoReport
    <3>3. DOMAIN rState = Readings
      BY <2>2, <3>2 DEF ReadingInv, ReadingTypes, Readings
    <3>4. ReadingReplies /\ ReadingPage /\ NoReply(rInbox)
      BY <2>2, <3>1, <3>3 DEF ReadingInv, NoReply
    <3>5. /\ rState["file"] = rPrinter.file /\ rState["progress"] = rPrinter.progress
          /\ rState["duration"] = rPrinter.duration /\ rState["total_layer"] = rPrinter.total_layer
      BY <3>2 DEF Readings
    <3> QED BY <2>2, <3>3, <3>4, <3>5 DEF ReadingReplies, ReadingPage
  <2> QED BY <2>1, <2>2 DEF ReadingsOfFile, R!ReadingsOfFile
<1> QED BY <1>1, <1>2, <1>3, PTL DEF PagesSpec
=============================================================================
