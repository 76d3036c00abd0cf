-------------------------- MODULE PreviewPaneProofs --------------------------
(***************************************************************************)
(* Proofs about PreviewPane, for any sessions and any bounds: a terminal   *)
(* that runs can be reached, and what is typed into a terminal reaches it  *)
(* in order.                                                               *)
(***************************************************************************)
EXTENDS PreviewPane, SequenceTheorems, TLAPS

(* A run of the server.                                                    *)
Run == [session : Sessions, terminal : BOOLEAN, alive : BOOLEAN]

(* What is typed has a number, and a call that sends something sends at    *)
(* least one text.                                                         *)
TextsAreNumbered ==
  /\ typed <= acts
  /\ \A k \in DOMAIN inputQueue : inputQueue[k][2] <= typed
  /\ \A c \in calls : /\ \A k \in DOMAIN c.text : c.text[k][2] <= typed
                      /\ c.kind = "input" => c.text # <<>>

(* A call is about a run, but for the one that runs code, which is of a    *)
(* session.                                                                *)
CallsAreOfRuns ==
  \A c \in calls : /\ c.kind # "run" => c.run # 0
                   /\ c.kind \in {"open", "run"} => c.session # NoSession

(* What may be stored while there are n runs: nothing, or a session with   *)
(* one of the runs or none.                                                *)
Stores(n) == [Sessions -> {<<>>} \cup (Sessions \X (0..n))]

StoredRunsExist == stored \in Stores(Len(runs))

(* Only a terminal goes on; a run that goes on is shown as running; and    *)
(* what the pane shows of its session is what is stored.                   *)
PaneIsCurrent ==
  /\ \A r \in DOMAIN runs : runs[r].alive => runs[r].terminal
  /\ Alive(result) => running
  /\ place # NoSession /\ request = place => stored[place] = <<place, result>>

(* The calls that run, restore or close, of which only one is in flight    *)
(* while no answer was crossed; and those about the terminal shown.        *)
MainKinds == {"open", "run", "restore", "drop"}
SideKinds == {"get", "stop", "input"}

MainCalls == {c \in calls : c.kind \in MainKinds}
SideCalls == {c \in calls : c.kind \in SideKinds}

(* While no answer was crossed, the dock and the calls in flight are of    *)
(* the session shown, and so are the runs they are about.                  *)
DockIsOwn ==
  /\ request \in {NoSession, place}
  /\ request = NoSession => result = 0
  /\ place # NoSession /\ request = NoSession => (stored[place] # <<>> => stored[place][2] = 0)
  /\ result # 0 => runs[result].session = place
  /\ \A s \in Sessions : stored[s] # <<>> /\ stored[s][2] # 0 =>
       stored[s][1] = s /\ runs[stored[s][2]].session = s

CallsAreOwn ==
  /\ \A c \in calls : c.kind = "drop" <=> request = NoSession
  /\ \A c \in calls : c.kind # "drop" => c.session = request
  /\ \A c \in calls : c.kind \in {"open", "restore", "get", "stop", "input"} => runs[c.run].session = place

(* The call that runs, restores or closes is alone, an old terminal that   *)
(* is to be stopped is the one shown, and nothing shown goes on once the   *)
(* code runs.                                                              *)
MainCallsAreAlone ==
  /\ \A c, d \in MainCalls : c = d
  /\ \A c \in calls : /\ c.kind = "open" => c.run = result
                      /\ c.kind = "restore" => result = 0
                      /\ c.kind = "run" => ~Alive(result)

(* The calls about the terminal shown are about one run.                   *)
SideCallsAgree ==
  /\ \A c, d \in SideCalls : c.run = d.run
  /\ \A c \in SideCalls : c.run = result \/ (result = 0 /\ MainCalls = {})

Uncrossed == DockIsOwn /\ CallsAreOwn /\ MainCallsAreAlone /\ SideCallsAgree

(* A terminal can be reached: TerminalIsKept says so of those that run.    *)
Reached(r) ==
  \/ result = r
  \/ \E c \in calls : c.run = r /\ c.kind \in {"open", "restore", "drop"}
  \/ stored[runs[r].session] = <<runs[r].session, r>>

Tidy == Uncrossed /\ \A r \in DOMAIN runs : runs[r].alive => Reached(r)

KeptInv == PaneIsCurrent /\ (~crossed => Uncrossed) /\ TerminalIsKept

(* While the run shown did not change under a text: what waits and what is *)
(* under way is of that run, newer than what was delivered, and in order.  *)
InOrder(q) == \A i, j \in DOMAIN q : i < j => q[i][2] < q[j][2]

TextsAreOfShown ==
  /\ \A k \in DOMAIN inputQueue : inputQueue[k][1] = result
  /\ \A c \in calls : c.kind = "input" => /\ c.run = result
                                          /\ \A k \in DOMAIN c.text : c.text[k][1] = result

TextsAreNew ==
  /\ InOrder(inputQueue) /\ \A k \in DOMAIN inputQueue : delivered < inputQueue[k][2]
  /\ \A c \in calls : c.kind = "input" =>
       /\ InOrder(c.text) /\ \A k \in DOMAIN c.text : delivered < c.text[k][2]
       /\ \A k \in DOMAIN c.text, j \in DOMAIN inputQueue : c.text[k][2] < inputQueue[j][2]

OneSender ==
  /\ \A c, d \in calls : c.kind = "input" /\ d.kind = "input" => c = d
  /\ \A c \in calls : c.kind = "input" => sending

Unmixed == TextsAreOfShown /\ TextsAreNew /\ OneSender

OrderInv == (~mixed => Unmixed) /\ InputInOrder

-----------------------------------------------------------------------------
(* The types.                                                              *)

Runs == Seq(Run)

(* A new call is one, about the run given.                                 *)
LEMMA NewCallIsCall ==
  ASSUME PreviewTypeOK, NEW s \in Routes, NEW r \in 0..Len(runs),
         NEW kind \in {"open", "run", "get", "restore", "input", "stop", "drop"}
  PROVE  NewCall(kind, s, r) \in Call /\ NewCall(kind, s, r).run = r /\ NewCall(kind, s, r).kind = kind
         /\ NewCall(kind, s, r).session = s /\ NewCall(kind, s, r).text = <<>>
<1>1. Alive(r) \in BOOLEAN
  BY ElementOfSeq DEF Alive, PreviewTypeOK
<1>2. <<>> \in Seq(Text)
  OBVIOUS
<1>3. r \in 0..MaxRuns
  BY PreviewAssumption DEF PreviewTypeOK
<1> HIDE DEF Text
<1> QED BY <1>1, <1>2, <1>3 DEF NewCall, Call

(* The effect that stores the preview keeps what is stored a store.        *)
LEMMA SaveKeepsStores ==
  ASSUME NEW n \in Nat, NEW st \in Stores(n), NEW p \in Routes, NEW req, NEW res \in 0..n
  PROVE  SavePreview(st, p, req, res) \in Stores(n)
<1>1. CASE p # NoSession /\ req = p
  <2>1. p \in Sessions /\ <<req, res>> \in Sessions \X (0..n)
    BY <1>1 DEF Routes
  <2> QED BY <1>1, <2>1 DEF SavePreview, Stores
<1>2. CASE ~(p # NoSession /\ req = p)
  BY <1>2 DEF SavePreview
<1> QED BY <1>1, <1>2

(* Run r ends.                                                              *)
RunEnds(r) == runs' = [runs EXCEPT ![r].alive = FALSE]

(* Runs may end, and nothing else happens to them.                         *)
OnlyEnds ==
  /\ Len(runs') = Len(runs)
  /\ \A k \in 1..Len(runs) : /\ runs'[k].session = runs[k].session
                             /\ runs'[k].terminal = runs[k].terminal
                             /\ runs'[k].alive => runs[k].alive

(* A run that ends is still a run, and the others are as they were.        *)
LEMMA EndRun ==
  ASSUME PreviewTypeOK, NEW r \in 1..Len(runs), RunEnds(r)
  PROVE  /\ runs' \in Runs /\ Len(runs') = Len(runs)
         /\ ~runs'[r].alive /\ OnlyEnds
<1>1. runs \in Seq(Run) /\ r \in 1..Len(runs)
  BY DEF PreviewTypeOK, Run
<1>2. runs[r] \in Run
  BY <1>1, ElementOfSeq
<1>3. [runs[r] EXCEPT !.alive = FALSE] \in Run
  BY <1>2 DEF Run
<1>4. runs' \in Runs /\ Len(runs') = Len(runs)
  BY <1>1, <1>3, ExceptSeq DEF Runs, RunEnds
<1>5. \A k \in 1..Len(runs) : k # r => runs'[k] = runs[k]
  BY <1>1 DEF RunEnds
<1>6. runs'[r] = [runs[r] EXCEPT !.alive = FALSE]
  <2> DEFINE e == [runs[r] EXCEPT !.alive = FALSE]
  <2>1. runs' = [runs EXCEPT ![r] = e] /\ r \in DOMAIN runs
    BY <1>1 DEF RunEnds
  <2> HIDE DEF e
  <2>2. runs'[r] = e
    BY <2>1
  <2> QED BY <2>2 DEF e
<1>7. /\ ~runs'[r].alive /\ runs'[r].session = runs[r].session
      /\ runs'[r].terminal = runs[r].terminal
  BY <1>2, <1>6 DEF Run
<1> QED BY <1>4, <1>5, <1>7 DEF OnlyEnds

(* Another run makes the list of runs longer by one.                       *)
LEMMA OneRunMore ==
  ASSUME PreviewTypeOK, NEW x \in Run
  PROVE  /\ Append(runs, x) \in Runs
         /\ Len(Append(runs, x)) = Len(runs) + 1
         /\ Len(runs) \in Nat
BY AppendProperties DEF PreviewTypeOK, Run, Runs

(* A run goes on or not.                                                   *)
LEMMA AliveIsBoolean ==
  ASSUME PreviewTypeOK, NEW r \in 0..Len(runs) PROVE Alive(r) \in BOOLEAN
BY ElementOfSeq DEF Alive, PreviewTypeOK

(* A call is answered a status.                                            *)
LEMMA StatusesAreBoolean ==
  ASSUME PreviewTypeOK, NEW c \in calls PROVE Statuses(c) \subseteq BOOLEAN
<1>1. Alive(c.run) \in BOOLEAN
  BY AliveIsBoolean DEF PreviewTypeOK, Call
<1> QED BY <1>1 DEF Statuses

(* The types of what an answer shows.                                      *)
PaneTypeOK ==
  /\ result \in 0..Len(runs) /\ running \in BOOLEAN /\ polling \in BOOLEAN /\ mixed \in BOOLEAN
  /\ StoredRunsExist

(* More runs leave what is stored as it is.                                *)
LEMMA StoresGrow ==
  ASSUME NEW n \in Nat, NEW m \in Nat, n <= m, NEW st \in Stores(n) PROVE st \in Stores(m)
<1>1. Sessions \X (0..n) \subseteq Sessions \X (0..m)
  OBVIOUS
<1> QED BY <1>1 DEF Stores

(* What an answer shows is a preview.                                      *)
LEMMA ShowResultTypes ==
  ASSUME PreviewTypeOK, StoredRunsExist, runs' \in Runs, Len(runs) <= Len(runs'),
         NEW res \in 0..Len(runs'), NEW run \in BOOLEAN, ShowResult(res, run)
  PROVE  PaneTypeOK' /\ result' = res
<1>1. Len(runs) \in Nat /\ Len(runs') \in Nat
  BY LenProperties DEF PreviewTypeOK, Runs
<1>2. stored \in Stores(Len(runs'))
  BY <1>1, StoresGrow DEF StoredRunsExist
<1>3. SavePreview(stored, place, request, res) \in Stores(Len(runs'))
  BY <1>1, <1>2, SaveKeepsStores DEF PreviewTypeOK
<1> QED BY <1>3 DEF ShowResult, PaneTypeOK, PollEffect, Mixes, PreviewTypeOK, StoredRunsExist

-----------------------------------------------------------------------------
(* Every step keeps the types and the numbers of the texts.                *)

(* What the other parts of the invariant rest on.                          *)
Base == PreviewTypeOK /\ TextsAreNumbered /\ CallsAreOfRuns /\ StoredRunsExist

(* A call there may be that sends no text.                                 *)
Plain(c) == c \in Call /\ c.run \in 0..Len(runs) /\ (c.kind # "run" => c.run # 0)
            /\ (c.kind \in {"open", "run"} => c.session # NoSession)
            /\ c.text = <<>> /\ c.kind # "input"

(* A new call that sends no text is plain.                                  *)
LEMMA PlainCall ==
  ASSUME PreviewTypeOK, NEW s \in Routes, NEW r \in 0..Len(runs),
         NEW kind \in {"open", "run", "get", "restore", "stop", "drop"}, kind # "run" => r # 0,
         s # NoSession
  PROVE  Plain(NewCall(kind, s, r))
BY NewCallIsCall DEF Plain

(* Calls that come and go leave the types as they are.                     *)
LEMMA CallsKeepBase ==
  ASSUME Base, \A c \in calls' : c \in calls \/ Plain(c),
         PaneTypeOK', place' \in Routes, request' \in Routes,
         submitting' \in BOOLEAN, view' \in {"preview", "code"}, crossed' \in BOOLEAN,
         unpolled' \in BOOLEAN,
         runs' \in Runs, Len(runs) <= Len(runs'), Len(runs') <= MaxRuns,
         acts' \in 0..MaxActs, acts <= acts',
         UNCHANGED textVars,
         sending' \in BOOLEAN, inputQueue' = inputQueue \/ inputQueue' = <<>>
  PROVE  Base'
<1> USE DEF Base
<1>1. inputQueue' \in Seq(Text) /\ \A k \in DOMAIN inputQueue' : inputQueue'[k][2] <= typed
  <2>1. CASE inputQueue' = inputQueue
    BY <2>1 DEF PreviewTypeOK, TextsAreNumbered
  <2>2. CASE inputQueue' = <<>>
    <3> HIDE DEF Text
    <3> QED BY <2>2
  <2> QED BY <2>1, <2>2
<1>2. \A c \in calls' : /\ c \in Call /\ c.run <= Len(runs)
                        /\ \A k \in DOMAIN c.text : c.text[k][2] <= typed
                        /\ c.kind = "input" => c.text # <<>>
                        /\ c.kind # "run" => c.run # 0
                        /\ c.kind \in {"open", "run"} => c.session # NoSession
  BY DEF PreviewTypeOK, TextsAreNumbered, CallsAreOfRuns, Plain
<1>3. \A c \in calls' : c.run <= Len(runs')
  BY <1>2, PreviewAssumption DEF Call, PreviewTypeOK, Runs
<1>4. stored' \in Stores(MaxRuns) /\ Len(runs') \in Nat
  BY StoresGrow, LenProperties, PreviewAssumption DEF PaneTypeOK, StoredRunsExist, Runs
<1> HIDE DEF Text, Call
<1> QED BY <1>1, <1>2, <1>3, <1>4, PreviewAssumption
        DEF PreviewTypeOK, TextsAreNumbered, CallsAreOfRuns, textVars, PaneTypeOK, StoredRunsExist, Stores,
                Runs, Run

(* Running code shows the run that is kept, or none.                       *)
LEMMA OpenKeepsBase ==
  ASSUME Base, NEW s \in Routes, s # NoSession, NEW keep \in BOOLEAN, NEW other \in BOOLEAN,
         NEW v \in {"preview", "code"}, NEW others \in SUBSET calls, Open(s, keep, other, v, others),
         runs' \in Runs, Len(runs') = Len(runs), acts' \in 0..MaxActs, acts <= acts',
         crossed' \in BOOLEAN, UNCHANGED <<place, inputQueue, sending, textVars, unpolled>>
  PROVE  Base'
<1> USE DEF Base
<1>1. Plain(NewCall("run", s, 0))
  BY PlainCall, 0 \in 0..Len(runs) DEF PreviewTypeOK
<1>2. \A c \in calls' : c \in calls \/ Plain(c)
  BY <1>1 DEF Open
<1>3. result' \in 0..Len(runs) /\ Len(runs) \in Nat
  BY LenProperties DEF Open, PreviewTypeOK
<1>4. stored' \in Stores(Len(runs))
  BY <1>3, SaveKeepsStores DEF Open, PreviewTypeOK, StoredRunsExist
<1>5. running' \in BOOLEAN /\ polling' \in BOOLEAN /\ mixed' \in BOOLEAN
  BY DEF Open, PollEffect, Mixes, PreviewTypeOK
<1>6. PaneTypeOK' /\ view' \in {"preview", "code"} /\ request' \in Routes /\ submitting' \in BOOLEAN
  BY <1>3, <1>4, <1>5 DEF Open, PaneTypeOK, PreviewTypeOK, StoredRunsExist
<1>7. Len(runs') <= MaxRuns /\ place' \in Routes /\ sending' \in BOOLEAN /\ unpolled' \in BOOLEAN
      /\ Len(runs) <= Len(runs')
  BY <1>3, PreviewAssumption DEF PreviewTypeOK
<1> QED BY <1>2, <1>6, <1>7, CallsKeepBase

(* Running code first stops a terminal that runs.                          *)
LEMMA ExecuteKeepsBase ==
  ASSUME Base, NEW s \in Routes, s # NoSession, NEW keep \in BOOLEAN, NEW other \in BOOLEAN,
         NEW v \in {"preview", "code"}, ExecutePreviewRequest(s, keep, other, v),
         acts' \in 0..MaxActs, acts <= acts',
         UNCHANGED <<place, inputQueue, sending, textVars, runs, unpolled>>
  PROVE  Base'
<1> USE DEF Base
<1>1. crossed' \in BOOLEAN /\ runs' \in Runs /\ Len(runs') = Len(runs)
  BY DEF ExecutePreviewRequest, PreviewTypeOK, Runs, Run
<1>2. CASE request # NoSession /\ IsTerminal(result) /\ running
  <2> DEFINE c == NewCall("open", s, result)
             d == [c EXCEPT !.keep = keep, !.other = other]
  <2>1. Plain(c)
    BY <1>2, PlainCall DEF IsTerminal, PreviewTypeOK
  <2>2. Plain(d)
    BY <2>1 DEF Plain, Call
  <2>3. calls' = calls \cup {d} /\ view' = v
    BY <1>2 DEF ExecutePreviewRequest
  <2> HIDE DEF c, d
  <2>4. PaneTypeOK' /\ Len(runs) <= Len(runs') /\ Len(runs') <= MaxRuns
    BY <1>2, PreviewAssumption DEF ExecutePreviewRequest, PaneTypeOK, PreviewTypeOK, StoredRunsExist
  <2>5. place' \in Routes /\ request' \in Routes /\ submitting' \in BOOLEAN /\ sending' \in BOOLEAN
        /\ unpolled' \in BOOLEAN
    BY <1>2 DEF ExecutePreviewRequest, PreviewTypeOK
  <2> QED BY <1>1, <2>2, <2>3, <2>4, <2>5, CallsKeepBase
<1>3. CASE ~(request # NoSession /\ IsTerminal(result) /\ running)
  BY <1>1, <1>3, OpenKeepsBase DEF ExecutePreviewRequest
<1> QED BY <1>2, <1>3

(* What the server delivers is one of the texts typed.                     *)
LEMMA DeliverTypes ==
  ASSUME Base, NEW c \in calls, c.kind = "input", Deliver(c.run, c.text)
  PROVE  delivered' \in 0..typed /\ misled' \in BOOLEAN
<1>1. c.text \in Seq(Text) /\ c.text # <<>> /\ \A k \in DOMAIN c.text : c.text[k][2] <= typed
  BY DEF Base, PreviewTypeOK, TextsAreNumbered, CallsAreOfRuns, Call
<1>2. Len(c.text) \in DOMAIN c.text /\ Last(c.text) \in Text
  BY <1>1, ElementOfSeq, EmptySeq, LenProperties DEF Last
<1>3. Last(c.text)[2] \in 1..MaxActs /\ Last(c.text)[2] <= typed
  BY <1>1, <1>2 DEF Last, Text
<1>4. delivered' \in 0..typed
  BY <1>3, PreviewAssumption DEF Deliver, Base, PreviewTypeOK
<1>5. misled' \in BOOLEAN
  BY DEF Deliver, Base, PreviewTypeOK
<1> QED BY <1>4, <1>5

(* Every answer keeps the types.                                           *)
LEMMA AnswerKeepsBase ==
  ASSUME Base, Answer PROVE Base'
<1> USE DEF Base
<1>a. runs \in Runs /\ Len(runs) \in 0..MaxRuns /\ Len(runs) \in Nat /\ 0 \in 0..Len(runs)
  BY LenProperties, PreviewAssumption DEF PreviewTypeOK, Runs, Run
<1>b. UNCHANGED <<acts, unpolled>> /\ acts' \in 0..MaxActs /\ acts <= acts' /\ unpolled' \in BOOLEAN
  BY PreviewAssumption DEF Answer, PreviewTypeOK
<1>c. ASSUME NEW r \in 1..Len(runs), RunEnds(r) PROVE runs' \in Runs /\ Len(runs') = Len(runs)
  BY <1>c, EndRun
<1>d. ASSUME NEW c \in calls
      PROVE  /\ c \in Call /\ c.run \in 0..Len(runs) /\ c.run \in 0..MaxRuns /\ c.session \in Routes
             /\ c.keep \in BOOLEAN /\ c.other \in BOOLEAN
             /\ c.kind # "run" => c.run \in 1..Len(runs)
             /\ c.kind \in {"open", "run"} => c.session # NoSession
  BY <1>a DEF PreviewTypeOK, CallsAreOfRuns, Call
<1>1. ASSUME NEW c \in calls, OldTerminalStopped(c) PROVE Base'
  <2>1. runs' \in Runs /\ Len(runs') = Len(runs) /\ crossed' \in BOOLEAN
    BY <1>1, <1>a, <1>c, <1>d DEF OldTerminalStopped, RunEnds, PreviewTypeOK
  <2>2. view \in {"preview", "code"} /\ calls \ {c} \in SUBSET calls
    BY DEF PreviewTypeOK
  <2> QED BY <1>1, <1>b, <1>d, <2>1, <2>2, OpenKeepsBase DEF OldTerminalStopped
<1>2. ASSUME NEW c \in calls, RunAnswered(c) PROVE Base'
  <2>1. PICK t \in BOOLEAN : /\ runs' = Append(runs, [session |-> c.session, terminal |-> t, alive |-> t])
                             /\ ShowResult(Len(runs) + 1, t)
    BY <1>2 DEF RunAnswered
  <2>2. c.session \in Sessions
    BY <1>2, <1>d DEF RunAnswered, Routes
  <2>3. [session |-> c.session, terminal |-> t, alive |-> t] \in Run
    BY <2>2 DEF Run
  <2>4. runs' \in Runs /\ Len(runs') = Len(runs) + 1
    BY <2>1, <2>3, OneRunMore
  <2>5. PaneTypeOK' /\ result' = Len(runs) + 1
    BY <1>2, <1>a, <2>1, <2>4, ShowResultTypes DEF RunAnswered
  <2>6. /\ submitting' \in BOOLEAN /\ crossed' \in BOOLEAN /\ place' \in Routes /\ request' \in Routes
        /\ view' \in {"preview", "code"} /\ sending' \in BOOLEAN /\ inputQueue' = inputQueue
        /\ UNCHANGED textVars /\ \A x \in calls' : x \in calls
    BY <1>2 DEF RunAnswered, PreviewTypeOK
  <2>7. result' <= Len(runs') /\ Len(runs) <= Len(runs') /\ Len(runs') <= MaxRuns
    BY <1>2, <1>a, <2>4, <2>5, PreviewAssumption DEF RunAnswered
  <2> QED BY <1>b, <2>4, <2>5, <2>6, <2>7, CallsKeepBase
<1>3. ASSUME NEW c \in calls, RunFails(c) PROVE Base'
  <2>a. runs' = runs /\ ShowResult(0, FALSE)
    BY <1>3 DEF RunFails
  <2>b. 0 \in 0..Len(runs') /\ runs' \in Runs /\ Len(runs) <= Len(runs')
    BY <1>a, <2>a
  <2>1. PaneTypeOK' /\ result' = 0
    BY <2>a, <2>b, ShowResultTypes
  <2>2. /\ submitting' \in BOOLEAN /\ crossed' \in BOOLEAN /\ place' \in Routes /\ request' \in Routes
        /\ view' \in {"preview", "code"} /\ sending' \in BOOLEAN /\ inputQueue' = inputQueue
        /\ UNCHANGED <<textVars, runs>> /\ \A x \in calls' : x \in calls
    BY <1>3 DEF RunFails, PreviewTypeOK
  <2> QED BY <1>a, <1>b, <2>1, <2>2, CallsKeepBase
<1>4. ASSUME NEW c \in calls, ResultArrives(c) PROVE Base'
  <2>1. PICK alive \in BOOLEAN : ShowResult(c.run, alive)
    BY <1>4, StatusesAreBoolean DEF ResultArrives
  <2>2. runs' \in Runs /\ Len(runs') = Len(runs)
    BY <1>4, <1>a, <1>c, <1>d DEF ResultArrives, RunEnds
  <2>3. PaneTypeOK' /\ result' = c.run
    BY <1>a, <1>d, <2>1, <2>2, ShowResultTypes
  <2> QED BY <1>4, <1>a, <1>b, <1>d, <2>2, <2>3, CallsKeepBase, PreviewAssumption
      DEF ResultArrives, PreviewTypeOK
<1>5. ASSUME NEW c \in calls, RestoreFails(c) PROVE Base'
  <2>1. stored' \in Stores(Len(runs))
    BY <1>5 DEF RestoreFails, StoredRunsExist, Stores
  <2>2. PaneTypeOK' /\ result' = 0 /\ request' \in Routes /\ submitting' \in BOOLEAN
    <3>1. mixed' \in BOOLEAN
      BY <1>5 DEF RestoreFails, ResetPreviewState, Mixes, PreviewTypeOK
    <3> QED BY <1>5, <1>a, <2>1, <3>1 DEF RestoreFails, ResetPreviewState, PaneTypeOK, StoredRunsExist, Routes
  <2> QED BY <1>5, <1>a, <1>b, <2>2, CallsKeepBase, PreviewAssumption DEF RestoreFails, PreviewTypeOK
<1>6. ASSUME NEW c \in calls, CallFails(c) PROVE Base'
  <2>1. PaneTypeOK'
    BY <1>6, PreviewAssumption DEF CallFails, PaneTypeOK, PreviewTypeOK, StoredRunsExist, paneVars, termVars
  <2> QED BY <1>6, <1>a, <1>b, <2>1, CallsKeepBase, PreviewAssumption
          DEF CallFails, PreviewTypeOK, paneVars, termVars
<1>7. ASSUME NEW c \in calls, ClosedTerminalStopped(c) PROVE Base'
  <2>1. PaneTypeOK'
    BY <1>7, PreviewAssumption
        DEF ClosedTerminalStopped, PaneTypeOK, PreviewTypeOK, StoredRunsExist, paneVars, termVars
  <2>2. runs' \in Runs /\ Len(runs') = Len(runs)
    BY <1>7, <1>c, <1>d DEF ClosedTerminalStopped, RunEnds
  <2> QED BY <1>7, <1>a, <1>b, <2>1, <2>2, CallsKeepBase, PreviewAssumption
          DEF ClosedTerminalStopped, PreviewTypeOK, paneVars, termVars
<1>8. ASSUME NEW c \in calls, InputSent(c) PROVE Base'
  <2>1. PICK alive \in BOOLEAN : ShowResult(c.run, alive)
    BY <1>8, StatusesAreBoolean DEF InputSent
  <2>2. PaneTypeOK' /\ result' = c.run
    BY <1>8, <1>a, <1>d, <2>1, ShowResultTypes DEF InputSent
  <2>3. delivered' \in 0..typed /\ misled' \in BOOLEAN
    BY <1>8, DeliverTypes DEF InputSent
  <2> DEFINE d == [c EXCEPT !.text = inputQueue, !.alive = Alive(c.run)]
  <2>4. Alive(c.run) \in BOOLEAN /\ inputQueue \in Seq(Text)
    BY <1>d, AliveIsBoolean DEF PreviewTypeOK
  <2>5. d \in Call /\ d.run = c.run /\ d.text = inputQueue /\ d.kind = c.kind /\ d.session = c.session
    <3> HIDE DEF Text
    <3> QED BY <1>d, <2>4 DEF Call
  <2>6. \A x \in calls' : x \in calls \/ (x = d /\ inputQueue # <<>>)
    BY <1>8 DEF InputSent
  <2> HIDE DEF d
  <2>7. \A x \in calls' : /\ x \in Call /\ x.run <= Len(runs)
                          /\ \A k \in DOMAIN x.text : x.text[k][2] <= typed
                          /\ x.kind = "input" => x.text # <<>>
                          /\ x.kind # "run" => x.run # 0
                          /\ x.kind \in {"open", "run"} => x.session # NoSession
    <3> HIDE DEF Text, Call
    <3> QED BY <1>8, <1>d, <2>5, <2>6 DEF PreviewTypeOK, TextsAreNumbered, CallsAreOfRuns, InputSent
  <2>8. inputQueue' \in Seq(Text) /\ DOMAIN inputQueue' = {}
    <3> HIDE DEF Text
    <3> QED BY <1>8 DEF InputSent
  <2>9. stored' \in Stores(MaxRuns) /\ UNCHANGED runs
    BY <1>8, <1>a, <2>2, StoresGrow, PreviewAssumption DEF InputSent, PaneTypeOK, StoredRunsExist
  <2> HIDE DEF Text, Call
  <2> QED BY <1>8, <1>a, <1>b, <1>d, <2>2, <2>3, <2>7, <2>8, <2>9
          DEF InputSent, PreviewTypeOK, TextsAreNumbered, CallsAreOfRuns, PaneTypeOK, StoredRunsExist, Stores
<1>9. ASSUME NEW c \in calls, InputFails(c) PROVE Base'
  <2>1. delivered' \in 0..typed /\ misled' \in BOOLEAN
    BY <1>9, DeliverTypes DEF InputFails, PreviewTypeOK
  <2> HIDE DEF Text, Call
  <2> QED BY <1>9, <1>b, <2>1
      DEF InputFails, PreviewTypeOK, TextsAreNumbered, CallsAreOfRuns, StoredRunsExist, paneVars
<1>10. ASSUME TerminalEnds PROVE Base'
  <2>1. PaneTypeOK'
    BY <1>10, PreviewAssumption
        DEF TerminalEnds, PaneTypeOK, PreviewTypeOK, StoredRunsExist, paneVars, termVars
  <2>2. runs' \in Runs /\ Len(runs') = Len(runs)
    <3>1. PICK r \in DOMAIN runs : RunEnds(r)
      BY <1>10 DEF TerminalEnds, RunEnds
    <3> QED BY <1>a, <1>c, <3>1 DEF Runs
  <2> QED BY <1>10, <1>a, <1>b, <2>1, <2>2, CallsKeepBase, PreviewAssumption
          DEF TerminalEnds, PreviewTypeOK, paneVars, termVars
<1> QED BY <1>1, <1>2, <1>3, <1>4, <1>5, <1>6, <1>7, <1>8, <1>9, <1>10 DEF Answer

(* A text typed has a number of its own.                                   *)
LEMMA InputKeepsBase ==
  ASSUME Base, HandleSendPreviewTerminalInput, TerminalShown, acts < MaxActs, acts' = acts + 1,
         UNCHANGED unpolled
  PROVE  Base'
<1> USE DEF Base
<1> DEFINE q == Append(inputQueue, <<result, typed + 1>>)
           c == NewCall("input", request, result)
           d == [c EXCEPT !.text = q]
<1>1. typed + 1 \in 1..MaxActs /\ result \in 1..MaxRuns /\ acts' \in 0..MaxActs
  BY PreviewAssumption DEF PreviewTypeOK, TextsAreNumbered, TerminalShown, IsTerminal
<1>2. q \in Seq(Text) /\ q # <<>> /\ \A k \in DOMAIN q : q[k][2] <= typed + 1
  <2>1. <<result, typed + 1>> \in Text /\ inputQueue \in Seq(Text)
    BY <1>1 DEF Text, PreviewTypeOK
  <2>2. /\ q \in Seq(Text) /\ Len(q) = Len(inputQueue) + 1 /\ q[Len(q)] = <<result, typed + 1>>
        /\ \A k \in 1..Len(inputQueue) : q[k] = inputQueue[k]
    BY <2>1, AppendProperties
  <2>3. \A k \in 1..Len(inputQueue) : inputQueue[k][2] <= typed + 1
    <3> SUFFICES ASSUME NEW k \in 1..Len(inputQueue) PROVE inputQueue[k][2] <= typed + 1
      OBVIOUS
    <3>1. inputQueue[k] \in Text /\ k \in DOMAIN inputQueue
      BY <2>1, ElementOfSeq
    <3>2. inputQueue[k][2] \in 1..MaxActs /\ inputQueue[k][2] <= typed
      BY <3>1 DEF Text, TextsAreNumbered
    <3> QED BY <3>2, PreviewAssumption DEF PreviewTypeOK
  <2>4. DOMAIN q = 1..(Len(inputQueue) + 1) /\ Len(inputQueue) \in Nat
    BY <2>1, <2>2, LenProperties
  <2>5. q[Len(inputQueue) + 1][2] <= typed + 1
    BY <1>1, <2>2
  <2> HIDE DEF q, Text
  <2>6. \A k \in DOMAIN q : q[k][2] <= typed + 1
    BY <2>2, <2>3, <2>4, <2>5
  <2> QED BY <2>2, <2>4, <2>6, EmptySeq
<1>3. d \in Call /\ d.run = result /\ d.kind = "input" /\ d.text = q
  <2>1. c \in Call /\ c.run = result /\ c.kind = "input"
    BY NewCallIsCall DEF PreviewTypeOK
  <2> HIDE DEF c, q, Text
  <2> QED BY <1>2, <2>1 DEF Call
<1>4. \A x \in calls' : x \in calls \/ x = d
  BY DEF HandleSendPreviewTerminalInput, FlushPreviewTerminalInputQueue
<1>5. /\ typed' = typed + 1 /\ sending' \in BOOLEAN
      /\ UNCHANGED <<place, request, result, running, submitting, polling, view, delivered, misled, stored,
                     runs, crossed, mixed>>
  BY DEF HandleSendPreviewTerminalInput, FlushPreviewTerminalInputQueue, paneVars, PreviewTypeOK
<1>6. inputQueue' = q \/ inputQueue' = <<>>
  BY DEF HandleSendPreviewTerminalInput, FlushPreviewTerminalInputQueue
<1> HIDE DEF c, d, q
<1>7. inputQueue' \in Seq(Text) /\ \A k \in DOMAIN inputQueue' : inputQueue'[k][2] <= typed'
  <2>1. CASE inputQueue' = q
    BY <1>2, <1>5, <2>1
  <2>2. CASE inputQueue' = <<>>
    <3> HIDE DEF Text
    <3> QED BY <2>2
  <2> QED BY <1>6, <2>1, <2>2
<1>8. \A x \in calls : /\ x.text \in Seq(Text)
                       /\ \A k \in DOMAIN x.text : x.text[k][2] <= typed'
  <2> SUFFICES ASSUME NEW x \in calls, NEW k \in DOMAIN x.text
               PROVE  x.text \in Seq(Text) /\ x.text[k][2] <= typed'
    BY DEF PreviewTypeOK, Call
  <2>1. x.text \in Seq(Text) /\ x.text[k] \in Text /\ x.text[k][2] <= typed
    BY ElementOfSeq DEF PreviewTypeOK, Call, TextsAreNumbered
  <2> QED BY <1>1, <1>5, <2>1, PreviewAssumption DEF Text, PreviewTypeOK
<1>9. \A x \in calls' : /\ x \in Call /\ x.run <= Len(runs)
                        /\ \A k \in DOMAIN x.text : x.text[k][2] <= typed'
                        /\ x.kind = "input" => x.text # <<>>
                        /\ x.kind # "run" => x.run # 0
                        /\ x.kind \in {"open", "run"} => x.session # NoSession
  <2> HIDE DEF Text, Call
  <2> QED BY <1>1, <1>2, <1>3, <1>4, <1>5, <1>8
      DEF PreviewTypeOK, TextsAreNumbered, CallsAreOfRuns, StoredRunsExist
<1>10. typed' \in 0..MaxActs /\ delivered' \in 0..typed' /\ typed' <= acts'
  BY <1>1, <1>5, PreviewAssumption DEF PreviewTypeOK, TextsAreNumbered
<1> HIDE DEF Text, Call
<1> QED BY <1>1, <1>5, <1>7, <1>9, <1>10 DEF PreviewTypeOK, TextsAreNumbered, CallsAreOfRuns, StoredRunsExist

(* Whatever the user does keeps the types.                                 *)
LEMMA ActKeepsBase ==
  ASSUME Base, Act PROVE Base'
<1> USE DEF Base
<1>a. acts < MaxActs /\ acts' = acts + 1 /\ acts' \in 0..MaxActs /\ acts <= acts' /\ UNCHANGED unpolled
      /\ unpolled' \in BOOLEAN
  BY PreviewAssumption DEF Act, PreviewTypeOK
<1>b. runs \in Runs /\ Len(runs) \in Nat /\ Len(runs) <= MaxRuns /\ 0 \in 0..Len(runs)
    /\ result \in 0..Len(runs)
  BY PreviewAssumption DEF PreviewTypeOK, Runs, Run
<1>c. ASSUME NEW v \in {"preview", "code"}, request # NoSession, HandleRunPreviewCode(v) PROVE Base'
  BY <1>a, <1>c, ExecuteKeepsBase DEF HandleRunPreviewCode, PreviewTypeOK
<1>d. ASSUME NEW kind \in {"get", "stop", "drop", "restore"}, NEW s \in Routes, s # NoSession,
             NEW r \in 1..Len(runs)
      PROVE  Plain(NewCall(kind, s, r))
  BY <1>b, <1>d, PlainCall
<1>1. ASSUME HandleRequestPreview PROVE Base'
  BY <1>1, <1>a, ExecuteKeepsBase DEF HandleRequestPreview, PreviewTypeOK
<1>2. ASSUME HandleRunDraftCode PROVE Base'
  BY <1>2, <1>c DEF HandleRunDraftCode, PreviewTypeOK
<1>3. ASSUME HandleSwitchView PROVE Base'
  <2>1. PICK v \in {"preview", "code"} :
          \/ HandleRunPreviewCode(v)
          \/ view' = v /\ UNCHANGED <<paneVars, calls, termVars, stored, runs, crossed>>
    BY <1>3 DEF HandleSwitchView
  <2>2. CASE HandleRunPreviewCode(v)
    BY <1>3, <1>c, <2>2 DEF HandleSwitchView
  <2>3. CASE view' = v /\ UNCHANGED <<paneVars, calls, termVars, stored, runs, crossed>>
    <3> HIDE DEF Text, Call
    <3> QED BY <1>a, <2>3, PreviewAssumption
        DEF PreviewTypeOK, TextsAreNumbered, CallsAreOfRuns, StoredRunsExist, paneVars, termVars, textVars
  <2> QED BY <2>1, <2>2, <2>3
<1>4. ASSUME NEW kind \in {"get", "stop"}, request # NoSession, IsTerminal(result),
             calls' = calls \cup {NewCall(kind, request, result)},
             UNCHANGED <<paneVars, view, termVars, stored, runs, crossed>>
      PROVE  Base'
  <2>1. Plain(NewCall(kind, request, result))
    BY <1>4, <1>b, <1>d DEF IsTerminal, PreviewTypeOK
  <2>2. PaneTypeOK'
    BY <1>4, <1>b, PreviewAssumption DEF PaneTypeOK, PreviewTypeOK, StoredRunsExist, paneVars, termVars
  <2>3. /\ place' \in Routes /\ request' \in Routes /\ submitting' \in BOOLEAN /\ crossed' \in BOOLEAN
        /\ view' \in {"preview", "code"} /\ sending' \in BOOLEAN /\ inputQueue' = inputQueue
        /\ UNCHANGED <<textVars, runs>>
    BY <1>4 DEF PreviewTypeOK, paneVars, termVars
  <2> HIDE DEF Base
  <2> QED BY <1>4, <1>a, <1>b, <2>1, <2>2, <2>3, CallsKeepBase DEF Base
<1>5. ASSUME HandleResizePreviewTerminal PROVE Base'
  BY <1>5, <1>4 DEF HandleResizePreviewTerminal, TerminalShown, GetRun
<1>6. ASSUME HandleRefreshPreviewDock PROVE Base'
  <2>1. CASE IsTerminal(result) /\ GetRun
    BY <1>6, <1>4, <2>1 DEF HandleRefreshPreviewDock, GetRun
  <2>2. CASE ExecutePreviewRequest(request, TRUE, FALSE, view)
             /\ UNCHANGED <<place, inputQueue, sending, textVars, runs>>
    BY <1>6, <1>a, <2>2, ExecuteKeepsBase DEF HandleRefreshPreviewDock, PreviewTypeOK
  <2> QED BY <1>6, <2>1, <2>2 DEF HandleRefreshPreviewDock
<1>7. ASSUME HandleTerminatePreviewTerminal PROVE Base'
  BY <1>7, <1>4 DEF HandleTerminatePreviewTerminal, TerminalShown
<1>8. ASSUME SendData \/ HandleSubmit PROVE Base'
  BY <1>8, <1>a, InputKeepsBase DEF SendData, HandleSubmit
<1>9. ASSUME HandleClosePreviewDock PROVE Base'
  <2>1. stored' \in Stores(Len(runs)) /\ mixed' \in BOOLEAN
    BY <1>9 DEF HandleClosePreviewDock, ResetPreviewState, Mixes, PreviewTypeOK, StoredRunsExist, Stores
  <2>2. PaneTypeOK' /\ result' = 0 /\ request' \in Routes /\ submitting' \in BOOLEAN
    BY <1>9, <1>b, <2>1 DEF HandleClosePreviewDock, ResetPreviewState, PaneTypeOK, StoredRunsExist, Routes
  <2>3. \A c \in calls' : c \in calls \/ Plain(c)
    BY <1>9, <1>b, <1>d DEF HandleClosePreviewDock, IsTerminal, PreviewTypeOK
  <2>4. /\ place' \in Routes /\ crossed' \in BOOLEAN
        /\ view' \in {"preview", "code"} /\ sending' \in BOOLEAN /\ inputQueue' = inputQueue
        /\ UNCHANGED <<textVars, runs>>
    BY <1>9 DEF HandleClosePreviewDock, PreviewTypeOK
  <2> QED BY <1>a, <1>b, <2>2, <2>3, <2>4, CallsKeepBase
<1>10. ASSUME ShowAnotherPreview PROVE Base'
  <2>1. PICK s \in Routes \ {place} : RestorePreview(s)
    BY <1>10 DEF ShowAnotherPreview
  <2> DEFINE st == SavePreview(stored, s, request, result)
             own == s # NoSession /\ stored[s] # <<>> /\ stored[s][2] # 0
  <2>2. st \in Stores(Len(runs)) /\ mixed' \in BOOLEAN
    BY <2>1, <1>b, SaveKeepsStores, PreviewAssumption
        DEF RestorePreview, Mixes, PreviewTypeOK, StoredRunsExist, Stores
  <2>3. SavePreview(st, s, s, 0) \in Stores(Len(runs))
    BY <2>2, <1>b, SaveKeepsStores
  <2>4. stored' \in Stores(Len(runs))
    BY <2>1, <2>2, <2>3 DEF RestorePreview
  <2>5. PaneTypeOK' /\ result' = 0 /\ request' \in Routes /\ submitting' \in BOOLEAN
    BY <1>10, <2>1, <2>2, <2>4, <1>b
        DEF ShowAnotherPreview, RestorePreview, PaneTypeOK, StoredRunsExist, Routes
  <2>6. \A c \in calls' : c \in calls \/ Plain(c)
    <3>1. CASE own
      <4>1. s \in Sessions /\ stored[s][2] \in 1..Len(runs)
        BY <3>1, <1>b DEF Routes, StoredRunsExist, Stores, PreviewTypeOK
      <4>2. calls' = calls \cup {NewCall("restore", s, stored[s][2])}
        BY <2>1, <3>1 DEF RestorePreview
      <4> QED BY <1>d, <3>1, <4>1, <4>2
    <3>2. CASE ~own
      BY <2>1, <3>2 DEF RestorePreview
    <3> QED BY <3>1, <3>2
  <2>7. /\ place' \in Routes /\ crossed' \in BOOLEAN
        /\ view' \in {"preview", "code"} /\ sending' \in BOOLEAN /\ inputQueue' = <<>>
        /\ UNCHANGED <<textVars, runs>>
    BY <1>10, <2>1 DEF RestorePreview, ShowAnotherPreview, PreviewTypeOK
  <2> QED BY <1>a, <1>b, <2>5, <2>6, <2>7, CallsKeepBase
<1> QED BY <1>a, <1>1, <1>2, <1>3, <1>5, <1>6, <1>7, <1>8, <1>9, <1>10 DEF Act

(* A poll keeps the types.                                                 *)
LEMMA PollKeepsBase ==
  ASSUME Base, Poll \/ (PollFails /\ UNCHANGED acts) PROVE Base'
<1> USE DEF Base
<1>1. ASSUME Poll PROVE Base'
  <2>1. result \in 0..Len(runs) /\ runs \in Runs /\ Len(runs) \in Nat /\ Alive(result) \in BOOLEAN
    BY AliveIsBoolean, LenProperties DEF PreviewTypeOK, Runs, Run
  <2>2. PaneTypeOK' /\ result' = result
    BY <1>1, <2>1, ShowResultTypes DEF Poll, PollPreviewRun, textVars
  <2>3. stored' \in Stores(MaxRuns) /\ UNCHANGED runs
    BY <1>1, <2>1, <2>2, StoresGrow, PreviewAssumption
       DEF Poll, PollPreviewRun, PaneTypeOK, StoredRunsExist, PreviewTypeOK
  <2> HIDE DEF Text, Call
  <2> QED BY <1>1, <2>2, <2>3
          DEF Poll, PollPreviewRun, PreviewTypeOK, TextsAreNumbered, CallsAreOfRuns, StoredRunsExist, Stores,
              PaneTypeOK, textVars
<1>2. ASSUME PollFails, UNCHANGED acts PROVE Base'
  <2> HIDE DEF Text, Call
  <2> QED BY <1>2 DEF PollFails, PreviewTypeOK, TextsAreNumbered, CallsAreOfRuns, StoredRunsExist,
          termVars, textVars
<1> QED BY <1>1, <1>2

-----------------------------------------------------------------------------
(* What the pane shows is current.                                         *)

(* A run that ends, or none, is all that happens to the runs.              *)
LEMMA EndOnlyEnds ==
  ASSUME Base, UNCHANGED runs \/ \E r \in 1..Len(runs) : RunEnds(r) PROVE OnlyEnds
<1>1. CASE UNCHANGED runs
  BY <1>1 DEF OnlyEnds
<1>2. ASSUME NEW r \in 1..Len(runs), RunEnds(r) PROVE OnlyEnds
  BY <1>2, EndRun DEF Base
<1> QED BY <1>1, <1>2

(* A call about a run is about one there is.                               *)
LEMMA CallsAreCalls ==
  ASSUME Base, NEW c \in calls
  PROVE  /\ c \in Call /\ c.run \in 0..Len(runs) /\ c.session \in Routes
         /\ c.keep \in BOOLEAN /\ c.other \in BOOLEAN
         /\ c.kind # "run" => c.run \in 1..Len(runs)
         /\ c.kind \in {"open", "run"} => c.session # NoSession
         /\ runs \in Runs /\ Len(runs) \in Nat /\ DOMAIN runs = 1..Len(runs)
         /\ result \in 0..Len(runs)
BY LenProperties DEF Base, PreviewTypeOK, CallsAreOfRuns, Call, Runs, Run

(* A run is of a session.                                                  *)
LEMMA RunsAreOfSessions ==
  ASSUME Base PROVE \A r \in DOMAIN runs : runs[r].session \in Sessions
<1> SUFFICES ASSUME NEW r \in DOMAIN runs PROVE runs[r].session \in Sessions
  OBVIOUS
<1>1. runs \in Seq(Run) /\ r \in 1..Len(runs)
  BY DEF Base, PreviewTypeOK, Run
<1>2. runs[r] \in Run
  BY <1>1, ElementOfSeq
<1> QED BY <1>2 DEF Run

(* Only the answer to a call that runs code starts a run.                  *)
LEMMA StepsOnlyEndRuns ==
  ASSUME Base, PreviewNext PROVE OnlyEnds \/ \E c \in calls : RunAnswered(c)
<1>a. \A r \in DOMAIN runs : r \in 1..Len(runs)
  BY DEF Base, PreviewTypeOK
<1>1. ASSUME Act PROVE UNCHANGED runs
  BY <1>1 DEF Act, HandleRequestPreview, HandleRunDraftCode, HandleSwitchView, HandleRefreshPreviewDock,
     HandleRunPreviewCode, HandleResizePreviewTerminal, GetRun, HandleTerminatePreviewTerminal, SendData,
     HandleSubmit, HandleSendPreviewTerminalInput, HandleClosePreviewDock, ShowAnotherPreview
<1>2. ASSUME NEW c \in calls, \/ OldTerminalStopped(c) \/ RunFails(c) \/ ResultArrives(c)
                              \/ RestoreFails(c) \/ CallFails(c) \/ ClosedTerminalStopped(c)
                              \/ InputSent(c) \/ InputFails(c)
      PROVE  UNCHANGED runs \/ \E r \in 1..Len(runs) : RunEnds(r)
  <2>1. c.kind # "run" => c.run \in 1..Len(runs)
    BY CallsAreCalls
  <2> QED BY <1>2, <2>1
          DEF OldTerminalStopped, RunFails, ResultArrives, RestoreFails, CallFails, ClosedTerminalStopped,
              InputSent, InputFails, RunEnds
<1>3. ASSUME TerminalEnds PROVE \E r \in 1..Len(runs) : RunEnds(r)
  BY <1>3, <1>a DEF TerminalEnds, RunEnds
<1>4. ASSUME Poll \/ PollFails PROVE UNCHANGED runs
  BY <1>4 DEF Poll, PollFails, PollPreviewRun
<1> QED BY <1>1, <1>2, <1>3, <1>4, EndOnlyEnds DEF PreviewNext, Answer

(* A status the call may be answered is TRUE if the run goes on.           *)
LEMMA StatusIsCurrent ==
  ASSUME Base, NEW c \in calls, NEW alive \in Statuses(c), Alive(c.run) PROVE alive
BY DEF Statuses

(* An answer is stored for the session shown.                              *)
LEMMA ShowResultIsStored ==
  ASSUME Base, NEW res \in 0..MaxRuns, NEW run \in BOOLEAN, ShowResult(res, run),
         place # NoSession, request = place
  PROVE  stored' = [stored EXCEPT ![place] = <<place, res>>] /\ stored'[place] = <<place, res>>
<1>1. place \in Sessions /\ DOMAIN stored = Sessions
  BY DEF Base, PreviewTypeOK, Routes
<1> QED BY <1>1 DEF ShowResult, SavePreview

(* What a step that shows a result shows is current.                       *)
LEMMA ShownIsCurrent ==
  ASSUME Base, Base', PaneIsCurrent, OnlyEnds, NEW res \in 0..Len(runs), NEW run \in BOOLEAN,
         ShowResult(res, run), Alive(res)' => run, UNCHANGED <<place, request>>
  PROVE  PaneIsCurrent'
<1>1. DOMAIN runs = 1..Len(runs) /\ DOMAIN runs' = 1..Len(runs') /\ Len(runs) \in Nat /\ Len(runs) <= MaxRuns
  BY LenProperties DEF Base, PreviewTypeOK
<1>2. \A r \in DOMAIN runs' : runs'[r].alive => runs'[r].terminal
  BY <1>1 DEF OnlyEnds, PaneIsCurrent
<1>3. Alive(result)' => running'
  BY DEF ShowResult, Alive
<1>4. place' # NoSession /\ request' = place' => stored'[place'] = <<place', result'>>
  BY <1>1, ShowResultIsStored, PreviewAssumption DEF ShowResult
<1> QED BY <1>2, <1>3, <1>4 DEF PaneIsCurrent

(* Ends of runs leave what is shown current.                               *)
LEMMA EndsStayCurrent ==
  ASSUME Base, Base', PaneIsCurrent, OnlyEnds, UNCHANGED <<place, request, result, running, stored>>
  PROVE  PaneIsCurrent'
<1>1. DOMAIN runs = 1..Len(runs) /\ DOMAIN runs' = 1..Len(runs') /\ result \in 0..Len(runs)
  BY LenProperties DEF Base, PreviewTypeOK
<1>2. \A r \in DOMAIN runs' : runs'[r].alive => runs'[r].terminal
  BY <1>1 DEF OnlyEnds, PaneIsCurrent
<1>3. Alive(result)' => running'
  BY <1>1 DEF OnlyEnds, PaneIsCurrent, Alive
<1> QED BY <1>2, <1>3 DEF PaneIsCurrent

(* So do the steps that run code ...                                       *)
LEMMA OpenedIsCurrent ==
  ASSUME Base, Base', PaneIsCurrent, OnlyEnds, NEW s \in Routes, NEW keep \in BOOLEAN, NEW other,
         NEW v, NEW others, Open(s, keep, other, v, others), UNCHANGED place
  PROVE  PaneIsCurrent'
<1>1. DOMAIN runs = 1..Len(runs) /\ DOMAIN runs' = 1..Len(runs') /\ result \in 0..Len(runs)
      /\ DOMAIN stored = Sessions /\ running \in BOOLEAN
  BY LenProperties DEF Base, PreviewTypeOK
<1>2. \A r \in DOMAIN runs' : runs'[r].alive => runs'[r].terminal
  BY <1>1 DEF OnlyEnds, PaneIsCurrent
<1>3. Alive(result)' => running'
  BY <1>1 DEF Open, OnlyEnds, PaneIsCurrent, Alive
<1>4. place' # NoSession /\ request' = place' => stored'[place'] = <<place', result'>>
  BY <1>1 DEF Open, SavePreview, Routes
<1> QED BY <1>2, <1>3, <1>4 DEF PaneIsCurrent

(* ... and those that close the dock.                                      *)
LEMMA ClosedIsCurrent ==
  ASSUME Base, Base', PaneIsCurrent, OnlyEnds, request' = NoSession, result' = 0 PROVE PaneIsCurrent'
<1>1. DOMAIN runs = 1..Len(runs) /\ DOMAIN runs' = 1..Len(runs')
  BY LenProperties DEF Base, PreviewTypeOK
<1>2. \A r \in DOMAIN runs' : runs'[r].alive => runs'[r].terminal
  BY <1>1 DEF OnlyEnds, PaneIsCurrent
<1> QED BY <1>2 DEF PaneIsCurrent, Alive

(* Every step keeps what the pane shows current.                           *)
LEMMA NextKeepsCurrent ==
  ASSUME Base, Base', PaneIsCurrent, PreviewNext PROVE PaneIsCurrent'
<1>a. OnlyEnds \/ \E c \in calls : RunAnswered(c)
  BY StepsOnlyEndRuns
<1>b. ASSUME NEW s \in Routes, NEW keep \in BOOLEAN, NEW other, NEW v, OnlyEnds,
             ExecutePreviewRequest(s, keep, other, v), UNCHANGED place
      PROVE  PaneIsCurrent'
  <2>1. CASE request # NoSession /\ IsTerminal(result) /\ running
    BY <1>b, <2>1, EndsStayCurrent DEF ExecutePreviewRequest
  <2>2. CASE ~(request # NoSession /\ IsTerminal(result) /\ running)
    BY <1>b, <2>2, OpenedIsCurrent DEF ExecutePreviewRequest
  <2> QED BY <2>1, <2>2
<1>c. request \in Routes /\ place \in Routes
  BY DEF Base, PreviewTypeOK
<1>d. result \in 0..Len(runs) /\ 0 \in 0..Len(runs) /\ Alive(result) \in BOOLEAN
  BY AliveIsBoolean, LenProperties DEF Base, PreviewTypeOK
<1>1. ASSUME Act, OnlyEnds PROVE PaneIsCurrent'
  <2>1. ASSUME HandleRequestPreview PROVE PaneIsCurrent'
    BY <1>1, <1>b, <1>c, <2>1 DEF HandleRequestPreview
  <2>2. ASSUME HandleRunDraftCode \/ HandleSwitchView PROVE PaneIsCurrent'
    <3>1. CASE UNCHANGED paneVars /\ UNCHANGED stored
      BY <1>1, <3>1, EndsStayCurrent DEF paneVars
    <3>2. CASE \E v \in {"preview", "code"} : HandleRunPreviewCode(v)
      BY <1>1, <1>b, <1>c, <3>2 DEF HandleRunPreviewCode
    <3> QED BY <2>2, <3>1, <3>2 DEF HandleRunDraftCode, HandleSwitchView
  <2>3. ASSUME HandleRefreshPreviewDock PROVE PaneIsCurrent'
    <3>1. CASE UNCHANGED paneVars /\ UNCHANGED stored
      BY <1>1, <3>1, EndsStayCurrent DEF paneVars
    <3>2. CASE ExecutePreviewRequest(request, TRUE, FALSE, view) /\ UNCHANGED place
      BY <1>1, <1>b, <1>c, <3>2
    <3> QED BY <2>3, <3>1, <3>2 DEF HandleRefreshPreviewDock, GetRun
  <2>4. ASSUME HandleResizePreviewTerminal \/ HandleTerminatePreviewTerminal \/ SendData \/ HandleSubmit
        PROVE  PaneIsCurrent'
    BY <1>1, <2>4, EndsStayCurrent
       DEF HandleResizePreviewTerminal, GetRun, HandleTerminatePreviewTerminal, SendData, HandleSubmit,
           HandleSendPreviewTerminalInput, paneVars
  <2>5. ASSUME HandleClosePreviewDock PROVE PaneIsCurrent'
    BY <1>1, <2>5, ClosedIsCurrent DEF HandleClosePreviewDock, ResetPreviewState
  <2>6. ASSUME ShowAnotherPreview PROVE PaneIsCurrent'
    <3>1. PICK s \in Routes \ {place} : RestorePreview(s)
      BY <2>6 DEF ShowAnotherPreview
    <3> DEFINE st == SavePreview(stored, s, request, result)
               own == s # NoSession /\ stored[s] # <<>> /\ stored[s][2] # 0
    <3>2. CASE ~own
      BY <1>1, <3>1, <3>2, ClosedIsCurrent DEF RestorePreview
    <3>3. CASE own
      <4>1. s \in Sessions /\ place' = s /\ request' = s /\ result' = 0
            /\ stored' = SavePreview(st, s, s, 0)
        BY <3>1, <3>3 DEF RestorePreview, Routes
      <4>2. DOMAIN st = Sessions
        BY DEF SavePreview, Base, PreviewTypeOK
      <4> HIDE DEF st
      <4>3. stored'[place'] = <<place', result'>>
        BY <3>3, <4>1, <4>2 DEF SavePreview
      <4>4. \A r \in DOMAIN runs' : runs'[r].alive => runs'[r].terminal
        <5>1. DOMAIN runs = 1..Len(runs) /\ DOMAIN runs' = 1..Len(runs')
          BY LenProperties DEF Base, PreviewTypeOK
        <5> QED BY <1>1, <5>1 DEF OnlyEnds, PaneIsCurrent
      <4> QED BY <4>1, <4>3, <4>4 DEF PaneIsCurrent, Alive
    <3> QED BY <3>2, <3>3
  <2> QED BY <1>1, <2>1, <2>2, <2>3, <2>4, <2>5, <2>6 DEF Act
<1>2. ASSUME NEW c \in calls, RunAnswered(c) PROVE PaneIsCurrent'
  <2>1. PICK t \in BOOLEAN : /\ runs' = Append(runs, [session |-> c.session, terminal |-> t, alive |-> t])
                             /\ ShowResult(Len(runs) + 1, t)
    BY <1>2 DEF RunAnswered
  <2> DEFINE x == [session |-> c.session, terminal |-> t, alive |-> t]
  <2>2. c.session \in Sessions /\ runs \in Runs /\ Len(runs) \in Nat
    BY <1>2, CallsAreCalls DEF RunAnswered, Routes
  <2>3. /\ DOMAIN runs' = 1..(Len(runs) + 1) /\ runs'[Len(runs) + 1] = x
        /\ \A k \in 1..Len(runs) : runs'[k] = runs[k]
    <3>1. x \in Run
      BY <2>2 DEF Run
    <3> HIDE DEF x
    <3> QED BY <2>1, <2>2, <3>1, AppendProperties, LenProperties DEF Runs, x
  <2>4. \A r \in DOMAIN runs' : runs'[r].alive => runs'[r].terminal
    BY <2>2, <2>3, LenProperties DEF PaneIsCurrent, Runs
  <2>5. Alive(result)' => running'
    BY <2>1, <2>3 DEF ShowResult, Alive
  <2>6. place' # NoSession /\ request' = place' => stored'[place'] = <<place', result'>>
    <3>1. Len(runs) + 1 \in 0..MaxRuns /\ result' = Len(runs) + 1 /\ UNCHANGED <<place, request>>
      BY <1>2, <2>1, <2>2, PreviewAssumption DEF RunAnswered, ShowResult
    <3> QED BY <2>1, <3>1, ShowResultIsStored
  <2> QED BY <2>4, <2>5, <2>6 DEF PaneIsCurrent
<1>3. ASSUME NEW c \in calls, OldTerminalStopped(c), OnlyEnds PROVE PaneIsCurrent'
  BY <1>3, CallsAreCalls, OpenedIsCurrent DEF OldTerminalStopped
<1>4. ASSUME NEW c \in calls, RunFails(c), OnlyEnds PROVE PaneIsCurrent'
  <2>1. 0 \in 0..Len(runs) /\ ShowResult(0, FALSE) /\ ~Alive(0)' /\ UNCHANGED <<place, request>>
    BY <1>4, <1>d DEF RunFails, Alive
  <2> QED BY <1>4, <2>1, ShownIsCurrent
<1>5. ASSUME NEW c \in calls, ResultArrives(c) \/ InputSent(c), OnlyEnds PROVE PaneIsCurrent'
  <2>1. PICK alive \in BOOLEAN : ShowResult(c.run, alive) /\ (alive \in Statuses(c) \/ ~Alive(c.run)')
    <3>1. CASE ResultArrives(c) /\ c.kind = "stop"
      <4>1. c.run \in 1..Len(runs) /\ RunEnds(c.run)
        BY <3>1, CallsAreCalls DEF ResultArrives, RunEnds
      <4>2. ~runs'[c.run].alive
        BY <4>1, EndRun DEF Base
      <4> QED BY <3>1, <4>2 DEF ResultArrives, Alive
    <3>2. CASE ~(ResultArrives(c) /\ c.kind = "stop")
      BY <1>5, <3>2, StatusesAreBoolean DEF ResultArrives, InputSent, Base
    <3> QED BY <3>1, <3>2
  <2>2. c.run \in 0..Len(runs) /\ UNCHANGED <<place, request>>
    BY <1>5, CallsAreCalls DEF ResultArrives, InputSent
  <2>3. Alive(c.run)' => Alive(c.run)
    BY <1>5, <2>2 DEF OnlyEnds, Alive
  <2>4. Alive(c.run)' => alive
    BY <2>1, <2>3, StatusIsCurrent
  <2> QED BY <1>5, <2>1, <2>2, <2>4, ShownIsCurrent
<1>6. ASSUME NEW c \in calls, RestoreFails(c), OnlyEnds PROVE PaneIsCurrent'
  BY <1>6, ClosedIsCurrent DEF RestoreFails, ResetPreviewState
<1>7. ASSUME NEW c \in calls, CallFails(c) \/ ClosedTerminalStopped(c) \/ InputFails(c), OnlyEnds
      PROVE  PaneIsCurrent'
  BY <1>7, EndsStayCurrent DEF CallFails, ClosedTerminalStopped, InputFails, paneVars
<1>8. ASSUME TerminalEnds, OnlyEnds PROVE PaneIsCurrent'
  BY <1>8, EndsStayCurrent DEF TerminalEnds, paneVars
<1>9. ASSUME Poll, OnlyEnds PROVE PaneIsCurrent'
  <2>1. PICK r \in 0..Len(runs), run \in BOOLEAN : r = result /\ run = Alive(result)
    BY <1>d
  <2>2. ShowResult(r, run) /\ UNCHANGED <<place, request, runs>>
    BY <1>9, <2>1 DEF Poll, PollPreviewRun
  <2>3. Alive(r)' => run
    BY <2>1, <2>2 DEF Alive
  <2> QED BY <1>9, <2>2, <2>3, ShownIsCurrent
<1>10. ASSUME PollFails, OnlyEnds PROVE PaneIsCurrent'
  BY <1>10, EndsStayCurrent DEF PollFails
<1> QED BY <1>a, <1>1, <1>2, <1>3, <1>4, <1>5, <1>6, <1>7, <1>8, <1>9, <1>10 DEF PreviewNext, Answer

-----------------------------------------------------------------------------
(* While no answer was crossed, every terminal that runs can be reached.   *)

(* A step that leaves the pane alone, but for ends of runs: it may answer  *)
(* calls, if those that name a terminal name one that ended, and start     *)
(* calls about the terminal shown.                                         *)
LEMMA PaneStaysTidy ==
  ASSUME Base, Base', Tidy, OnlyEnds, UNCHANGED <<place, request, result, stored>>,
         \A c \in calls' : \/ c \in calls
                           \/ /\ c.kind \in SideKinds /\ c.session = request /\ request # NoSession
                              /\ c.run = result /\ result # 0,
         \A c \in MainCalls : c \in calls' \/ ~Alive(c.run)'
  PROVE  Tidy'
<1>a. /\ DOMAIN runs = 1..Len(runs) /\ DOMAIN runs' = 1..Len(runs) /\ result \in 0..Len(runs)
      /\ \A c \in calls : c.run \in 0..Len(runs) /\ (c.kind # "run" => c.run # 0)
      /\ \A s \in Sessions : stored[s] # <<>> => stored[s][2] \in 0..Len(runs)
  <2>1. \A s \in Sessions : stored[s] # <<>> => stored[s][2] \in 0..Len(runs)
    BY DEF Base, StoredRunsExist, Stores
  <2> QED BY <2>1, CallsAreCalls, LenProperties DEF Base, PreviewTypeOK, OnlyEnds
<1>1. DockIsOwn'
  BY <1>a DEF Tidy, Uncrossed, DockIsOwn, OnlyEnds
<1>2. CallsAreOwn'
  BY <1>a DEF Tidy, Uncrossed, CallsAreOwn, DockIsOwn, OnlyEnds, SideKinds
<1>3. \A c \in MainCalls' : c \in MainCalls
  BY DEF MainCalls, MainKinds, SideKinds
<1>4. MainCallsAreAlone'
  BY <1>a, <1>3 DEF Tidy, Uncrossed, MainCallsAreAlone, OnlyEnds, Alive, SideKinds
<1>5. SideCallsAgree'
  BY <1>3 DEF Tidy, Uncrossed, SideCallsAgree, SideCalls, SideKinds
<1>6. ASSUME NEW r \in DOMAIN runs', runs'[r].alive PROVE Reached(r)'
  <2>1. r \in DOMAIN runs /\ runs[r].alive /\ runs'[r].session = runs[r].session /\ r # 0
    BY <1>6, <1>a DEF OnlyEnds
  <2>2. Reached(r)
    BY <2>1 DEF Tidy
  <2>3. \A c \in MainCalls : c.run = r => c \in calls'
    BY <1>6, <2>1 DEF Alive
  <2> QED BY <2>1, <2>2, <2>3 DEF Reached, MainCalls, MainKinds
<1> QED BY <1>1, <1>2, <1>4, <1>5, <1>6 DEF Tidy, Uncrossed

(* A dock that shows nothing shows the run its calls are about.            *)
LEMMA EmptyDockStaysTidy ==
  ASSUME Base, Base', PaneIsCurrent, Tidy, OnlyEnds, NEW c \in calls, NEW run \in BOOLEAN,
         ShowResult(c.run, run), UNCHANGED <<place, request>>, result = 0,
         c.kind \in SideKinds \cup {"restore"}, MainCalls \subseteq {c},
         \A d \in calls' : d.kind \in SideKinds /\ d.session = request /\ d.run = c.run
  PROVE  Tidy'
<1>a. /\ DOMAIN runs = 1..Len(runs) /\ DOMAIN runs' = 1..Len(runs) /\ result \in 0..Len(runs)
      /\ c.run \in 1..Len(runs) /\ DOMAIN stored = Sessions /\ place \in Routes
      /\ \A s \in Sessions : stored[s] # <<>> => stored[s][2] \in 0..Len(runs)
      /\ \A r \in DOMAIN runs : runs[r].session \in Sessions
  <2>1. \A s \in Sessions : stored[s] # <<>> => stored[s][2] \in 0..Len(runs)
    BY DEF Base, StoredRunsExist, Stores
  <2>2. \A r \in DOMAIN runs : runs[r].session \in Sessions
    BY RunsAreOfSessions
  <2> QED BY <2>1, <2>2, CallsAreCalls, LenProperties DEF Base, PreviewTypeOK, OnlyEnds, SideKinds
<1>b. request = place /\ place \in Sessions /\ place # NoSession /\ runs[c.run].session = place
  BY <1>a DEF Tidy, Uncrossed, CallsAreOwn, DockIsOwn, SideKinds, Routes
<1>c. /\ result' = c.run /\ stored' = [stored EXCEPT ![place] = <<place, c.run>>]
      /\ stored[place] = <<place, 0>>
  BY <1>b DEF ShowResult, SavePreview, PaneIsCurrent
<1>1. DockIsOwn'
  BY <1>a, <1>b, <1>c DEF Tidy, Uncrossed, DockIsOwn, OnlyEnds
<1>2. CallsAreOwn'
  BY <1>a, <1>b DEF CallsAreOwn, OnlyEnds, SideKinds
<1>3. MainCalls' = {}
  BY DEF MainCalls, MainKinds, SideKinds
<1>4. MainCallsAreAlone' /\ SideCallsAgree'
  BY <1>3, <1>c DEF MainCallsAreAlone, MainCalls, MainKinds, SideCallsAgree, SideCalls, SideKinds
<1>5. ASSUME NEW r \in DOMAIN runs', runs'[r].alive PROVE Reached(r)'
  <2>1. r \in DOMAIN runs /\ runs[r].alive /\ runs'[r].session = runs[r].session /\ r # 0
    BY <1>5, <1>a DEF OnlyEnds
  <2>2. Reached(r)
    BY <2>1 DEF Tidy
  <2>3. CASE \E d \in calls : d.run = r /\ d.kind \in {"open", "restore", "drop"}
    BY <1>c, <2>3 DEF MainCalls, MainKinds, Reached
  <2>4. CASE stored[runs[r].session] = <<runs[r].session, r>>
    BY <1>a, <1>c, <2>1, <2>4 DEF Reached
  <2> QED BY <2>1, <2>2, <2>3, <2>4 DEF Reached
<1> QED BY <1>1, <1>2, <1>4, <1>5 DEF Tidy, Uncrossed

(* The answer of a call about the terminal shown shows its run; another    *)
(* call like it may follow.                                                *)
LEMMA SideAnswerStaysTidy ==
  ASSUME Base, Base', PaneIsCurrent, Tidy, OnlyEnds, NEW c \in calls, NEW run \in BOOLEAN,
         ShowResult(c.run, run), UNCHANGED <<place, request>>,
         c.kind \in SideKinds,
         NEW d, d.kind = c.kind, d.session = c.session, d.run = c.run,
         calls' = calls \ {c} \/ calls' = (calls \ {c}) \cup {d}
  PROVE  Tidy'
<1>0. c \in SideCalls /\ c.session = request /\ request # NoSession
  BY DEF SideCalls, SideKinds, Tidy, Uncrossed, CallsAreOwn
<1>1. CASE result # 0
  <2>1. c.run = result /\ request = place /\ place # NoSession
    BY <1>0, <1>1 DEF Tidy, Uncrossed, SideCallsAgree, DockIsOwn
  <2>2. stored' = stored /\ result' = result
    BY <2>1 DEF ShowResult, SavePreview, PaneIsCurrent, Base, PreviewTypeOK
  <2> QED BY <1>0, <1>1, <2>1, <2>2, PaneStaysTidy DEF MainCalls, MainKinds, SideKinds
<1>2. CASE result = 0
  <2>1. MainCalls = {} /\ \A e \in SideCalls : e.run = c.run
    BY <1>0, <1>2, CallsAreCalls DEF Tidy, Uncrossed, SideCallsAgree, SideKinds
  <2>2. \A e \in calls : e.kind \in SideKinds
    BY <2>1, CallsAreCalls DEF MainCalls, MainKinds, SideKinds, Call
  <2>3. \A e \in calls' : e.kind \in SideKinds /\ e.session = request /\ e.run = c.run
    BY <1>0, <2>1, <2>2 DEF Tidy, Uncrossed, CallsAreOwn, SideCalls, SideKinds
  <2> QED BY <1>2, <2>1, <2>3, EmptyDockStaysTidy
<1> QED BY <1>1, <1>2

(* The run restored is shown.                                              *)
LEMMA RestoredStaysTidy ==
  ASSUME Base, Base', PaneIsCurrent, Tidy, OnlyEnds, NEW c \in calls, NEW run \in BOOLEAN,
         ShowResult(c.run, run), UNCHANGED <<place, request>>,
         c.kind = "restore", calls' = calls \ {c}
  PROVE  Tidy'
<1>1. c \in MainCalls /\ result = 0
  BY DEF MainCalls, MainKinds, Tidy, Uncrossed, MainCallsAreAlone
<1>2. SideCalls = {} /\ MainCalls \subseteq {c}
  BY <1>1, CallsAreCalls DEF Tidy, Uncrossed, MainCallsAreAlone, SideCallsAgree, SideCalls, SideKinds
<1>3. calls' = {}
  BY <1>2, CallsAreCalls DEF MainCalls, SideCalls, MainKinds, SideKinds, Call
<1> QED BY <1>1, <1>2, <1>3, EmptyDockStaysTidy

(* Code that is run where nothing shown goes on and nothing else is in     *)
(* flight.                                                                 *)
LEMMA OpenStaysTidy ==
  ASSUME Base, Base', PaneIsCurrent, OnlyEnds, DockIsOwn, UNCHANGED place,
         NEW s \in Sessions, NEW keep \in BOOLEAN, NEW other, NEW v,
         Open(s, keep, other, v, {}), s = place, result # 0 => ~runs'[result].alive,
         \A r \in DOMAIN runs' : runs'[r].alive => stored[runs[r].session] = <<runs[r].session, r>>
  PROVE  Tidy'
<1>a. /\ DOMAIN runs = 1..Len(runs) /\ DOMAIN runs' = 1..Len(runs) /\ result \in 0..Len(runs)
      /\ DOMAIN stored = Sessions /\ place \in Routes
      /\ \A t \in Sessions : stored[t] # <<>> => stored[t][2] \in 0..Len(runs)
      /\ \A r \in DOMAIN runs : runs[r].session \in Sessions
  <2>1. \A t \in Sessions : stored[t] # <<>> => stored[t][2] \in 0..Len(runs)
    BY DEF Base, StoredRunsExist, Stores
  <2> QED BY <2>1, RunsAreOfSessions, LenProperties DEF Base, PreviewTypeOK, OnlyEnds
<1>b. s # NoSession
  BY PagesAssumption
<1>c. /\ request' = s /\ (result' = result \/ result' = 0) /\ calls' = {NewCall("run", s, 0)}
      /\ stored' = [stored EXCEPT ![place] = <<place, result'>>]
  BY <1>b DEF Open, SavePreview
<1>d. ~Alive(result)'
  BY <1>c DEF Alive
<1>1. DockIsOwn'
  BY <1>a, <1>b, <1>c DEF DockIsOwn, OnlyEnds
<1> DEFINE c == NewCall("run", s, 0)
<1>e. c.kind = "run" /\ c.session = s
  BY DEF NewCall
<1> HIDE DEF c
<1>2. CallsAreOwn'
  BY <1>b, <1>c, <1>e DEF CallsAreOwn, c
<1>3. MainCallsAreAlone' /\ SideCallsAgree'
  BY <1>c, <1>d, <1>e DEF MainCallsAreAlone, MainCalls, SideCallsAgree, SideCalls, SideKinds, c, Alive
<1>4. ASSUME NEW r \in DOMAIN runs', runs'[r].alive PROVE Reached(r)'
  <2>1. r \in DOMAIN runs /\ runs'[r].session = runs[r].session /\ runs[r].session \in Sessions
    BY <1>4, <1>a DEF OnlyEnds
  <2>2. stored[runs[r].session] = <<runs[r].session, r>>
    BY <1>4
  <2>3. CASE runs[r].session # place
    BY <1>c, <2>1, <2>2, <2>3 DEF Reached
  <2>4. CASE runs[r].session = place /\ request = place
    <3>1. r = result
      BY <1>b, <2>2, <2>4 DEF PaneIsCurrent
    <3> QED BY <1>4, <1>a, <3>1
  <2>5. CASE runs[r].session = place /\ request # place
    <3>1. request = NoSession /\ place # NoSession /\ stored[place] = <<place, r>> /\ r # 0
      BY <1>a, <1>b, <2>1, <2>2, <2>5 DEF DockIsOwn
    <3>2. stored[place] # <<>> /\ stored[place][2] = r
      BY <3>1
    <3> QED BY <3>1, <3>2 DEF DockIsOwn
  <2> QED BY <2>3, <2>4, <2>5
<1> QED BY <1>1, <1>2, <1>3, <1>4 DEF Tidy, Uncrossed

(* Running code while nothing is in flight.                                *)
LEMMA ExecuteStaysTidy ==
  ASSUME Base, Base', PaneIsCurrent, Tidy, NEW s \in Sessions, NEW keep \in BOOLEAN,
         NEW other \in BOOLEAN, NEW v, s = place, request # NoSession \/ ~keep,
         ExecutePreviewRequest(s, keep, other, v), UNCHANGED <<place, runs>>, ~crossed'
  PROVE  Tidy'
<1>a. calls = {} /\ OnlyEnds
  BY DEF ExecutePreviewRequest, OnlyEnds
<1>b. Uncrossed /\ DockIsOwn /\ s # NoSession
  BY PagesAssumption DEF Tidy, Uncrossed
<1>1. CASE request # NoSession /\ IsTerminal(result) /\ running
  <2> DEFINE c == [NewCall("open", s, result) EXCEPT !.keep = keep, !.other = other]
  <2>1. calls' = {c} /\ UNCHANGED <<request, result, stored>>
    BY <1>1, <1>a DEF ExecutePreviewRequest
  <2>2. c.kind = "open" /\ c.session = s /\ c.run = result
    BY DEF NewCall
  <2> HIDE DEF c
  <2>3. request = place /\ runs[result].session = place /\ result # 0
    BY <1>1, <1>b DEF DockIsOwn, IsTerminal
  <2>4. DockIsOwn'
    BY <1>b, <2>1 DEF DockIsOwn
  <2>5. CallsAreOwn' /\ MainCallsAreAlone' /\ SideCallsAgree'
    BY <1>1, <2>1, <2>2, <2>3
       DEF CallsAreOwn, MainCallsAreAlone, MainCalls, SideCallsAgree, SideCalls, SideKinds
  <2>6. ASSUME NEW r \in DOMAIN runs', runs'[r].alive PROVE Reached(r)'
    BY <1>a, <2>1, <2>6 DEF Tidy, Reached
  <2> QED BY <2>4, <2>5, <2>6 DEF Tidy, Uncrossed
<1>2. CASE ~(request # NoSession /\ IsTerminal(result) /\ running)
  <2>1. Open(s, keep, other, v, {})
    BY <1>2, <1>a DEF ExecutePreviewRequest
  <2>2. ~Alive(result)
    BY <1>2, <1>b DEF PaneIsCurrent, DockIsOwn, IsTerminal, Alive, Base, PreviewTypeOK
  <2>3. \A r \in DOMAIN runs' : runs'[r].alive => stored[runs[r].session] = <<runs[r].session, r>>
    <3> SUFFICES ASSUME NEW r \in DOMAIN runs, runs[r].alive
                 PROVE  stored[runs[r].session] = <<runs[r].session, r>>
      OBVIOUS
    <3>1. Reached(r) /\ r # 0
      BY DEF Tidy, Base, PreviewTypeOK
    <3> QED BY <1>a, <2>2, <3>1 DEF Reached, Alive
  <2>4. result # 0 => ~runs'[result].alive
    BY <2>2 DEF Alive
  <2> QED BY <1>a, <1>b, <2>1, <2>3, <2>4, OpenStaysTidy
<1> QED BY <1>1, <1>2

(* The old terminal is stopped, and the code runs.                         *)
LEMMA StoppedStaysTidy ==
  ASSUME Base, Base', PaneIsCurrent, Tidy, NEW c \in calls, OldTerminalStopped(c), ~crossed'
  PROVE  Tidy'
<1>1. /\ c.kind = "open" /\ runs' = [runs EXCEPT ![c.run].alive = FALSE] /\ calls = {c}
      /\ Open(c.session, c.keep, c.other, view, calls \ {c}) /\ UNCHANGED place
  BY DEF OldTerminalStopped
<1>2. c.run \in 1..Len(runs) /\ c.run = result /\ c.keep \in BOOLEAN
  BY <1>1, CallsAreCalls DEF Tidy, Uncrossed, MainCallsAreAlone
<1>3. c.session = place /\ place \in Sessions /\ place # NoSession
  BY <1>1, CallsAreCalls DEF Tidy, Uncrossed, CallsAreOwn, DockIsOwn, Routes
<1>4. OnlyEnds /\ ~runs'[result].alive
  BY <1>1, <1>2, EndRun DEF Base, RunEnds
<1>5. \A r \in DOMAIN runs' : runs'[r].alive => stored[runs[r].session] = <<runs[r].session, r>>
  <2> SUFFICES ASSUME NEW r \in DOMAIN runs', runs'[r].alive
               PROVE  stored[runs[r].session] = <<runs[r].session, r>>
    OBVIOUS
  <2>a. DOMAIN runs = 1..Len(runs) /\ DOMAIN runs' = 1..Len(runs')
    BY LenProperties DEF Base, PreviewTypeOK
  <2>1. r \in DOMAIN runs /\ runs[r].alive /\ r # result
    BY <1>4, <2>a DEF OnlyEnds
  <2>2. Reached(r)
    BY <2>1 DEF Tidy
  <2> QED BY <1>1, <1>2, <2>1, <2>2 DEF Reached
<1>6. Open(place, c.keep, c.other, view, {})
  BY <1>1, <1>3
<1> QED BY <1>1, <1>2, <1>3, <1>4, <1>5, <1>6, OpenStaysTidy DEF Tidy, Uncrossed

(* The code runs in a terminal of its own session, which is shown.         *)
LEMMA RunAnsweredStaysTidy ==
  ASSUME Base, Base', PaneIsCurrent, Tidy, NEW c \in calls, RunAnswered(c), ~crossed'
  PROVE  Tidy'
<1>1. calls = {c} /\ calls' = {} /\ c.kind = "run" /\ UNCHANGED <<place, request>>
  BY DEF RunAnswered
<1>2. c.session = request /\ request = place /\ place \in Sessions /\ place # NoSession /\ ~Alive(result)
  BY <1>1, CallsAreCalls DEF Tidy, Uncrossed, CallsAreOwn, DockIsOwn, MainCallsAreAlone, Routes
<1>3. PICK t \in BOOLEAN : /\ runs' = Append(runs, [session |-> c.session, terminal |-> t, alive |-> t])
                           /\ ShowResult(Len(runs) + 1, t)
  BY DEF RunAnswered
<1> DEFINE n == Len(runs) + 1
           x == [session |-> c.session, terminal |-> t, alive |-> t]
<1>4. runs \in Runs /\ Len(runs) \in Nat /\ DOMAIN runs = 1..Len(runs) /\ result \in 0..Len(runs)
  BY CallsAreCalls
<1>5. /\ DOMAIN runs' = 1..n /\ runs'[n] = x /\ \A k \in 1..Len(runs) : runs'[k] = runs[k]
  <2>1. x \in Run
    BY <1>2 DEF Run
  <2> HIDE DEF x
  <2> QED BY <1>3, <1>4, <2>1, AppendProperties, LenProperties DEF Runs, x
<1>6. n \in 0..MaxRuns
  BY <1>4, PreviewAssumption DEF RunAnswered
<1>7. result' = n /\ stored' = [stored EXCEPT ![place] = <<place, n>>] /\ stored[place] = <<place, result>>
  BY <1>2, <1>3, <1>6, ShowResultIsStored DEF ShowResult, PaneIsCurrent
<1>a. /\ DOMAIN stored = Sessions /\ \A s \in Sessions : stored[s] # <<>> => stored[s][2] \in 0..Len(runs)
      /\ \A r \in DOMAIN runs : runs[r].session \in Sessions
  <2>1. \A s \in Sessions : stored[s] # <<>> => stored[s][2] \in 0..Len(runs)
    BY DEF Base, StoredRunsExist, Stores
  <2> QED BY <2>1, RunsAreOfSessions DEF Base, PreviewTypeOK
<1>8. runs'[n].session = place
  BY <1>2, <1>5
<1> HIDE DEF x
<1>9. DockIsOwn'
  <2>1. \A s \in Sessions : stored'[s] # <<>> /\ stored'[s][2] # 0 =>
          stored'[s][1] = s /\ runs'[stored'[s][2]].session = s
    <3> SUFFICES ASSUME NEW s \in Sessions, stored'[s] # <<>>, stored'[s][2] # 0
                 PROVE  stored'[s][1] = s /\ runs'[stored'[s][2]].session = s
      OBVIOUS
    <3>1. CASE s = place
      BY <1>7, <1>8, <1>a, <3>1
    <3>2. CASE s # place
      <4>1. stored'[s] = stored[s] /\ stored[s][2] \in 1..Len(runs)
        BY <1>4, <1>7, <1>a, <3>2
      <4> QED BY <1>5, <4>1 DEF Tidy, Uncrossed, DockIsOwn
    <3> QED BY <3>1, <3>2
  <2> QED BY <1>1, <1>2, <1>7, <1>8, <2>1 DEF DockIsOwn
<1>10. CallsAreOwn' /\ MainCallsAreAlone' /\ SideCallsAgree'
  BY <1>1 DEF CallsAreOwn, MainCallsAreAlone, MainCalls, SideCallsAgree, SideCalls
<1>11. ASSUME NEW r \in DOMAIN runs', runs'[r].alive, r # n PROVE Reached(r)'
  <2>1. r \in DOMAIN runs /\ runs[r].alive /\ runs'[r] = runs[r] /\ r # 0
    BY <1>4, <1>5, <1>11
  <2>2. Reached(r) /\ result # r
    BY <1>2, <2>1 DEF Tidy, Alive
  <2>3. stored[runs[r].session] = <<runs[r].session, r>> /\ runs[r].session # place
    BY <1>1, <1>7, <2>2 DEF Reached
  <2> QED BY <1>7, <1>a, <2>1, <2>3 DEF Reached
<1> QED BY <1>7, <1>9, <1>10, <1>11 DEF Tidy, Uncrossed, Reached

(* Code that cannot be run is shown as no run; nothing shown went on.      *)
LEMMA RunFailsStaysTidy ==
  ASSUME Base, Base', PaneIsCurrent, Tidy, NEW c \in calls, RunFails(c) PROVE Tidy'
<1>1. /\ c.kind = "run" /\ calls' = calls \ {c} /\ UNCHANGED <<place, request, runs>> /\ ShowResult(0, FALSE)
  BY DEF RunFails
<1>2. /\ c.session = request /\ request = place /\ place \in Sessions /\ place # NoSession /\ ~Alive(result)
      /\ MainCalls = {c}
  BY <1>1, CallsAreCalls
     DEF Tidy, Uncrossed, CallsAreOwn, DockIsOwn, MainCallsAreAlone, MainCalls, MainKinds, Routes
<1>a. /\ DOMAIN stored = Sessions /\ DOMAIN runs = 1..Len(runs) /\ result \in 0..Len(runs)
      /\ \A r \in DOMAIN runs : runs[r].session \in Sessions
  BY RunsAreOfSessions, CallsAreCalls DEF Base, PreviewTypeOK
<1>3. result' = 0 /\ stored' = [stored EXCEPT ![place] = <<place, 0>>] /\ stored[place] = <<place, result>>
  BY <1>1, <1>2 DEF ShowResult, SavePreview, PaneIsCurrent
<1>4. DockIsOwn'
  BY <1>1, <1>2, <1>3, <1>a DEF Tidy, Uncrossed, DockIsOwn
<1>5. MainCalls' = {}
  BY <1>1, <1>2 DEF MainCalls
<1>6. CallsAreOwn'
  BY <1>1 DEF Tidy, Uncrossed, CallsAreOwn
<1>7. MainCallsAreAlone' /\ SideCallsAgree'
  BY <1>1, <1>3, <1>5 DEF Tidy, Uncrossed, MainCallsAreAlone, MainCalls, MainKinds, SideCallsAgree, SideCalls
<1>8. ASSUME NEW r \in DOMAIN runs', runs'[r].alive PROVE Reached(r)'
  <2>1. r \in DOMAIN runs /\ runs[r].alive /\ r # 0 /\ runs' = runs
    BY <1>1, <1>8, <1>a
  <2>2. Reached(r) /\ result # r
    BY <1>2, <2>1 DEF Tidy, Alive
  <2>3. CASE \E d \in calls : d.run = r /\ d.kind \in {"open", "restore", "drop"}
    BY <1>1, <1>2, <2>3 DEF MainCalls, MainKinds
  <2>4. CASE stored[runs[r].session] = <<runs[r].session, r>>
    BY <1>3, <1>a, <2>1, <2>2, <2>4 DEF Reached
  <2> QED BY <2>2, <2>3, <2>4 DEF Reached
<1> QED BY <1>4, <1>6, <1>7, <1>8 DEF Tidy, Uncrossed

(* Closing the dock stops a terminal that runs; the call names it.         *)
LEMMA CloseStaysTidy ==
  ASSUME Base, Base', PaneIsCurrent, Tidy, HandleClosePreviewDock, ~crossed' PROVE Tidy'
<1>1. calls = {} /\ request = place /\ place \in Sessions /\ place # NoSession
  BY DEF HandleClosePreviewDock, Tidy, Uncrossed, DockIsOwn, Base, PreviewTypeOK, Routes
<1>2. /\ request' = NoSession /\ result' = 0 /\ stored' = [stored EXCEPT ![place] = <<>>]
      /\ UNCHANGED <<place, runs>>
  BY <1>1 DEF HandleClosePreviewDock, ResetPreviewState
<1>3. stored[place] = <<place, result>>
  BY <1>1 DEF PaneIsCurrent
<1>a. /\ DOMAIN stored = Sessions /\ \A r \in DOMAIN runs : runs[r].session \in Sessions /\ r # 0
      /\ result \in 0..Len(runs) /\ DOMAIN runs = 1..Len(runs)
  BY RunsAreOfSessions, LenProperties DEF Base, PreviewTypeOK
<1>4. DockIsOwn'
  BY <1>1, <1>2, <1>a DEF Tidy, Uncrossed, DockIsOwn
<1>5. \A d \in calls' : d.kind = "drop" /\ calls' = {d}
  <2>1. NewCall("drop", request, result).kind = "drop"
    BY DEF NewCall
  <2> QED BY <1>1, <2>1 DEF HandleClosePreviewDock
<1>6. CallsAreOwn' /\ MainCallsAreAlone' /\ SideCallsAgree'
  BY <1>2, <1>5 DEF CallsAreOwn, MainCallsAreAlone, MainCalls, SideCallsAgree, SideCalls, SideKinds
<1>7. ASSUME NEW r \in DOMAIN runs', runs'[r].alive PROVE Reached(r)'
  <2>1. r \in DOMAIN runs /\ runs[r].alive /\ runs' = runs /\ Reached(r)
    BY <1>2, <1>7 DEF Tidy
  <2>2. CASE r = result
    <3>1. IsTerminal(result) /\ running
      BY <1>a, <2>1, <2>2 DEF PaneIsCurrent, IsTerminal, Alive
    <3>2. calls' = {NewCall("drop", request, r)}
      BY <1>1, <2>2, <3>1 DEF HandleClosePreviewDock
    <3>3. NewCall("drop", request, r).kind = "drop" /\ NewCall("drop", request, r).run = r
      BY DEF NewCall
    <3> QED BY <3>2, <3>3 DEF Reached
  <2>3. CASE stored[runs[r].session] = <<runs[r].session, r>> /\ r # result
    BY <1>2, <1>3, <1>a, <2>1, <2>3 DEF Reached
  <2> QED BY <1>1, <2>1, <2>2, <2>3 DEF Reached
<1> QED BY <1>4, <1>6, <1>7 DEF Tidy, Uncrossed

(* A session that is left keeps its run in the store, and the call that    *)
(* restores names the run of the one the page goes to.                     *)
LEMMA MoveStaysTidy ==
  ASSUME Base, Base', PaneIsCurrent, Tidy, NEW s \in Routes \ {place}, RestorePreview(s), UNCHANGED runs,
         ~crossed'
  PROVE  Tidy'
<1> DEFINE own == s # NoSession /\ stored[s] # <<>> /\ stored[s][2] # 0
           c == NewCall("restore", s, stored[s][2])
<1>1. calls = {} /\ place' = s /\ result' = 0 /\ SavePreview(stored, s, request, result) = stored
  BY DEF RestorePreview, SavePreview, Tidy, Uncrossed, DockIsOwn
<1>a. /\ DOMAIN stored = Sessions /\ \A r \in DOMAIN runs : runs[r].session \in Sessions /\ r # 0
      /\ result \in 0..Len(runs) /\ DOMAIN runs = 1..Len(runs) /\ place \in Routes
  BY RunsAreOfSessions, LenProperties DEF Base, PreviewTypeOK
<1>b. \A r \in DOMAIN runs : runs[r].alive => stored[runs[r].session] = <<runs[r].session, r>>
  <2> SUFFICES ASSUME NEW r \in DOMAIN runs, runs[r].alive
               PROVE  stored[runs[r].session] = <<runs[r].session, r>>
    OBVIOUS
  <2>1. Reached(r)
    BY DEF Tidy
  <2>2. CASE r = result
    <3>1. request = place /\ place # NoSession /\ runs[r].session = place
      BY <1>a, <2>2 DEF Tidy, Uncrossed, DockIsOwn
    <3> QED BY <2>2, <3>1 DEF PaneIsCurrent
  <2> QED BY <1>1, <2>1, <2>2 DEF Reached
<1>2. CASE ~own
  <2>1. request' = NoSession /\ stored' = stored /\ calls' = {}
    BY <1>1, <1>2 DEF RestorePreview
  <2>2. DockIsOwn'
    BY <1>1, <1>2, <1>a, <2>1 DEF Tidy, Uncrossed, DockIsOwn, Routes
  <2>3. CallsAreOwn' /\ MainCallsAreAlone' /\ SideCallsAgree'
    BY <2>1 DEF CallsAreOwn, MainCallsAreAlone, MainCalls, SideCallsAgree, SideCalls
  <2>4. ASSUME NEW r \in DOMAIN runs', runs'[r].alive PROVE Reached(r)'
    BY <1>b, <2>1, <2>4 DEF Reached
  <2> QED BY <2>2, <2>3, <2>4 DEF Tidy, Uncrossed
<1>3. CASE own
  <2>1. /\ request' = s /\ stored' = [stored EXCEPT ![s] = <<s, 0>>] /\ calls' = {c} /\ s \in Sessions
        /\ s # NoSession
    BY <1>1, <1>3 DEF RestorePreview, SavePreview, Routes
  <2>2. c.kind = "restore" /\ c.session = s /\ c.run = stored[s][2]
    BY DEF NewCall
  <2>3. stored[s][1] = s /\ runs[stored[s][2]].session = s
    BY <1>3, <2>1 DEF Tidy, Uncrossed, DockIsOwn
  <2> HIDE DEF c
  <2>4. DockIsOwn'
    BY <1>1, <1>a, <2>1 DEF Tidy, Uncrossed, DockIsOwn
  <2>5. CallsAreOwn' /\ MainCallsAreAlone' /\ SideCallsAgree'
    BY <1>1, <2>1, <2>2, <2>3
       DEF CallsAreOwn, MainCallsAreAlone, MainCalls, SideCallsAgree, SideCalls, SideKinds
  <2>6. ASSUME NEW r \in DOMAIN runs', runs'[r].alive PROVE Reached(r)'
    <3>1. stored[runs[r].session] = <<runs[r].session, r>>
      BY <1>b, <2>6
    <3>2. CASE runs[r].session = s
      BY <2>1, <2>2, <3>1, <3>2 DEF Reached
    <3>3. CASE runs[r].session # s
      BY <1>a, <2>1, <3>1, <3>3 DEF Reached
    <3> QED BY <3>2, <3>3
  <2> QED BY <2>4, <2>5, <2>6 DEF Tidy, Uncrossed
<1> QED BY <1>2, <1>3

(* Every step keeps the dock tidy, unless an answer was crossed.           *)
LEMMA NextStaysTidy ==
  ASSUME Base, Base', PaneIsCurrent, Tidy, PreviewNext, ~crossed' PROVE Tidy'
<1>a. OnlyEnds \/ \E c \in calls : RunAnswered(c)
  BY StepsOnlyEndRuns
<1>b. place \in Routes /\ request \in Routes /\ view \in {"preview", "code"}
  BY DEF Base, PreviewTypeOK
<1>c. request # NoSession => request = place /\ place \in Sessions
  BY <1>b DEF Tidy, Uncrossed, DockIsOwn, Routes
<1>d. ASSUME NEW s \in Sessions, NEW keep \in BOOLEAN, NEW other \in BOOLEAN, NEW v, s = place,
             request # NoSession \/ ~keep, ExecutePreviewRequest(s, keep, other, v), UNCHANGED <<place, runs>>
      PROVE  Tidy'
  BY <1>d, ExecuteStaysTidy
<1>e. ASSUME UNCHANGED <<place, request, result, stored, calls>>, OnlyEnds PROVE Tidy'
  BY <1>e, PaneStaysTidy DEF MainCalls
<1>f. ASSUME NEW kind \in {"get", "stop", "input"}, NEW d, d.kind = kind, d.session = request,
             d.run = result, calls' = calls \cup {d}, request # NoSession, result # 0,
             UNCHANGED <<place, request, result, stored>>, OnlyEnds
      PROVE  Tidy'
  BY <1>f, PaneStaysTidy DEF MainCalls, SideKinds
<1>g. ASSUME NEW v, request # NoSession, HandleRunPreviewCode(v) PROVE Tidy'
  <2>1. PICK s \in Sessions : s = request
    BY <1>c, <1>g
  <2>2. s = place /\ ExecutePreviewRequest(s, TRUE, FALSE, v) /\ UNCHANGED <<place, runs>>
    BY <1>c, <1>g, <2>1 DEF HandleRunPreviewCode
  <2> QED BY <1>d, <1>g, <2>2
<1>1. ASSUME HandleRequestPreview PROVE Tidy'
  <2>1. PICK s \in Sessions : s = place
    BY <1>1, <1>b DEF HandleRequestPreview, Routes
  <2>2. PICK other \in BOOLEAN : ExecutePreviewRequest(s, FALSE, other, view)
    BY <1>1, <2>1 DEF HandleRequestPreview
  <2>3. UNCHANGED <<place, runs>>
    BY <1>1 DEF HandleRequestPreview
  <2> QED BY <1>d, <2>1, <2>2, <2>3
<1>2. ASSUME HandleRunDraftCode PROVE Tidy'
  BY <1>2, <1>g DEF HandleRunDraftCode
<1>3. ASSUME HandleSwitchView, OnlyEnds PROVE Tidy'
  BY <1>3, <1>e, <1>g DEF HandleSwitchView, paneVars
<1>4. ASSUME GetRun, request # NoSession, result # 0, OnlyEnds PROVE Tidy'
  <2>1. /\ NewCall("get", request, result).kind = "get"
        /\ NewCall("get", request, result).session = request
        /\ NewCall("get", request, result).run = result
    BY DEF NewCall
  <2> QED BY <1>4, <1>f, <2>1 DEF GetRun, paneVars
<1>5. ASSUME HandleResizePreviewTerminal \/ HandleRefreshPreviewDock, OnlyEnds PROVE Tidy'
  <2>1. CASE HandleResizePreviewTerminal
    BY <1>4, <1>5, <2>1 DEF HandleResizePreviewTerminal, TerminalShown, IsTerminal
  <2>2. CASE HandleRefreshPreviewDock /\ IsTerminal(result) /\ GetRun
    BY <1>4, <1>5, <2>2 DEF HandleRefreshPreviewDock, IsTerminal
  <2>3. CASE HandleRefreshPreviewDock /\ HandleRunPreviewCode(view)
    BY <1>g, <2>3 DEF HandleRefreshPreviewDock
  <2> QED BY <1>5, <2>1, <2>2, <2>3 DEF HandleRefreshPreviewDock, HandleRunPreviewCode
<1>6. ASSUME HandleTerminatePreviewTerminal, OnlyEnds PROVE Tidy'
  <2>1. /\ NewCall("stop", request, result).kind = "stop"
        /\ NewCall("stop", request, result).session = request
        /\ NewCall("stop", request, result).run = result
    BY DEF NewCall
  <2> QED BY <1>6, <1>f, <2>1 DEF HandleTerminatePreviewTerminal, TerminalShown, IsTerminal, paneVars
<1>7. ASSUME SendData \/ HandleSubmit, OnlyEnds PROVE Tidy'
  <2>1. /\ HandleSendPreviewTerminalInput /\ request # NoSession /\ result # 0
        /\ UNCHANGED <<place, request, result, stored>>
    BY <1>7 DEF SendData, HandleSubmit, TerminalShown, IsTerminal, HandleSendPreviewTerminalInput, paneVars
  <2>2. CASE sending
    BY <1>7, <1>e, <2>1, <2>2 DEF HandleSendPreviewTerminalInput, FlushPreviewTerminalInputQueue
  <2>3. CASE ~sending
    <3> DEFINE d ==
            [NewCall("input", request, result) EXCEPT !.text = Append(inputQueue, <<result, typed + 1>>)]
    <3>1. calls' = calls \cup {d}
      BY <2>1, <2>3 DEF HandleSendPreviewTerminalInput, FlushPreviewTerminalInputQueue
    <3>2. d.kind = "input" /\ d.session = request /\ d.run = result
      BY DEF NewCall
    <3> HIDE DEF d
    <3> QED BY <1>7, <1>f, <2>1, <3>1, <3>2
  <2> QED BY <2>2, <2>3
<1>8. ASSUME HandleClosePreviewDock PROVE Tidy'
  BY <1>8, CloseStaysTidy
<1>9. ASSUME ShowAnotherPreview PROVE Tidy'
  BY <1>9, MoveStaysTidy DEF ShowAnotherPreview
<1>10. ASSUME Act, OnlyEnds PROVE Tidy'
  BY <1>10, <1>1, <1>2, <1>3, <1>5, <1>6, <1>7, <1>8, <1>9 DEF Act
<1>11. ASSUME NEW c \in calls, ResultArrives(c), OnlyEnds PROVE Tidy'
  <2>1. PICK run \in BOOLEAN : ShowResult(c.run, run)
    BY <1>11, StatusesAreBoolean DEF ResultArrives, Base
  <2>2. calls' = calls \ {c} /\ UNCHANGED <<place, request>>
    BY <1>11 DEF ResultArrives
  <2>3. CASE c.kind = "restore"
    BY <1>11, <2>1, <2>2, <2>3, RestoredStaysTidy
  <2>4. CASE c.kind \in {"get", "stop"}
    BY <1>11, <2>1, <2>2, <2>4, SideAnswerStaysTidy DEF SideKinds
  <2> QED BY <1>11, <2>3, <2>4 DEF ResultArrives
<1>12. ASSUME NEW c \in calls, InputSent(c), OnlyEnds PROVE Tidy'
  <2>1. PICK run \in BOOLEAN : ShowResult(c.run, run)
    BY <1>12, StatusesAreBoolean DEF InputSent, Base
  <2> DEFINE d == [c EXCEPT !.text = inputQueue, !.alive = Alive(c.run)]
  <2>2. d.kind = c.kind /\ d.session = c.session /\ d.run = c.run
    BY CallsAreCalls DEF Call
  <2>3. calls' = calls \ {c} \/ calls' = (calls \ {c}) \cup {d}
    BY <1>12 DEF InputSent
  <2>4. c.kind \in SideKinds /\ UNCHANGED <<place, request>>
    BY <1>12 DEF InputSent, SideKinds
  <2> HIDE DEF d
  <2> QED BY <1>12, <2>1, <2>2, <2>3, <2>4, SideAnswerStaysTidy
<1>13. ASSUME NEW c \in calls, CallFails(c) \/ InputFails(c) \/ ClosedTerminalStopped(c), OnlyEnds PROVE Tidy'
  <2>1. calls' = calls \ {c} /\ UNCHANGED <<place, request, result, stored>>
    BY <1>13 DEF CallFails, InputFails, ClosedTerminalStopped, paneVars, termVars
  <2>2. c \notin MainCalls \/ (c.kind = "drop" /\ ClosedTerminalStopped(c))
    BY <1>13 DEF CallFails, InputFails, ClosedTerminalStopped, MainCalls, MainKinds
  <2>3. ClosedTerminalStopped(c) => ~Alive(c.run)'
    BY <1>13, CallsAreCalls, EndRun DEF ClosedTerminalStopped, RunEnds, Base, Alive
  <2> QED BY <1>13, <2>1, <2>2, <2>3, PaneStaysTidy DEF MainCalls
<1>14. ASSUME TerminalEnds, OnlyEnds PROVE Tidy'
  BY <1>14, <1>e DEF TerminalEnds, paneVars
<1>15. ASSUME Answer, OnlyEnds PROVE Tidy'
  <2>1. ASSUME NEW c \in calls, RestoreFails(c) PROVE FALSE
    BY <2>1 DEF RestoreFails
  <2>2. ASSUME NEW c \in calls, RunAnswered(c) PROVE Tidy'
    BY <2>2, RunAnsweredStaysTidy
  <2> QED BY <1>11, <1>12, <1>13, <1>14, <1>15, <2>1, <2>2, StoppedStaysTidy, RunFailsStaysTidy DEF Answer
<1>16. ASSUME Poll, OnlyEnds PROVE Tidy'
  <2>1. ShowResult(result, Alive(result)) /\ UNCHANGED <<place, request, calls>>
    BY <1>16 DEF Poll, PollPreviewRun
  <2>2. result' = result /\ stored' = stored
    BY <2>1 DEF ShowResult, SavePreview, PaneIsCurrent, Base, PreviewTypeOK
  <2> QED BY <1>16, <1>e, <2>1, <2>2
<1>17. ASSUME PollFails, OnlyEnds PROVE Tidy'
  BY <1>17, <1>e DEF PollFails
<1> QED BY <1>a, <1>10, <1>15, <1>16, <1>17, RunAnsweredStaysTidy DEF PreviewNext

-----------------------------------------------------------------------------
(* What is typed into a terminal reaches it in the order it was typed.     *)

(* Steps that send no text leave what is queued and sent as it is, or drop *)
(* it; the run shown changes only where no text is under way.              *)
LEMMA TextsStayUnmixed ==
  ASSUME Unmixed, UNCHANGED delivered,
         \A c \in calls' : c.kind = "input" => c \in calls,
         inputQueue' = inputQueue \/ inputQueue' = <<>>,
         sending' = sending \/ \A c \in calls' : c.kind # "input",
         result' = result \/ (inputQueue' = <<>> /\ \A c \in calls' : c.kind # "input")
  PROVE  Unmixed'
<1>1. CASE inputQueue' = inputQueue
  BY <1>1 DEF Unmixed, TextsAreOfShown, TextsAreNew, OneSender, InOrder
<1>2. CASE inputQueue' = <<>>
  BY <1>2 DEF Unmixed, TextsAreOfShown, TextsAreNew, OneSender, InOrder
<1> QED BY <1>1, <1>2

(* The run shown does not change while text is under way.                  *)
LEMMA MixingIsSeen ==
  ASSUME NEW res, Mixes(res), ~mixed'
  PROVE  ~mixed /\ (res = result \/ (inputQueue = <<>> /\ \A c \in calls : c.kind # "input"))
BY DEF Mixes

(* A text typed is newer than what waits, what is under way and what was   *)
(* delivered.                                                              *)
LEMMA TypingStaysUnmixed ==
  ASSUME Base, Unmixed, HandleSendPreviewTerminalInput PROVE Unmixed'
<1> DEFINE x == <<result, typed + 1>>
           q == Append(inputQueue, x)
           n == Len(inputQueue)
           d == [NewCall("input", request, result) EXCEPT !.text = q]
<1>a. /\ typed \in Nat /\ delivered \in Nat /\ delivered <= typed
      /\ \A k \in DOMAIN inputQueue : inputQueue[k][2] \in Nat /\ inputQueue[k][2] <= typed
      /\ inputQueue \in Seq(Text) /\ n \in Nat /\ DOMAIN inputQueue = 1..n
  <2>1. \A k \in DOMAIN inputQueue : inputQueue[k] \in Text
    BY ElementOfSeq, LenProperties DEF Base, PreviewTypeOK
  <2> QED BY <2>1, LenProperties, PreviewAssumption DEF Base, PreviewTypeOK, TextsAreNumbered, Text
<1>b. /\ DOMAIN q = 1..(n + 1) /\ q[n + 1] = x /\ \A k \in 1..n : q[k] = inputQueue[k]
  BY <1>a, SMT
<1>c. x[1] = result /\ x[2] = typed + 1
  OBVIOUS
<1> HIDE DEF x, q, n
<1>1. InOrder(q)
  <2> SUFFICES ASSUME NEW i \in 1..(n + 1), NEW j \in 1..(n + 1), i < j PROVE q[i][2] < q[j][2]
    BY <1>b DEF InOrder
  <2>1. i \in 1..n
    BY <1>a
  <2>2. CASE j = n + 1
    BY <1>a, <1>b, <1>c, <2>1, <2>2
  <2>3. CASE j \in 1..n
    BY <1>a, <1>b, <2>1, <2>3 DEF Unmixed, TextsAreNew, InOrder
  <2> QED BY <1>a, <2>2, <2>3
<1>2. \A k \in DOMAIN q : q[k][1] = result /\ delivered < q[k][2]
  <2> SUFFICES ASSUME NEW k \in 1..(n + 1) PROVE q[k][1] = result /\ delivered < q[k][2]
    BY <1>b
  <2>1. CASE k = n + 1
    BY <1>a, <1>b, <1>c, <2>1
  <2>2. CASE k \in 1..n
    BY <1>a, <1>b, <2>2 DEF Unmixed, TextsAreNew, TextsAreOfShown
  <2> QED BY <1>a, <2>1, <2>2
<1>3. UNCHANGED <<result, delivered>>
  BY DEF HandleSendPreviewTerminalInput, paneVars
<1>4. CASE sending
  <2>1. inputQueue' = q /\ UNCHANGED <<sending, calls>>
    BY <1>4 DEF HandleSendPreviewTerminalInput, FlushPreviewTerminalInputQueue, q, x
  <2>2. ASSUME NEW c \in calls, c.kind = "input", NEW k \in DOMAIN c.text, NEW j \in DOMAIN q
        PROVE  c.text[k][2] < q[j][2]
    <3>1. c.text[k][2] <= typed /\ c.text[k][2] \in Nat
      <4>1. c.text \in Seq(Text)
        BY CallsAreCalls DEF Call
      <4>2. c.text[k] \in Text
        BY <4>1, ElementOfSeq, LenProperties
      <4> QED BY <4>2 DEF Text, Base, TextsAreNumbered
    <3>2. CASE j = n + 1
      BY <1>a, <1>b, <1>c, <3>1, <3>2
    <3>3. CASE j \in 1..n
      BY <1>a, <1>b, <2>2, <3>3 DEF Unmixed, TextsAreNew
    <3> QED BY <1>a, <1>b, <3>2, <3>3
  <2>3. TextsAreNew'
    BY <1>1, <1>2, <1>3, <2>1, <2>2 DEF Unmixed, TextsAreNew, InOrder
  <2> QED BY <1>2, <1>3, <2>1, <2>3 DEF Unmixed, TextsAreOfShown, OneSender
<1>5. CASE ~sending
  <2>1. inputQueue' = <<>> /\ sending' = TRUE /\ calls' = calls \cup {d}
    BY <1>5 DEF HandleSendPreviewTerminalInput, FlushPreviewTerminalInputQueue, q, x
  <2>2. d.kind = "input" /\ d.run = result /\ d.text = q
    BY DEF NewCall
  <2> HIDE DEF d
  <2>3. \A c \in calls' : c.kind = "input" => c = d
    BY <1>5, <2>1 DEF Unmixed, OneSender
  <2>4. OneSender' /\ TextsAreOfShown'
    BY <1>2, <1>3, <2>1, <2>2, <2>3 DEF OneSender, TextsAreOfShown
  <2>5. TextsAreNew'
    BY <1>1, <1>2, <1>3, <2>1, <2>2, <2>3 DEF TextsAreNew, InOrder
  <2> QED BY <2>4, <2>5 DEF Unmixed
<1> QED BY <1>4, <1>5

(* Text that is delivered is not misled, and what waits is newer.          *)
LEMMA DeliveredInOrder ==
  ASSUME Base, Unmixed, NEW c \in calls, c.kind = "input", Deliver(c.run, c.text)
  PROVE  misled' = misled /\ \A k \in DOMAIN inputQueue : delivered' < inputQueue[k][2]
<1>1. c.text \in Seq(Text) /\ c.text # <<>>
  BY DEF Base, PreviewTypeOK, TextsAreNumbered, Call
<1>2. 1 \in DOMAIN c.text /\ Len(c.text) \in DOMAIN c.text /\ c.text[1] \in Text
  BY <1>1, EmptySeq, LenProperties, ElementOfSeq
<1>3. c.text[1][2] \in Nat /\ delivered \in Nat /\ delivered < c.text[1][2] /\ misled \in BOOLEAN
  BY <1>2, PreviewAssumption DEF Text, Unmixed, TextsAreNew, Base, PreviewTypeOK
<1>4. \A k \in DOMAIN c.text : c.text[k][1] = c.run
  BY DEF Unmixed, TextsAreOfShown
<1>5. misled' = misled
  BY <1>3, <1>4 DEF Deliver
<1>6. delivered' = c.text[Len(c.text)][2]
  BY DEF Deliver, Last
<1> QED BY <1>2, <1>5, <1>6 DEF Unmixed, TextsAreNew

(* One call sends at a time, so that what it leaves waiting comes after it. *)
LEMMA SendingStaysUnmixed ==
  ASSUME Base, Unmixed, NEW c \in calls, InputSent(c) \/ InputFails(c)
  PROVE  Unmixed' /\ misled' = misled
<1>1. c.kind = "input" /\ c.run = result /\ \A x \in calls : x.kind = "input" => x = c
  BY DEF InputSent, InputFails, Unmixed, TextsAreOfShown, OneSender
<1>2. CASE InputSent(c)
  <2> DEFINE d == [c EXCEPT !.text = inputQueue, !.alive = Alive(c.run)]
  <2>1. Deliver(c.run, c.text) /\ result' = result /\ inputQueue' = <<>>
    BY <1>1, <1>2 DEF InputSent, ShowResult
  <2>2. misled' = misled /\ \A k \in DOMAIN inputQueue : delivered' < inputQueue[k][2]
    BY <1>1, <2>1, DeliveredInOrder
  <2>3. d.kind = "input" /\ d.run = result /\ d.text = inputQueue
    BY <1>1, CallsAreCalls DEF Call
  <2>4. /\ \A x \in calls' : x.kind = "input" => x = d
        /\ (\E x \in calls' : x.kind = "input") => sending'
    BY <1>1, <1>2 DEF InputSent
  <2> HIDE DEF d
  <2>5. TextsAreOfShown' /\ OneSender'
    BY <2>1, <2>3, <2>4 DEF Unmixed, TextsAreOfShown, OneSender
  <2>6. TextsAreNew'
    BY <2>1, <2>2, <2>3, <2>4 DEF Unmixed, TextsAreNew, InOrder
  <2> QED BY <2>2, <2>5, <2>6 DEF Unmixed
<1>3. CASE InputFails(c)
  <2>1. /\ \A x \in calls' : x.kind # "input"
        /\ UNCHANGED <<inputQueue, result>>
    BY <1>1, <1>3 DEF InputFails, paneVars
  <2>2. misled' = misled /\ \A k \in DOMAIN inputQueue : delivered' < inputQueue[k][2]
    BY <1>1, <1>3, DeliveredInOrder DEF InputFails, Unmixed, TextsAreNew
  <2> QED BY <2>1, <2>2 DEF Unmixed, TextsAreOfShown, TextsAreNew, OneSender, InOrder
<1> QED BY <1>2, <1>3

(* Every step keeps the texts in order, unless the run shown changed under *)
(* one.                                                                    *)
LEMMA NextKeepsOrder ==
  ASSUME Base, Unmixed, PreviewNext, ~mixed' PROVE Unmixed' /\ misled' = misled
<1>a. ASSUME UNCHANGED <<delivered, misled, inputQueue, sending, result>>,
             \A c \in calls' : c \in calls \/ c.kind # "input"
      PROVE  Unmixed' /\ misled' = misled
  BY <1>a, TextsStayUnmixed
<1>b. ASSUME UNCHANGED <<delivered, misled, inputQueue, sending>>, Mixes(result'),
             \A c \in calls' : c \in calls \/ c.kind # "input"
      PROVE  Unmixed' /\ misled' = misled
  <2>1. result' = result \/ (inputQueue = <<>> /\ \A c \in calls : c.kind # "input")
    BY <1>b, MixingIsSeen
  <2> QED BY <1>b, <2>1, TextsStayUnmixed
<1>k. ASSUME NEW kind \in {"open", "run", "get", "restore", "stop", "drop"}, NEW s, NEW r
      PROVE  NewCall(kind, s, r).kind # "input"
  BY DEF NewCall
<1>c. ASSUME NEW s, NEW keep, NEW other, NEW v, NEW others \in SUBSET calls, Open(s, keep, other, v, others),
             UNCHANGED <<inputQueue, sending, textVars>>
      PROVE  Unmixed' /\ misled' = misled
  BY <1>b, <1>c, <1>k DEF Open, textVars
<1>d. ASSUME NEW s, NEW keep, NEW other, NEW v, ExecutePreviewRequest(s, keep, other, v),
             UNCHANGED <<inputQueue, sending, textVars>>
      PROVE  Unmixed' /\ misled' = misled
  <2> DEFINE d == [NewCall("open", s, result) EXCEPT !.keep = keep, !.other = other]
  <2>1. d.kind # "input"
    BY DEF NewCall
  <2> HIDE DEF d
  <2>2. CASE request # NoSession /\ IsTerminal(result) /\ running
    BY <1>a, <1>d, <2>1, <2>2 DEF ExecutePreviewRequest, textVars, d
  <2>3. CASE ~(request # NoSession /\ IsTerminal(result) /\ running)
    BY <1>c, <1>d, <2>3 DEF ExecutePreviewRequest
  <2> QED BY <2>2, <2>3
<1>1. ASSUME Act PROVE Unmixed' /\ misled' = misled
  <2>1. ASSUME HandleRequestPreview PROVE Unmixed' /\ misled' = misled
    BY <1>d, <2>1 DEF HandleRequestPreview
  <2>2. ASSUME NEW v, HandleRunPreviewCode(v) PROVE Unmixed' /\ misled' = misled
    BY <1>d, <2>2 DEF HandleRunPreviewCode
  <2>3. ASSUME HandleRunDraftCode \/ HandleSwitchView PROVE Unmixed' /\ misled' = misled
    BY <1>a, <2>2, <2>3 DEF HandleRunDraftCode, HandleSwitchView, paneVars, termVars, textVars
  <2>4. ASSUME GetRun \/ HandleTerminatePreviewTerminal PROVE Unmixed' /\ misled' = misled
    BY <1>a, <1>k, <2>4 DEF GetRun, HandleTerminatePreviewTerminal, paneVars, termVars, textVars
  <2>5. ASSUME HandleRefreshPreviewDock \/ HandleResizePreviewTerminal PROVE Unmixed' /\ misled' = misled
    BY <1>d, <2>4, <2>5 DEF HandleRefreshPreviewDock, HandleResizePreviewTerminal
  <2>6. ASSUME SendData \/ HandleSubmit PROVE Unmixed' /\ misled' = misled
    BY <2>6, TypingStaysUnmixed DEF SendData, HandleSubmit, HandleSendPreviewTerminalInput
  <2>7. ASSUME HandleClosePreviewDock PROVE Unmixed' /\ misled' = misled
    BY <1>b, <1>k, <2>7 DEF HandleClosePreviewDock, ResetPreviewState, textVars
  <2>8. ASSUME ShowAnotherPreview PROVE Unmixed' /\ misled' = misled
    <3>1. PICK s \in Routes : RestorePreview(s)
      BY <2>8 DEF ShowAnotherPreview
    <3>2. /\ Mixes(0) /\ result' = 0 /\ inputQueue' = <<>> /\ UNCHANGED <<delivered, misled>>
          /\ \A c \in calls' : c \in calls \/ c.kind # "input"
      BY <1>k, <2>8, <3>1 DEF ShowAnotherPreview, RestorePreview, textVars
    <3>3. result = 0 \/ \A c \in calls : c.kind # "input"
      BY <3>2, MixingIsSeen
    <3>4. \A c \in calls : c.kind = "input" => result # 0
      BY CallsAreCalls DEF Unmixed, TextsAreOfShown
    <3> QED BY <3>2, <3>3, <3>4, TextsStayUnmixed
  <2> QED BY <1>1, <2>1, <2>3, <2>4, <2>5, <2>6, <2>7, <2>8 DEF Act
<1>2. ASSUME NEW c \in calls,
             \/ OldTerminalStopped(c) \/ RunAnswered(c) \/ RunFails(c) \/ ResultArrives(c) \/ RestoreFails(c)
             \/ CallFails(c) \/ ClosedTerminalStopped(c) \/ InputSent(c) \/ InputFails(c)
      PROVE  Unmixed' /\ misled' = misled
  <2>1. CASE OldTerminalStopped(c)
    BY <1>c, <2>1 DEF OldTerminalStopped
  <2>2. CASE RunAnswered(c) \/ RunFails(c) \/ ResultArrives(c)
    <3>1. UNCHANGED <<inputQueue, sending, textVars>> /\ calls' = calls \ {c} /\ Mixes(result')
      BY <2>2 DEF RunAnswered, RunFails, ResultArrives, ShowResult
    <3> QED BY <1>b, <3>1 DEF textVars
  <2>3. CASE RestoreFails(c)
    BY <1>b, <2>3 DEF RestoreFails, ResetPreviewState, textVars
  <2>4. CASE CallFails(c) \/ ClosedTerminalStopped(c)
    BY <1>a, <2>4 DEF CallFails, ClosedTerminalStopped, paneVars, termVars, textVars
  <2> QED BY <1>2, <2>1, <2>2, <2>3, <2>4, SendingStaysUnmixed
<1>3. ASSUME TerminalEnds \/ Poll \/ PollFails PROVE Unmixed' /\ misled' = misled
  BY <1>a, <1>3 DEF TerminalEnds, Poll, PollPreviewRun, PollFails, ShowResult, paneVars, termVars, textVars
<1> QED BY <1>1, <1>2, <1>3 DEF PreviewNext, Answer

-----------------------------------------------------------------------------
(* The theorems.                                                           *)

(* The inductive invariant.                                                *)
PaneInv == Base /\ KeptInv /\ OrderInv

(* The answers that cross, and the runs that change under a text, are      *)
(* remembered.                                                             *)
LEMMA HistoriesGrow ==
  ASSUME Base, PreviewNext PROVE (crossed => crossed') /\ (mixed => mixed')
<1>t. crossed \in BOOLEAN /\ mixed \in BOOLEAN
  BY DEF Base, PreviewTypeOK
<1>1. ASSUME NEW s, NEW keep, NEW other, NEW v, ExecutePreviewRequest(s, keep, other, v)
      PROVE  (crossed => crossed') /\ (mixed => mixed')
  BY <1>1 DEF ExecutePreviewRequest, Open, Mixes
<1>2. ASSUME Act PROVE (crossed => crossed') /\ (mixed => mixed')
  <2>1. CASE HandleRequestPreview
    BY <1>1, <2>1 DEF HandleRequestPreview
  <2>a. ASSUME NEW v, HandleRunPreviewCode(v) PROVE (crossed => crossed') /\ (mixed => mixed')
    BY <1>1, <2>a DEF HandleRunPreviewCode
  <2>b. ASSUME GetRun PROVE UNCHANGED <<crossed, mixed>>
    BY <2>b DEF GetRun, termVars
  <2>2. CASE HandleRunDraftCode \/ HandleSwitchView
    BY <2>a, <2>2 DEF HandleRunDraftCode, HandleSwitchView, termVars
  <2>c. CASE HandleRefreshPreviewDock \/ HandleResizePreviewTerminal
    <3>1. CASE ExecutePreviewRequest(request, TRUE, FALSE, view)
      BY <1>1, <3>1
    <3>2. CASE GetRun
      BY <2>b, <3>2
    <3> QED BY <2>c, <3>1, <3>2 DEF HandleRefreshPreviewDock, HandleResizePreviewTerminal
  <2>3. CASE HandleTerminatePreviewTerminal \/ SendData \/ HandleSubmit
    BY <2>3 DEF HandleTerminatePreviewTerminal, SendData, HandleSubmit, HandleSendPreviewTerminalInput,
            termVars
  <2>4. CASE HandleClosePreviewDock
    BY <2>4 DEF HandleClosePreviewDock, ResetPreviewState, Mixes
  <2>5. CASE ShowAnotherPreview
    BY <2>5 DEF ShowAnotherPreview, RestorePreview, Mixes
  <2> QED BY <1>2, <2>1, <2>2, <2>c, <2>3, <2>4, <2>5 DEF Act
<1>3. ASSUME NEW c \in calls,
             \/ OldTerminalStopped(c) \/ RunAnswered(c) \/ RunFails(c) \/ ResultArrives(c) \/ RestoreFails(c)
             \/ CallFails(c) \/ ClosedTerminalStopped(c) \/ InputSent(c) \/ InputFails(c)
      PROVE  (crossed => crossed') /\ (mixed => mixed')
  <2>1. CASE OldTerminalStopped(c)
    BY <2>1 DEF OldTerminalStopped, Open, Mixes
  <2>2. CASE RunAnswered(c) \/ RunFails(c)
    <3>1. Mixes(result') /\ (crossed' = crossed \/ crossed' = (crossed \/ calls # {c}))
      BY <2>2 DEF RunAnswered, RunFails, ShowResult
    <3> QED BY <1>t, <3>1 DEF Mixes
  <2>3. CASE ResultArrives(c) \/ InputSent(c)
    <3>1. Mixes(result') /\ crossed' = crossed
      BY <2>3 DEF ResultArrives, InputSent, ShowResult
    <3> QED BY <1>t, <3>1 DEF Mixes
  <2>4. CASE RestoreFails(c)
    BY <2>4 DEF RestoreFails, ResetPreviewState, Mixes
  <2>5. CASE CallFails(c) \/ ClosedTerminalStopped(c) \/ InputFails(c)
    <3>1. mixed' = mixed /\ (crossed' = crossed \/ crossed' = (crossed \/ c.kind = "drop"))
      BY <2>5 DEF CallFails, ClosedTerminalStopped, InputFails, termVars
    <3> QED BY <1>t, <3>1
  <2> QED BY <1>3, <2>1, <2>2, <2>3, <2>4, <2>5
<1>4. ASSUME TerminalEnds \/ Poll \/ PollFails PROVE (crossed => crossed') /\ (mixed => mixed')
  <2>1. CASE Poll
    BY <2>1 DEF Poll, PollPreviewRun, ShowResult, Mixes
  <2>2. CASE TerminalEnds \/ PollFails
    BY <2>2 DEF TerminalEnds, PollFails, termVars
  <2> QED BY <1>4, <2>1, <2>2
<1> QED BY <1>2, <1>3, <1>4 DEF PreviewNext, Answer

(* Nothing runs and nothing is in flight on a page just opened.            *)
LEMMA InitIsTidy ==
  ASSUME PreviewInit PROVE PaneInv
<1>1. place \in Sessions /\ place # NoSession /\ NoSession \in Routes
  BY PagesAssumption DEF PreviewInit, Routes
<1>2. /\ runs = <<>> /\ Len(runs) = 0 /\ DOMAIN runs = {} /\ DOMAIN inputQueue = {}
      /\ inputQueue \in Seq(Text) /\ runs \in Seq(Run)
  <2> HIDE DEF Text, Run
  <2> QED BY DEF PreviewInit
<1>3. Base
  <2>1. PreviewTypeOK
    <3>1. stored \in [Sessions -> {<<>>} \cup (Sessions \X (0..MaxRuns))]
      BY DEF PreviewInit
    <3>2. 0 \in 0..MaxActs /\ 0 \in 0..0 /\ 0 <= MaxRuns
      BY PreviewAssumption
    <3>3. place \in Routes /\ request \in Routes
      BY <1>1 DEF PreviewInit, Routes
    <3> HIDE DEF Text, Call
    <3> QED BY <1>2, <3>1, <3>2, <3>3 DEF PreviewInit, PreviewTypeOK, Run
  <2>2. TextsAreNumbered /\ CallsAreOfRuns /\ StoredRunsExist
    BY <1>2 DEF PreviewInit, TextsAreNumbered, CallsAreOfRuns, StoredRunsExist, Stores
  <2> QED BY <2>1, <2>2 DEF Base
<1>4. KeptInv
  BY <1>1, <1>2 DEF PreviewInit, KeptInv, PaneIsCurrent, Alive, Uncrossed, DockIsOwn, CallsAreOwn,
     MainCallsAreAlone, MainCalls, SideCallsAgree, SideCalls, TerminalIsKept
<1>5. OrderInv
  BY <1>2 DEF PreviewInit, OrderInv, Unmixed, TextsAreOfShown, TextsAreNew, OneSender, InOrder, InputInOrder
<1> QED BY <1>3, <1>4, <1>5 DEF PaneInv

(* Every step keeps the invariant.                                         *)
LEMMA NextKeepsPane ==
  ASSUME PaneInv, PreviewNext PROVE PaneInv'
<1>1. Base /\ PaneIsCurrent /\ (~crossed => Tidy)
  BY DEF PaneInv, KeptInv, TerminalIsKept, Tidy, Reached
<1>2. Base'
  BY <1>1, ActKeepsBase, AnswerKeepsBase, PollKeepsBase DEF PreviewNext
<1>3. PaneIsCurrent'
  BY <1>1, <1>2, NextKeepsCurrent
<1>4. ~crossed' => Tidy'
  BY <1>1, <1>2, HistoriesGrow, NextStaysTidy
<1>5. KeptInv'
  BY <1>3, <1>4 DEF KeptInv, TerminalIsKept, Tidy, Reached
<1>6. ~mixed' => Unmixed' /\ misled' = misled /\ ~misled
  BY <1>1, HistoriesGrow, NextKeepsOrder DEF PaneInv, OrderInv, InputInOrder
<1>7. OrderInv'
  BY <1>6 DEF OrderInv, InputInOrder
<1> QED BY <1>2, <1>5, <1>7 DEF PaneInv

(* A step that changes nothing keeps it.                                   *)
LEMMA StutterKeepsPane ==
  ASSUME PaneInv, UNCHANGED previewVars PROVE PaneInv'
<1> USE DEF previewVars, paneVars, termVars, textVars
<1>1. Base'
  <2> HIDE DEF Text, Call
  <2> QED BY DEF PaneInv, Base, PreviewTypeOK, TextsAreNumbered, CallsAreOfRuns, StoredRunsExist
<1>2. KeptInv'
  BY DEF PaneInv, KeptInv, PaneIsCurrent, Alive, Uncrossed, DockIsOwn, CallsAreOwn, MainCallsAreAlone,
     MainCalls, SideCallsAgree, SideCalls, TerminalIsKept
<1>3. OrderInv'
  BY DEF PaneInv, OrderInv, Unmixed, TextsAreOfShown, TextsAreNew, OneSender, InOrder, InputInOrder
<1> QED BY <1>1, <1>2, <1>3 DEF PaneInv

(* The preview pane keeps its invariant for ever.                          *)
THEOREM PaneInvariant == PreviewSpec => []PaneInv
<1>1. PreviewInit => PaneInv
  BY InitIsTidy
<1>2. PaneInv /\ [PreviewNext]_previewVars => PaneInv'
  BY NextKeepsPane, StutterKeepsPane
<1> QED BY <1>1, <1>2, PTL DEF PreviewSpec

(* The variables keep their types: what is queued and sent is a list of    *)
(* texts that were typed, and a call is about a run the server knows.      *)
THEOREM PreviewTypeCorrect == PreviewSpec => []PreviewTypeOK
<1>1. PaneInv => PreviewTypeOK
  BY DEF PaneInv, Base
<1> QED BY <1>1, PaneInvariant, PTL

(* A terminal that runs can be reached, unless an answer was lost or came  *)
(* after the pane had moved on (usePreviewController): the pane shows it,  *)
(* a call that stops or restores it is in flight, or its session's stored  *)
(* preview names it.                                                       *)
THEOREM TerminalKept == PreviewSpec => []TerminalIsKept
<1>1. PaneInv => TerminalIsKept
  BY DEF PaneInv, KeptInv
<1> QED BY <1>1, PaneInvariant, PTL

(* What is typed into a terminal reaches that terminal in the order typed  *)
(* (flushPreviewTerminalInputQueue), unless the run shown changed while    *)
(* text waited or was being sent.                                          *)
THEOREM InputKeepsOrder == PreviewSpec => []InputInOrder
<1>1. PaneInv => InputInOrder
  BY DEF PaneInv, OrderInv
<1> QED BY <1>1, PaneInvariant, PTL
=============================================================================
