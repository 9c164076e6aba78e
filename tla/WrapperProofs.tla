--------------------------- MODULE WrapperProofs ---------------------------
(***************************************************************************)
(* Theorems about Wrapper, for any number of runs at a time, any process   *)
(* ids, argument lists, signals and kills.                                 *)
(***************************************************************************)
EXTENDS Wrapper, SequenceTheorems, TLAPS

(* The set-up and the cleanup as lists *)

\* What each of the 21 commands of the set-up makes.
LEMMA SetupMakes ==
  /\ Setup[1].makes = "netns" /\ Setup[2].makes = "link"
  /\ Setup[3].makes = "moved" /\ Setup[4].makes = "host address"
  /\ Setup[5].makes = "host up" /\ Setup[6].makes = "address"
  /\ Setup[7].makes = "up" /\ Setup[8].makes = "lo"
  /\ Setup[9].makes = "route" /\ Setup[10].makes = "filter"
  /\ Setup[11].makes = "output chain" /\ Setup[12].makes = "no RST"
  /\ Setup[13].makes = "ip_forward" /\ Setup[14].makes = "route_localnet"
  /\ Setup[15].makes = "forwarding" /\ Setup[16].makes = "table"
  /\ Setup[17].makes = "prerouting" /\ Setup[18].makes = "postrouting"
  /\ Setup[19].makes = "dnat" /\ Setup[20].makes = "masquerade to client"
  /\ Setup[21].makes = "masquerade from client"
PROOF BY DEF Setup, Command

LEMMA SetupDomain ==
  /\ Len(Setup) = 21 /\ DOMAIN Setup = 1 .. 21
  /\ \A k \in DOMAIN Setup : k \in {1, 2, 3, 4, 5, 6, 7, 8, 9, 10, 11,
                   12, 13, 14, 15, 16, 17, 18, 19, 20, 21}
<1>1. Len(Setup) = 21 /\ DOMAIN Setup = 1 .. 21
  BY DEF Setup
<1> QED  BY <1>1

\* The first command alone makes the namespace, and the thirteenth alone changes
\* the host.
LEMMA SetupCommands ==
  \A k \in DOMAIN Setup : /\ Setup[k].makes = "netns" <=> k = 1
                          /\ Setup[k].makes = "ip_forward" <=> k = 13
PROOF BY SetupMakes, SetupDomain

LEMMA SetupThings ==
  /\ \A k \in DOMAIN Setup : Setup[k].makes # "ip_forward" => Setup[k].makes \in Things
  /\ "netns" \in Things
PROOF BY SetupCommands, SetupDomain DEF Things

LEMMA ThingsParts == Things \subseteq InNamespace \cup OfPair \cup OfTable
<1>1. ASSUME NEW k \in DOMAIN Setup, Setup[k].makes # "ip_forward"
      PROVE  Setup[k].makes \in InNamespace \cup OfPair \cup OfTable
  <2>1. CASE k \in {1, 3, 6, 7, 8, 9, 10, 11, 12}
    BY <2>1, SetupMakes DEF InNamespace
  <2>2. CASE k \in {2, 4, 5, 14, 15}
    BY <2>2, SetupMakes DEF OfPair
  <2>3. CASE k \in {16, 17, 18, 19, 20, 21}
    BY <2>3, SetupMakes DEF OfTable
  <2>4. k # 13
    BY <1>1, SetupMakes
  <2> QED  BY <2>1, <2>2, <2>3, <2>4, SetupDomain
<1> QED  BY <1>1 DEF Things

\* What cleanup removes, and what may be left of it.
Removals == {"netns", "link", "table"}
Todos == {SubSeq(Cleanup, k + 1, Len(Cleanup)) : k \in 0 .. Len(Cleanup)}

LEMMA CleanupType ==
  /\ Cleanup \in Seq(Removals) /\ Len(Cleanup) = 3
  /\ \A j \in 1 .. 3 : Cleanup[j] \in Removals
BY DEF Cleanup, Removals

LEMMA TodosEnds == Cleanup \in Todos /\ Cleanup # << >> /\ << >> \in Todos
<1>1. Cleanup = SubSeq(Cleanup, 1, 3)
  BY CleanupType, SubSeqFull
<1>2. << >> = SubSeq(Cleanup, 4, 3)
  BY SubSeqEmpty
<1>3. Cleanup # << >>
  BY CleanupType, EmptySeq
<1> QED  BY <1>1, <1>2, <1>3, CleanupType DEF Todos

LEMMA TodosType ==
  ASSUME NEW t \in Todos
  PROVE  /\ t \in Seq(Removals) /\ Len(t) \in 0 .. 3
         /\ t = << >> <=> Len(t) = 0
<1>1. PICK k \in 0 .. 3 : t = SubSeq(Cleanup, k + 1, 3)
  BY CleanupType DEF Todos
<1>2. /\ t \in Seq(Removals)
      /\ Len(t) = IF k + 1 <= 3 THEN 3 - (k + 1) + 1 ELSE 0
  <2>1. \A j \in k + 1 .. 3 : Cleanup[j] \in Removals
    BY CleanupType
  <2> QED  BY <1>1, <2>1, SubSeqProperties
<1>3. Len(t) = 0 => t = << >>
  BY <1>2, EmptySeq
<1> QED  BY <1>2, <1>3, EmptySeq

\* Its steps, by how much is left.
LEMMA TodoStep ==
  ASSUME NEW t \in Todos, t # << >>
  PROVE  /\ Tail(t) \in Todos /\ Len(Tail(t)) = Len(t) - 1 /\ Tail(t) # t
         /\ Len(t) = 3 => Head(t) = "netns"
         /\ Len(t) = 2 => Head(t) = "link"
         /\ Len(t) = 1 => Head(t) = "table"
<1>1. PICK k \in 0 .. 3 : t = SubSeq(Cleanup, k + 1, 3)
  BY CleanupType DEF Todos
<1>2. k + 1 \in 1 .. 3
  BY <1>1, SubSeqEmpty
<1>3. Head(t) = Cleanup[k + 1] /\ Tail(t) = SubSeq(Cleanup, (k + 1) + 1, 3)
  BY <1>1, <1>2, CleanupType, HeadTailOfSubSeq
<1>4. Len(t) = 3 - k
  <2>1. \A j \in k + 1 .. 3 : Cleanup[j] \in Removals
    BY CleanupType
  <2> QED  BY <1>1, <1>2, <2>1, SubSeqProperties
<1>5. Tail(t) \in Todos
  BY <1>2, <1>3, CleanupType DEF Todos
<1>6. Len(Tail(t)) = Len(t) - 1
  BY TodosType, HeadTailProperties
<1>7. Tail(t) # t
  <2>1. Len(t) # Len(t) - 1
    BY <1>4
  <2> QED  BY <1>6, <2>1
<1>8. Cleanup[1] = "netns" /\ Cleanup[2] = "link" /\ Cleanup[3] = "table"
  BY DEF Cleanup
<1> QED  BY <1>2, <1>3, <1>4, <1>5, <1>6, <1>7, <1>8

-----------------------------------------------------------------------------
(* The inductive invariant *)

\* Every variable keeps to its values; todo is what is left of cleanup.
Types ==
  /\ phase \in [Slots -> {"idle", "setup", "curlu", "exiting", "over", "plain", "killed"}]
  /\ args \in [Slots -> CommandLines \cup {<< >>}] /\ pid \in [Slots -> Pids \cup {0}]
  /\ at \in [Slots -> 1 .. 22] /\ signals \in [Slots -> 0 .. MaxSignals]
  /\ todo \in [Slots -> Todos]
  /\ have \in [Pids -> SUBSET Things] /\ forward \in BOOLEAN
  /\ starts \in 0 .. MaxStarts /\ kills \in 0 .. MaxKills /\ orphaned \subseteq Pids

\* No two runs that go on have a process id, and so a name, in common.
Apart ==
  /\ \A r \in Slots : Live(r) => pid[r] \in Pids
  /\ \A r, s \in Slots : Live(r) /\ Live(s) /\ pid[r] = pid[s] => r = s

\* What cleanup has removed is not there: behind the namespace nothing in it,
\* behind the link nothing of the pair.  A run leaves by way of a whole cleanup.
Removing ==
  \A r \in Slots :
    /\ phase[r] = "exiting" => todo[r] # << >>
    /\ phase[r] \notin {"setup", "exiting"} => todo[r] = << >>
    /\ Live(r) /\ Len(todo[r]) \in {1, 2} => have[pid[r]] \cap InNamespace = {}
    /\ Live(r) /\ Len(todo[r]) = 1 => have[pid[r]] \cap OfPair = {}

\* A set-up that still has its namespace has all it has made.  A signal takes
\* the namespace away, and no command but the first brings it back.
Made(n) == {Setup[k].makes : k \in 1 .. n - 1} \ {"ip_forward"}
Complete ==
  \A r \in Slots : phase[r] = "setup" =>
    /\ "netns" \in have[pid[r]] => Made(at[r]) \subseteq have[pid[r]]
    /\ at[r] > 13 => forward

IInv == Types /\ Apart /\ Removing /\ Complete /\ RunsInCompleteNamespace /\ NoLeftovers

LEMMA InitInv == Init => IInv
<1> SUFFICES ASSUME Init PROVE IInv
  OBVIOUS
<1>1. Types
  <2>1. todo \in [Slots -> Todos]
    BY TodosEnds DEF Init
  <2>2. /\ signals \in [Slots -> 0 .. MaxSignals]
        /\ starts \in 0 .. MaxStarts /\ kills \in 0 .. MaxKills
    BY WrapperAssumption DEF Init
  <2>3. at \in [Slots -> 1 .. 22] /\ have \in [Pids -> SUBSET Things]
    BY DEF Init
  <2> QED  BY <2>1, <2>2, <2>3 DEF Init, Types
<1>2. \A r \in Slots : phase[r] = "idle" /\ todo[r] = << >>
  BY DEF Init
<1>3. Apart /\ Removing /\ Complete /\ RunsInCompleteNamespace
  BY <1>2 DEF Apart, Removing, Complete, RunsInCompleteNamespace, Live
<1>4. NoLeftovers
  BY DEF Init, NoLeftovers
<1> QED  BY <1>1, <1>3, <1>4 DEF IInv

-----------------------------------------------------------------------------
(* Types *)

LEMMA Typed == ASSUME IInv, [Next]_vars PROVE Types'
<1> USE DEF IInv, Types
<1>1. CASE UNCHANGED vars
  BY <1>1 DEF vars
<1>2. ASSUME NEW r \in Slots, Start(r) PROVE Types'
  BY <1>2, TodosEnds, WrapperAssumption DEF Start, Live
<1>3. ASSUME NEW r \in Slots, SetUp(r) PROVE Types'
  <2> DEFINE c == Setup[at[r]]
  <2>1. at[r] \in DOMAIN Setup /\ at'[r] = at[r] + 1
    BY <1>3, SetupDomain DEF SetUp
  <2>2. at' \in [Slots -> 1 .. 22]
    <3>1. at[r] + 1 \in 1 .. 22
      BY <1>3, SetupDomain DEF SetUp
    <3> QED  BY <1>3, <3>1 DEF SetUp
  <2>3. have' \in [Pids -> SUBSET Things] /\ forward' \in BOOLEAN
    <3>1. CASE c.makes = "ip_forward"
      BY <1>3, <3>1 DEF SetUp, IsGlobal
    <3>2. CASE c.makes # "ip_forward"
      <4>1. c.makes \in Things
        BY <2>1, <3>2, SetupThings
      <4>2. /\ have' = [have EXCEPT ![pid[r]] = @ \cup {c.makes}]
            /\ UNCHANGED forward
        BY <1>3, <3>2 DEF SetUp, IsGlobal, Name
      <4> QED  BY <4>1, <4>2
    <3> QED  BY <3>1, <3>2
  <2> QED  BY <1>3, <2>2, <2>3 DEF SetUp
<1>4. ASSUME NEW r \in Slots, SetUpFails(r) PROVE Types'
  BY <1>4, TodosEnds DEF SetUpFails, OnFailure, Leave
<1>5. ASSUME NEW r \in Slots, RunCurlu(r) PROVE Types'
  BY <1>5 DEF RunCurlu
<1>6. ASSUME NEW r \in Slots, NoCurlu(r) \/ CurluReturns(r) PROVE Types'
  BY <1>6, TodosEnds DEF NoCurlu, CurluReturns, Leave
<1>7. ASSUME NEW r \in Slots, Remove(r) PROVE Types'
  <2>1. Tail(todo[r]) \in Todos
    BY <1>7, TodoStep DEF Remove
  <2>2. Deleted(Head(todo[r]), have[pid[r]]) \subseteq have[pid[r]]
    <3>1. Head(todo[r]) \in {"netns", "link", "table"}
      BY <1>7, TodoStep, TodosType DEF Remove
    <3> QED  BY <3>1 DEF Deleted
  <2>3. have' \in [Pids -> SUBSET Things]
    BY <1>7, <2>2 DEF Remove, Name
  <2>4. /\ at' \in [Slots -> 1 .. 22] /\ todo' \in [Slots -> Todos]
        /\ signals' \in [Slots -> 0 .. MaxSignals]
    BY <1>7, <2>1, WrapperAssumption DEF Remove
  <2> QED  BY <1>7, <2>3, <2>4 DEF Remove
<1>8. ASSUME NEW r \in Slots, Signal(r) PROVE Types'
  <2>1. signals[r] + 1 \in 0 .. MaxSignals
    BY <1>8, WrapperAssumption DEF Signal
  <2> QED  BY <1>8, <2>1, TodosEnds DEF Signal
<1>9. ASSUME NEW r \in Slots, Kill(r) PROVE Types'
  <2>1. orphaned' \subseteq Pids
    BY <1>9 DEF Kill, Apart
  <2>2. kills' \in 0 .. MaxKills
    BY <1>9, WrapperAssumption DEF Kill
  <2>3. at' \in [Slots -> 1 .. 22] /\ signals' \in [Slots -> 0 .. MaxSignals]
    BY <1>9, WrapperAssumption DEF Kill
  <2>4. todo' \in [Slots -> Todos]
    BY <1>9, TodosEnds DEF Kill
  <2> QED  BY <1>9, <2>1, <2>2, <2>3, <2>4 DEF Kill
<1> QED
  BY <1>1, <1>2, <1>3, <1>4, <1>5, <1>6, <1>7, <1>8, <1>9 DEF Next, Step

-----------------------------------------------------------------------------
(* Names *)

\* A run changes only what goes by its own name, and of the slots only its own.
Own(r) ==
  /\ \A s \in Slots : s # r =>
       /\ phase'[s] = phase[s] /\ pid'[s] = pid[s] /\ at'[s] = at[s] /\ todo'[s] = todo[s]
  /\ \A p \in Pids : have'[p] # have[p] => Live(r) /\ p = pid[r]
  /\ forward => forward'

LEMMA OwnSteps ==
  ASSUME IInv, NEW r \in Slots, Start(r) \/ Step(r) \/ Signal(r) \/ Kill(r)
  PROVE  Own(r)
<1> USE DEF IInv, Types, Own
<1>1. CASE Start(r)
  BY <1>1 DEF Start
<1>2. CASE SetUp(r)
  <2>1. /\ \A p \in Pids : have'[p] # have[p] => p = pid[r]
        /\ forward => forward'
    BY <1>2 DEF SetUp, Name
  <2> QED  BY <1>2, <2>1 DEF SetUp, InSetup, Live
<1>3. CASE SetUpFails(r)
  BY <1>3 DEF SetUpFails, OnFailure, Leave
<1>4. CASE RunCurlu(r) \/ NoCurlu(r) \/ CurluReturns(r)
  BY <1>4 DEF RunCurlu, NoCurlu, CurluReturns, Leave
<1>5. CASE Remove(r)
  BY <1>5 DEF Remove, Name
<1>6. CASE Signal(r) \/ Kill(r)
  BY <1>6 DEF Signal, Kill
<1> QED  BY <1>1, <1>2, <1>3, <1>4, <1>5, <1>6 DEF Step

\* A run that goes on was going on with the same process id, or starts with one
\* no other has.
LEMMA Lives ==
  ASSUME IInv, NEW r \in Slots, Start(r) \/ Step(r) \/ Signal(r) \/ Kill(r)
  PROVE  \/ Start(r)
         \/ pid'[r] = pid[r] /\ (Live(r)' => Live(r))
<1> USE DEF IInv, Types, Live
<1>1. CASE SetUp(r)
  BY <1>1 DEF SetUp
<1>2. CASE SetUpFails(r)
  BY <1>2 DEF SetUpFails, InSetup
<1>3. CASE RunCurlu(r) \/ NoCurlu(r) \/ CurluReturns(r)
  BY <1>3 DEF RunCurlu, NoCurlu, CurluReturns, InSetup
<1>4. CASE Remove(r)
  BY <1>4 DEF Remove
<1>5. CASE Signal(r) \/ Kill(r)
  BY <1>5 DEF Signal, Kill
<1> QED  BY <1>1, <1>2, <1>3, <1>4, <1>5 DEF Step

LEMMA StaysApart == ASSUME IInv, [Next]_vars PROVE Apart'
<1>1. CASE UNCHANGED vars
  BY <1>1 DEF vars, IInv, Apart, Live
<1>2. ASSUME NEW r \in Slots, Start(r) PROVE Apart'
  <2>1. PICK p \in Pids : /\ \A s \in Slots : Live(s) => pid[s] # p
                          /\ pid' = [pid EXCEPT ![r] = p]
    BY <1>2 DEF Start
  <2>2. \A s \in Slots : s # r => pid'[s] = pid[s] /\ (Live(s)' <=> Live(s))
    BY <1>2, OwnSteps DEF Own, Live
  <2>3. pid'[r] = p
    BY <2>1 DEF IInv, Types
  <2> QED  BY <2>1, <2>2, <2>3 DEF IInv, Apart
<1>3. ASSUME NEW r \in Slots, Step(r) \/ Signal(r) \/ Kill(r) PROVE Apart'
  <2>1. \A s \in Slots : Start(r) \/ (pid'[s] = pid[s] /\ (Live(s)' => Live(s)))
    BY <1>3, OwnSteps, Lives DEF Own, Live
  <2>2. CASE Start(r)
    BY <1>2, <2>2
  <2>3. CASE ~Start(r)
    BY <2>1, <2>3 DEF IInv, Apart
  <2> QED  BY <2>2, <2>3
<1> QED  BY <1>1, <1>2, <1>3 DEF Next

-----------------------------------------------------------------------------
(* What is there *)

\* Another run's things stay as they are while this one goes on.
LEMMA OthersKeep ==
  ASSUME IInv, NEW r \in Slots, Start(r) \/ Step(r) \/ Signal(r) \/ Kill(r),
         NEW s \in Slots, s # r
  PROVE  /\ phase'[s] = phase[s] /\ at'[s] = at[s] /\ todo'[s] = todo[s] /\ pid'[s] = pid[s]
         /\ Live(s)' <=> Live(s)
         /\ Live(s) => have'[pid'[s]] = have[pid[s]]
         /\ forward => forward'
<1>1. /\ phase'[s] = phase[s] /\ at'[s] = at[s] /\ todo'[s] = todo[s] /\ pid'[s] = pid[s]
      /\ forward => forward'
  BY OwnSteps DEF Own
<1>2. ASSUME Live(s) PROVE have'[pid[s]] = have[pid[s]]
  <2>1. pid[s] \in Pids /\ (Live(r) => pid[r] # pid[s])
    BY <1>2 DEF IInv, Apart
  <2> QED  BY <2>1, OwnSteps DEF Own
<1> QED  BY <1>1, <1>2 DEF Live

LEMMA StaysRemoving == ASSUME IInv, [Next]_vars PROVE Removing'
<1> DEFINE Inv(r) ==
      /\ phase[r] = "exiting" => todo[r] # << >>
      /\ phase[r] \notin {"setup", "exiting"} => todo[r] = << >>
      /\ Live(r) /\ Len(todo[r]) \in {1, 2} => have[pid[r]] \cap InNamespace = {}
      /\ Live(r) /\ Len(todo[r]) = 1 => have[pid[r]] \cap OfPair = {}
<1>1. CASE UNCHANGED vars
  BY <1>1 DEF vars, IInv, Removing, Live
<1> SUFFICES ASSUME NEW r \in Slots, Start(r) \/ Step(r) \/ Signal(r) \/ Kill(r)
             PROVE  Removing'
  BY <1>1 DEF Next
<1>2. ASSUME NEW s \in Slots, s # r PROVE Inv(s)'
  BY <1>2, OthersKeep DEF IInv, Removing, Live
<1>3. Inv(r)'
  <2> USE DEF IInv, Types, Live
  <2>1. CASE Start(r)
    <3>1. todo'[r] = << >> /\ phase'[r] \in {"setup", "over", "plain"}
      BY <2>1 DEF Start
    <3> QED  BY <3>1
  <2>2. CASE SetUp(r) \/ RunCurlu(r)
    <3>1. todo'[r] = << >> /\ phase'[r] \in {"setup", "curlu"}
      BY <2>2 DEF SetUp, RunCurlu, InSetup
    <3> QED  BY <3>1
  <2>3. CASE SetUpFails(r) \/ NoCurlu(r) \/ CurluReturns(r) \/ Signal(r)
    <3>1. todo'[r] = Cleanup /\ phase'[r] \in {"setup", "exiting"}
      BY <2>3 DEF SetUpFails, OnFailure, NoCurlu, CurluReturns, Leave, Signal
    <3> QED  BY <3>1, CleanupType, TodosEnds
  <2>4. CASE Kill(r)
    <3>1. todo'[r] = << >> /\ phase'[r] = "killed"
      BY <2>4 DEF Kill
    <3> QED  BY <3>1
  <2>5. CASE Remove(r)
    <3>1. /\ todo[r] # << >> /\ todo'[r] = Tail(todo[r]) /\ pid'[r] = pid[r] /\ pid[r] \in Pids
          /\ have'[pid[r]] = Deleted(Head(todo[r]), have[pid[r]])
          /\ phase'[r] = IF phase[r] = "exiting" /\ Len(todo[r]) = 1 THEN "over" ELSE phase[r]
          /\ Live(r)
      BY <2>5 DEF Remove, Name, Apart
    <3>2. phase[r] \in {"setup", "exiting"} /\ todo'[r] \in Todos
      BY <3>1, TodoStep DEF Removing
    <3>3. todo'[r] = << >> <=> Len(todo'[r]) = 0
      BY <3>2, TodosType
    <3>4. Len(todo'[r]) = Len(todo[r]) - 1
      BY <3>1, TodoStep
    <3>5. CASE Len(todo[r]) = 3
      <4>1. have'[pid[r]] \cap InNamespace = {}
        BY <3>1, <3>5, TodoStep DEF Deleted
      <4>2. Len(todo'[r]) = 2 /\ phase'[r] = phase[r]
        BY <3>1, <3>4, <3>5
      <4>3. todo'[r] # << >>
        BY <3>3, <4>2
      <4>4. have'[pid'[r]] \cap InNamespace = {}
        BY <3>1, <4>1
      <4>5. Len(todo'[r]) # 1 /\ phase'[r] \in {"setup", "exiting"}
        BY <3>2, <4>2
      <4> QED  BY <4>3, <4>4, <4>5
    <3>6. CASE Len(todo[r]) = 2
      <4>1. have'[pid[r]] \cap OfPair = {} /\ have'[pid[r]] \subseteq have[pid[r]]
        BY <3>1, <3>6, TodoStep DEF Deleted
      <4>2. have[pid[r]] \cap InNamespace = {}
        BY <3>1, <3>6 DEF Removing
      <4>3. Len(todo'[r]) = 1 /\ phase'[r] = phase[r]
        BY <3>1, <3>4, <3>6
      <4>4. todo'[r] # << >>
        BY <3>3, <4>3
      <4>5. have'[pid[r]] \cap InNamespace = {}
        BY <4>1, <4>2
      <4> QED  BY <3>1, <3>2, <4>1, <4>3, <4>4, <4>5
    <3>7. CASE Len(todo[r]) = 1
      <4>1. Len(todo'[r]) = 0 /\ todo'[r] = << >>
        BY <3>3, <3>4, <3>7
      <4>2. phase'[r] # "exiting"
        BY <3>1, <3>7
      <4> QED  BY <4>1, <4>2
    <3> QED  BY <3>1, <3>5, <3>6, <3>7, TodosType
  <2> QED  BY <2>1, <2>2, <2>3, <2>4, <2>5 DEF Step
<1> QED  BY <1>2, <1>3 DEF Removing

LEMMA MadeMore ==
  ASSUME NEW n \in 1 .. 21
  PROVE  Made(n + 1) = Made(n) \cup ({Setup[n].makes} \ {"ip_forward"})
<1>1. (n + 1) - 1 = n /\ 1 .. n = (1 .. n - 1) \cup {n}
  OBVIOUS
<1> QED  BY <1>1 DEF Made

LEMMA StaysComplete == ASSUME IInv, [Next]_vars PROVE Complete'
<1> DEFINE Inv(r) == phase[r] = "setup" =>
             /\ "netns" \in have[pid[r]] => Made(at[r]) \subseteq have[pid[r]]
             /\ at[r] > 13 => forward
<1>1. CASE UNCHANGED vars
  BY <1>1 DEF vars, IInv, Complete
<1> SUFFICES ASSUME NEW r \in Slots, Start(r) \/ Step(r) \/ Signal(r) \/ Kill(r)
             PROVE  Complete'
  BY <1>1 DEF Next
<1>2. ASSUME NEW s \in Slots, s # r PROVE Inv(s)'
  BY <1>2, OthersKeep DEF IInv, Complete, Live
<1>3. Inv(r)'
  <2> USE DEF IInv, Types
  <2>1. CASE Start(r)
    <3>1. at'[r] = 1
      BY <2>1 DEF Start
    <3> QED  BY <3>1 DEF Made
  <2>2. CASE SetUp(r)
    <3> DEFINE c == Setup[at[r]]
    <3>1. /\ phase[r] = "setup" /\ pid[r] \in Pids /\ pid'[r] = pid[r]
          /\ at[r] \in DOMAIN Setup /\ at'[r] = at[r] + 1
      BY <2>2, SetupDomain DEF SetUp, InSetup, Apart, Live
    <3>2. Made(at'[r]) = Made(at[r]) \cup ({c.makes} \ {"ip_forward"})
      BY <3>1, SetupDomain, MadeMore
    <3>3. CASE at[r] = 13
      <4>1. have' = have /\ forward' = TRUE
        BY <2>2, <3>1, <3>3, SetupCommands DEF SetUp, IsGlobal
      <4>2. c.makes = "ip_forward"
        BY <3>1, <3>3, SetupCommands
      <4> QED  BY <3>1, <3>2, <4>1, <4>2 DEF Complete
    <3>4. CASE at[r] # 13
      <4>1. have'[pid[r]] = have[pid[r]] \cup {c.makes} /\ forward' = forward
        BY <2>2, <3>1, <3>4, SetupCommands DEF SetUp, IsGlobal, Name
      <4>2. CASE at[r] = 1
        <5>1. Made(at[r]) = {}
          BY <4>2 DEF Made
        <5> QED  BY <3>1, <3>2, <4>1, <4>2, <5>1
      <4>3. CASE at[r] # 1
        <5>1. "netns" \in have'[pid[r]] => "netns" \in have[pid[r]]
          BY <3>1, <4>1, <4>3, SetupCommands
        <5>2. at'[r] > 13 => at[r] > 13
          BY <3>1, <3>4, SetupDomain
        <5> QED  BY <3>1, <3>2, <4>1, <5>1, <5>2 DEF Complete
      <4> QED  BY <4>2, <4>3
    <3> QED  BY <3>3, <3>4
  <2>3. CASE SetUpFails(r) \/ RunCurlu(r) \/ NoCurlu(r) \/ CurluReturns(r) \/ Kill(r)
    <3>1. phase'[r] # "setup"
      BY <2>3 DEF SetUpFails, OnFailure, RunCurlu, NoCurlu, CurluReturns, Leave, Kill
    <3> QED  BY <3>1
  <2>4. CASE Signal(r)
    BY <2>4 DEF Signal, Complete
  <2>5. CASE Remove(r)
    <3>1. SUFFICES ASSUME phase'[r] = "setup" PROVE Inv(r)'
      OBVIOUS
    <3>2. /\ phase[r] = "setup" /\ todo[r] # << >> /\ pid'[r] = pid[r] /\ pid[r] \in Pids
          /\ at'[r] = at[r] /\ forward' = forward
          /\ have'[pid[r]] = Deleted(Head(todo[r]), have[pid[r]])
      BY <2>5, <3>1 DEF Remove, Name, Apart, Live
    <3>3. "netns" \notin have'[pid[r]]
      <4>1. CASE Len(todo[r]) = 3
        BY <3>2, <4>1, TodoStep DEF Deleted, InNamespace
      <4>2. CASE Len(todo[r]) \in {1, 2}
        <5>1. "netns" \notin have[pid[r]]
          BY <3>2, <4>2 DEF Removing, Live, InNamespace
        <5>2. Head(todo[r]) \in {"link", "table"}
          BY <3>2, <4>2, TodoStep
        <5> QED  BY <3>2, <5>1, <5>2 DEF Deleted
      <4> QED  BY <3>2, <4>1, <4>2, TodosType
    <3> QED  BY <3>2, <3>3 DEF Complete
  <2> QED  BY <2>1, <2>2, <2>3, <2>4, <2>5 DEF Step
<1> QED  BY <1>2, <1>3 DEF Complete

-----------------------------------------------------------------------------
(* Where curlu runs *)

\* The whole set-up makes everything there is.
LEMMA MadeAll == Made(22) = Things
PROOF BY SetupDomain DEF Made, Things

LEMMA StaysRunsComplete == ASSUME IInv, [Next]_vars PROVE RunsInCompleteNamespace'
<1> DEFINE Inv(r) == phase[r] = "curlu" => have[pid[r]] = Things /\ forward
<1>1. CASE UNCHANGED vars
  BY <1>1 DEF vars, IInv, RunsInCompleteNamespace
<1> SUFFICES ASSUME NEW r \in Slots, Start(r) \/ Step(r) \/ Signal(r) \/ Kill(r)
             PROVE  RunsInCompleteNamespace'
  BY <1>1 DEF Next
<1>2. ASSUME NEW s \in Slots, s # r PROVE Inv(s)'
  BY <1>2, OthersKeep DEF IInv, RunsInCompleteNamespace, Live
<1>3. Inv(r)'
  <2> USE DEF IInv, Types
  <2>1. CASE RunCurlu(r)
    <3>1. /\ phase[r] = "setup" /\ pid[r] \in Pids /\ at[r] = 22
          /\ "netns" \in have[pid[r]]
      BY <2>1, SetupDomain DEF RunCurlu, InSetup, Name, Apart, Live
    <3>2. Things \subseteq have[pid[r]] /\ forward
      BY <3>1, MadeAll DEF Complete
    <3>3. have[pid[r]] = Things
      BY <3>1, <3>2
    <3> QED  BY <2>1, <3>2, <3>3 DEF RunCurlu
  <2>2. CASE Start(r) \/ SetUpFails(r) \/ NoCurlu(r) \/ CurluReturns(r) \/ Kill(r)
    <3>1. phase'[r] # "curlu"
      BY <2>2 DEF Start, SetUpFails, OnFailure, NoCurlu, CurluReturns, Leave, Kill
    <3> QED  BY <3>1
  <2>3. CASE SetUp(r) \/ Signal(r)
    <3>1. phase'[r] # "curlu"
      BY <2>3 DEF SetUp, InSetup, Signal
    <3> QED  BY <3>1
  <2>4. CASE Remove(r)
    <3>1. phase[r] \in {"setup", "exiting"}
      BY <2>4 DEF Remove, Live, Removing
    <3>2. phase'[r] # "curlu"
      BY <2>4, <3>1 DEF Remove
    <3> QED  BY <3>2
  <2> QED  BY <2>1, <2>2, <2>3, <2>4 DEF Step
<1> QED  BY <1>2, <1>3 DEF RunsInCompleteNamespace

-----------------------------------------------------------------------------
(* What is left behind *)

\* A run that leaves by its own way leaves nothing under its name.
LEMMA LeavesNothing ==
  ASSUME IInv, NEW r \in Slots, Remove(r), phase[r] = "exiting", Len(todo[r]) = 1
  PROVE  have'[pid[r]] = {}
<1> USE DEF IInv, Types
<1>1. /\ pid[r] \in Pids /\ Live(r)
      /\ have'[pid[r]] = Deleted(Head(todo[r]), have[pid[r]])
  BY DEF Remove, Name, Apart
<1>2. have'[pid[r]] = have[pid[r]] \ OfTable
  <2>1. Head(todo[r]) = "table"
    BY TodoStep DEF Remove
  <2> QED  BY <1>1, <2>1 DEF Deleted
<1>3. have[pid[r]] \cap InNamespace = {} /\ have[pid[r]] \cap OfPair = {}
  BY <1>1 DEF Removing
<1>4. have[pid[r]] \subseteq InNamespace \cup OfPair \cup OfTable
  BY <1>1, ThingsParts
<1> QED  BY <1>2, <1>3, <1>4

LEMMA StaysClean == ASSUME IInv, [Next]_vars PROVE NoLeftovers'
<1> USE DEF IInv, Types
<1>1. CASE UNCHANGED vars
  BY <1>1 DEF vars, NoLeftovers, Live
<1> SUFFICES ASSUME NEW r \in Slots, Start(r) \/ Step(r) \/ Signal(r) \/ Kill(r)
             PROVE  NoLeftovers'
  BY <1>1 DEF Next
<1> SUFFICES ASSUME NEW p \in Pids, have'[p] # {},
                    p \notin orphaned'
             PROVE  \E s \in Slots : Live(s)' /\ pid'[s] = p
  BY DEF NoLeftovers
\* A run that stays alive keeps its things.
<1>1a. ASSUME NEW s \in Slots, s # r, Live(s), pid[s] = p
       PROVE  Live(s)' /\ pid'[s] = p
  BY <1>1a, OthersKeep
\* What is there was there already, or is r's.
<1>2. CASE Start(r)
  <2>1. have'[p] = have[p] /\ orphaned' = orphaned /\ ~Live(r)
    BY <1>2 DEF Start
  <2>2. PICK s \in Slots : Live(s) /\ pid[s] = p
    BY <2>1 DEF NoLeftovers
  <2> QED  BY <1>1a, <2>1, <2>2
<1>3. CASE SetUp(r) \/ SetUpFails(r) \/ RunCurlu(r) \/ NoCurlu(r) \/ CurluReturns(r) \/ Signal(r)
  <2>1. /\ orphaned' = orphaned /\ pid'[r] = pid[r] /\ Live(r) /\ Live(r)'
    BY <1>3 DEF SetUp, SetUpFails, OnFailure, RunCurlu, NoCurlu, CurluReturns, Leave, Signal,
                InSetup, Live
  <2>2. CASE p = pid[r]
    BY <2>1, <2>2
  <2>3. CASE p # pid[r]
    <3>1. have'[p] = have[p]
      BY <1>3, <2>3, OwnSteps DEF Own
    <3>2. PICK s \in Slots : Live(s) /\ pid[s] = p
      BY <2>1, <3>1 DEF NoLeftovers
    <3> QED  BY <1>1a, <2>3, <3>2
  <2> QED  BY <2>2, <2>3
<1>4. CASE Remove(r)
  <2> DEFINE leaves == phase[r] = "exiting" /\ Len(todo[r]) = 1
  <2>1. Live(r) /\ pid'[r] = pid[r]
    BY <1>4 DEF Remove
  <2>2. CASE p = pid[r]
    <3>1. ~leaves
      BY <1>4, <2>2, LeavesNothing
    <3>2. Live(r)'
      BY <1>4, <3>1 DEF Remove, Live
    <3> QED  BY <2>1, <2>2, <3>2
  <2>3. CASE p # pid[r]
    <3>1. have'[p] = have[p] /\ p \notin orphaned
      BY <1>4, <2>3 DEF Remove, Name
    <3>2. PICK s \in Slots : Live(s) /\ pid[s] = p
      BY <3>1 DEF NoLeftovers
    <3> QED  BY <1>1a, <2>3, <3>2
  <2> QED  BY <2>2, <2>3
<1>5. CASE Kill(r)
  <2>1. have'[p] = have[p] /\ p \notin orphaned /\ p # pid[r]
    BY <1>5 DEF Kill
  <2>2. PICK s \in Slots : Live(s) /\ pid[s] = p
    BY <2>1 DEF NoLeftovers
  <2> QED  BY <1>1a, <2>1, <2>2
<1> QED  BY <1>2, <1>3, <1>4, <1>5 DEF Step

-----------------------------------------------------------------------------
(* The theorems *)

LEMMA Inductive == Spec => []IInv
<1>1. ASSUME IInv, [Next]_vars PROVE IInv'
  BY <1>1, Typed, StaysApart, StaysRemoving, StaysComplete, StaysRunsComplete, StaysClean
     DEF IInv
<1> QED  BY InitInv, <1>1, PTL DEF Spec

\* Every variable of the wrapper's model keeps to its values: with any number of
\* runs, and whichever commands fail and signals arrive, the script is at a
\* command of its set-up and has a tail of its cleanup before it.
THEOREM Typing == Spec => []TypeOK
<1>1. IInv => TypeOK
  <2> SUFFICES ASSUME IInv PROVE TypeOK
    OBVIOUS
  <2>1. ASSUME NEW r \in Slots
        PROVE  \E k \in 0 .. Len(Cleanup) : todo[r] = SubSeq(Cleanup, k + 1, Len(Cleanup))
    BY DEF IInv, Types, Todos
  <2> QED  BY <2>1, SetupDomain DEF IInv, Types, TypeOK
<1> QED  BY <1>1, Inductive, PTL

\* The wrapper leaves no namespace, interface or NAT rule behind: a failed
\* command, a signal in the middle of the set-up or of the cleanup, and other
\* runs at the same time included.  Only a killed run's things stay, until a run
\* with its process id cleans up.
THEOREM NothingIsLeft == Spec => []NoLeftovers
<1>1. IInv => NoLeftovers
  BY DEF IInv
<1> QED  BY <1>1, Inductive, PTL

\* One run never touches what goes by another's name: what appears or
\* disappears is under the process id of a live run that takes a step of its
\* set-up or of its cleanup.
THEOREM Separate == Spec => NoInterference
<1> DEFINE Good == \A p \in Pids : have'[p] # have[p] => \E r \in Slots :
                       Live(r) /\ pid[r] = p /\ (at'[r] # at[r] \/ todo'[r] # todo[r])
<1>1. ASSUME IInv, Next PROVE Good
  <2> SUFFICES ASSUME NEW p \in Pids, have'[p] # have[p]
               PROVE  \E r \in Slots :
                        Live(r) /\ pid[r] = p /\ (at'[r] # at[r] \/ todo'[r] # todo[r])
    OBVIOUS
  <2>1. PICK r \in Slots : Start(r) \/ Step(r) \/ Signal(r) \/ Kill(r)
    BY <1>1 DEF Next
  <2>2. Live(r) /\ pid[r] = p
    BY <1>1, <2>1, OwnSteps DEF Own
  <2>3. SetUp(r) \/ Remove(r)
    BY <2>1 DEF Start, Step, SetUpFails, RunCurlu, NoCurlu, CurluReturns, Signal, Kill
  <2>4. CASE SetUp(r)
    <3>1. at'[r] # at[r]
      BY <1>1, <2>4, SetupDomain DEF SetUp, IInv, Types
    <3> QED  BY <2>2, <3>1
  <2>5. CASE Remove(r)
    <3>1. todo[r] \in Todos /\ todo[r] # << >> /\ todo'[r] = Tail(todo[r])
      BY <1>1, <2>5 DEF Remove, IInv, Types
    <3>2. todo'[r] # todo[r]
      BY <3>1, TodoStep
    <3> QED  BY <2>2, <3>2
  <2> QED  BY <2>3, <2>4, <2>5
<1>2. ASSUME IInv, [Next]_vars PROVE [Good]_vars
  BY <1>1, <1>2
<1> QED  BY <1>2, Inductive, PTL DEF Spec, NoInterference

-----------------------------------------------------------------------------
(* Addresses *)

\* As many subnets as 10.255.0.0/16 has, or fewer.
FitsInSlash16 == Subnets <= 16384

\* The last two octets of the first address of the m-th subnet.
Numbers == 0 .. 16383
Octets == 0 .. 255
Third(m) == (m * 4) \div 256
Fourth(m) == (m * 4) % 256

LEMMA OctetsOf ==
  ASSUME NEW m \in Numbers, NEW k \in 0 .. 3
  PROVE  Third(m) \in Octets /\ Fourth(m) + k \in Octets
<1>1. Third(m) \in Octets
  BY Z3 DEF Numbers, Octets, Third
<1>2. Fourth(m) = 4 * (m % 64) /\ m % 64 \in 0 .. 63
  BY Z3 DEF Numbers, Fourth
<1>3. Fourth(m) + k \in Octets
  BY <1>2 DEF Octets
<1> QED  BY <1>1, <1>3

\* No other subnet has them.
LEMMA OctetsApart ==
  ASSUME NEW m \in Numbers, NEW n \in Numbers, NEW j \in 0 .. 3, NEW k \in 0 .. 3,
         Third(m) = Third(n), Fourth(m) + j = Fourth(n) + k
  PROVE  m = n
PROOF BY Z3 DEF Numbers, Third, Fourth

LEMMA SubnetNumber ==
  ASSUME FitsInSlash16, NEW x \in Nat
  PROVE  x % Subnets \in Numbers
<1>1. Subnets \in Nat /\ Subnets > 0
  BY WrapperAssumption
<1>2. x % Subnets \in 0 .. Subnets - 1
  BY <1>1
<1> QED  BY <1>1, <1>2 DEF FitsInSlash16, Numbers

LEMMA AddressOf ==
  ASSUME NEW x \in Nat, NEW k \in 0 .. 3
  PROVE  Address(x, k) = << 10, 255, Third(x % Subnets), Fourth(x % Subnets) + k >>
PROOF BY DEF Address, Net, Third, Fourth

LEMMA SubnetsApart ==
  ASSUME FitsInSlash16, NEW p \in Nat, NEW q \in Nat
  PROVE  /\ \A a \in SubnetOf(p) : \A i \in 1 .. 4 : a[i] \in 0 .. 255
         /\ p % Subnets # q % Subnets => SubnetOf(p) \cap SubnetOf(q) = {}
<1>1. PICK m \in Numbers : m = p % Subnets
  BY SubnetNumber
<1>2. PICK n \in Numbers : n = q % Subnets
  BY SubnetNumber
<1>3. ASSUME NEW k \in 0 .. 3
      PROVE  /\ Address(p, k) = << 10, 255, Third(m), Fourth(m) + k >>
             /\ Address(q, k) = << 10, 255, Third(n), Fourth(n) + k >>
  BY <1>1, <1>2, AddressOf
<1>4. ASSUME NEW k \in 0 .. 3, NEW i \in 1 .. 4 PROVE Address(p, k)[i] \in 0 .. 255
  <2> DEFINE w == Fourth(m) + k
  <2>1. Third(m) \in 0 .. 255 /\ w \in 0 .. 255
    BY OctetsOf DEF Octets
  <2>2. Address(p, k) = << 10, 255, Third(m), w >>
    BY <1>3
  <2> HIDE DEF w
  <2> QED  BY <2>1, <2>2
<1>5. ASSUME m # n, NEW j \in 0 .. 3, NEW k \in 0 .. 3
      PROVE  Address(p, j) # Address(q, k)
  BY <1>3, <1>5, OctetsApart
<1>6. ASSUME p % Subnets # q % Subnets PROVE SubnetOf(p) \cap SubnetOf(q) = {}
  BY <1>1, <1>2, <1>5, <1>6 DEF SubnetOf
<1> QED  BY <1>4, <1>6 DEF SubnetOf

\* curlu sends its first segment only from a complete set-up, behind addresses
\* that are addresses and that no other run at the time has, unless the process
\* ids agree modulo the number of subnets; for no more than the 16384 subnets
\* there are.
THEOREM OwnNamespace ==
  ASSUME FitsInSlash16
  PROVE  Spec => []RunsInOwnNamespace
<1>1. IInv => RunsInOwnNamespace
  <2> SUFFICES ASSUME IInv PROVE RunsInOwnNamespace
    OBVIOUS
  <2>1. Pids \subseteq Nat
    BY WrapperAssumption
  <2>2. ASSUME NEW r \in Slots, Live(r) PROVE pid[r] \in Nat
    BY <2>1, <2>2 DEF IInv, Apart
  <2>3. OwnSubnet
    BY <2>2, SubnetsApart DEF OwnSubnet
  <2> QED  BY <2>3 DEF IInv, RunsInOwnNamespace
<1> QED  BY <1>1, Inductive, PTL
=============================================================================
