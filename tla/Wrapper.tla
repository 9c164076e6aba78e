------------------------------ MODULE Wrapper ------------------------------
(***************************************************************************)
(* Runs of the wrapper script (curl), which builds a network namespace, a  *)
(* veth pair and NAT rules around curlu --ja4t and removes them again,     *)
(* whatever fails and whichever signal arrives.  Everything it makes is    *)
(* named after its process id.  ip, nft and sysctl are external: what a    *)
(* command needs and makes is stated below, and any command may fail.      *)
(***************************************************************************)
EXTENDS Integers, Sequences, FiniteSets

CONSTANTS Slots,       \* runs that may be going on at the same time
          Pids,        \* process ids they may get
          Subnets,     \* how many /30 subnets 10.255.0.0/16 has: 16384
          CommandLines,  \* the argument lists considered: sequences of Tokens
          MaxSignals,  \* bound: INT and TERM signals to a run
          MaxStarts,   \* bound: runs
          MaxKills     \* bound: runs ended by SIGKILL

\* An argument is --ja4t with its value apart or behind "=", the two in one
\* argument as Test::Nginx passes curl_options, a URL, or something else.
Tokens == {"--ja4t", "--ja4t=", "--ja4t blob", "http://", "https://", "other"}

ASSUME WrapperAssumption ==
  /\ Pids \subseteq Nat /\ Subnets \in Nat \ {0}
  /\ \A c \in CommandLines : \A k \in DOMAIN c : c[k] \in Tokens
  /\ MaxSignals \in Nat /\ MaxStarts \in Nat /\ MaxKills \in Nat

VARIABLES
  phase,    \* of a slot: "idle", "setup", "curlu", "exiting", "over", "plain"
            \* (it has become curlu itself) or "killed"
  args,     \* its arguments
  pid,      \* its process id
  at,       \* the next command of Setup
  todo,     \* what is left of cleanup, when it runs
  signals,  \* signals it has got
  have,     \* what exists under the names of a process id
  forward,  \* net.ipv4.ip_forward of the host is 1
  starts,   \* runs started
  kills,    \* runs ended by SIGKILL
  orphaned  \* process ids of killed runs whose things nobody has removed since

vars == <<phase, args, pid, at, todo, signals, have, forward, starts, kills, orphaned>>

-----------------------------------------------------------------------------
(* The commands between the trap and curlu: what each needs and what it makes. *)

Command(needs, makes) == [needs |-> needs, makes |-> makes]
Setup ==
  << Command({}, "netns"),
     Command({}, "link"),
     Command({"netns", "link"}, "moved"),
     Command({"link"}, "host address"),
     Command({"link"}, "host up"),
     Command({"moved"}, "address"),
     Command({"moved"}, "up"),
     Command({"netns"}, "lo"),
     Command({"address", "up"}, "route"),
     Command({"netns"}, "filter"),
     Command({"filter"}, "output chain"),
     Command({"output chain"}, "no RST"),
     Command({}, "ip_forward"),
     Command({"link"}, "route_localnet"),
     Command({"link"}, "forwarding"),
     Command({}, "table"),
     Command({"table"}, "prerouting"),
     Command({"table"}, "postrouting"),
     Command({"prerouting"}, "dnat"),
     Command({"postrouting"}, "masquerade to client"),
     Command({"postrouting"}, "masquerade from client") >>

Things == {Setup[k].makes : k \in DOMAIN Setup} \ {"ip_forward"}
InNamespace == {"netns", "moved", "address", "up", "lo", "route", "filter", "output chain", "no RST"}
OfPair == {"link", "moved", "host address", "host up", "address", "up", "route",
           "route_localnet", "forwarding"}
OfTable == {"table", "prerouting", "postrouting", "dnat", "masquerade to client",
            "masquerade from client"}

\* sysctl -w net.ipv4.ip_forward=1 changes the host, and is not undone.
MutIsGlobal(c) == FALSE
IsGlobal(c) == c.makes = "ip_forward"

\* ip netns add and ip link add refuse a name that is taken.
Refused(c, there) == c.makes \in {"netns", "link"} /\ c.makes \in there
Works(c, there) == c.needs \subseteq there /\ ~Refused(c, there)

\* A namespace takes the interfaces in it along, and a veth its peer.
MutCleanup == << "netns", "table" >>
Cleanup == << "netns", "link", "table" >>
Deleted(what, there) ==
  CASE what = "netns" -> there \ (InNamespace \cup (IF "moved" \in there THEN OfPair ELSE {}))
    [] what = "link" -> there \ OfPair
    [] what = "table" -> there \ OfTable

\* curlu${pid}, ch${pid}, cn${pid}
MutName(p) == p % Subnets
Name(p) == p

\* The addresses of the /30 of a process id, its host_ip and ns_ip; the octets
\* o2 and o3 are those of net, and the last one is added to.
Net(p) == (p % Subnets) * 4
Address(p, k) == << 10, 255, Net(p) \div 256, (Net(p) % 256) + k >>
HostIP(p) == Address(p, 1)
NsIP(p) == Address(p, 2)
SubnetOf(p) == {Address(p, k) : k \in 0 .. 3}

-----------------------------------------------------------------------------
Init ==
  /\ phase = [r \in Slots |-> "idle"] /\ args = [r \in Slots |-> << >>]
  /\ pid = [r \in Slots |-> 0] /\ at = [r \in Slots |-> 1]
  /\ todo = [r \in Slots |-> << >>] /\ signals = [r \in Slots |-> 0]
  /\ have = [p \in Pids |-> {}] /\ forward = FALSE
  /\ starts = 0 /\ kills = 0 /\ orphaned = {}

Live(r) == phase[r] \in {"setup", "curlu", "exiting"}

\* has_ja4t and url, as the loop over the arguments finds them
HasJA4T(a) == \E k \in DOMAIN a : a[k] \in {"--ja4t", "--ja4t="}
IsURL(t) == t \in {"http://", "https://"}
URLs(a) == SelectSeq(a, IsURL)
NeedsNamespace(a) ==
  HasJA4T(a) /\ URLs(a) # << >> /\ URLs(a)[Len(URLs(a))] # "https://"

\* A new process: exec curlu at once, refuse (no root, an IPv6 literal), or
\* install the traps.  The kernel
\* gives no process id of a live process away.
Start(r) == \E p \in Pids, a \in CommandLines :
  /\ ~Live(r) /\ starts < MaxStarts
  /\ \A s \in Slots : Live(s) => pid[s] # p
  /\ pid' = [pid EXCEPT ![r] = p] /\ args' = [args EXCEPT ![r] = a]
  /\ \E to \in IF NeedsNamespace(a) THEN {"setup", "over"} ELSE {"plain"} :
       phase' = [phase EXCEPT ![r] = to]
  /\ at' = [at EXCEPT ![r] = 1] /\ todo' = [todo EXCEPT ![r] = << >>]
  /\ signals' = [signals EXCEPT ![r] = 0] /\ starts' = starts + 1
  /\ UNCHANGED <<have, forward, kills, orphaned>>

InSetup(r) == phase[r] = "setup" /\ todo[r] = << >>

\* One command of the set-up succeeds.
SetUp(r) ==
  /\ InSetup(r) /\ at[r] <= Len(Setup)
  /\ LET c == Setup[at[r]]
         name == Name(pid[r])
     IN  /\ Works(c, have[name])
         /\ IF IsGlobal(c)
            THEN forward' = TRUE /\ UNCHANGED have
            ELSE have' = [have EXCEPT ![name] = @ \cup {c.makes}] /\ UNCHANGED forward
  /\ at' = [at EXCEPT ![r] = @ + 1]
  /\ UNCHANGED <<phase, args, pid, todo, signals, starts, kills, orphaned>>

\* set -e: a command that fails ends the script, and the EXIT trap cleans up.
Leave(r) == phase' = [phase EXCEPT ![r] = "exiting"] /\ todo' = [todo EXCEPT ![r] = Cleanup]
OnFailure(r) == Leave(r) /\ UNCHANGED at

SetUpFails(r) ==
  /\ InSetup(r) /\ at[r] <= Len(Setup)
  /\ OnFailure(r)
  /\ UNCHANGED <<args, pid, signals, have, forward, starts, kills, orphaned>>

\* ip netns exec ... curlu: in the namespace, if it is still there.  Before it
\* the name of the host is looked up, which may end the script too.
RunCurlu(r) ==
  /\ InSetup(r) /\ at[r] = Len(Setup) + 1 /\ "netns" \in have[Name(pid[r])]
  /\ phase' = [phase EXCEPT ![r] = "curlu"]
  /\ UNCHANGED <<args, pid, at, todo, signals, have, forward, starts, kills, orphaned>>

NoCurlu(r) ==
  /\ InSetup(r) /\ at[r] = Len(Setup) + 1
  /\ Leave(r)
  /\ UNCHANGED <<args, pid, at, signals, have, forward, starts, kills, orphaned>>

CurluReturns(r) ==
  /\ phase[r] = "curlu"
  /\ Leave(r)
  /\ UNCHANGED <<args, pid, at, signals, have, forward, starts, kills, orphaned>>

\* INT or TERM: the trap runs once the command at hand has ended, and then the
\* script goes on where it was.  While cleanup runs it starts it afresh.  A
\* signal during curlu is taken when curlu returns, on the way out.
Signal(r) ==
  /\ phase[r] \in {"setup", "exiting"} /\ signals[r] < MaxSignals
  /\ todo' = [todo EXCEPT ![r] = Cleanup]
  /\ signals' = [signals EXCEPT ![r] = @ + 1]
  /\ UNCHANGED <<phase, args, pid, at, have, forward, starts, kills, orphaned>>

\* A command of cleanup.  The script passes over its failure (|| true); here it
\* fails only for want of the thing (Deleted): what ip and nft themselves cannot
\* remove stays whatever the script does.
Remove(r) ==
  /\ todo[r] # << >> /\ Live(r)
  /\ have' = [have EXCEPT ![Name(pid[r])] = Deleted(Head(todo[r]), @)]
  /\ todo' = [todo EXCEPT ![r] = Tail(@)]
  /\ LET leaves == phase[r] = "exiting" /\ Len(todo[r]) = 1
     IN  /\ phase' = IF leaves THEN [phase EXCEPT ![r] = "over"] ELSE phase
         /\ orphaned' = IF leaves THEN orphaned \ {pid[r]} ELSE orphaned
         /\ at' = IF leaves THEN [at EXCEPT ![r] = 1] ELSE at
         /\ signals' = IF leaves THEN [signals EXCEPT ![r] = 0] ELSE signals
  /\ UNCHANGED <<args, pid, forward, starts, kills>>

\* SIGKILL: no trap runs.
Kill(r) ==
  /\ Live(r) /\ kills < MaxKills
  /\ phase' = [phase EXCEPT ![r] = "killed"] /\ todo' = [todo EXCEPT ![r] = << >>]
  /\ kills' = kills + 1 /\ orphaned' = orphaned \cup {pid[r]}
  /\ at' = [at EXCEPT ![r] = 1] /\ signals' = [signals EXCEPT ![r] = 0]
  /\ UNCHANGED <<args, pid, have, forward, starts>>

Step(r) ==
  \/ SetUp(r) \/ SetUpFails(r) \/ RunCurlu(r) \/ NoCurlu(r) \/ CurluReturns(r) \/ Remove(r)

Next == \E r \in Slots : Start(r) \/ Step(r) \/ Signal(r) \/ Kill(r)

Spec == Init /\ [][Next]_vars

-----------------------------------------------------------------------------
(* Properties *)

\* Every variable keeps to its values.
TypeOK ==
  /\ phase \in [Slots -> {"idle", "setup", "curlu", "exiting", "over", "plain", "killed"}]
  /\ args \in [Slots -> CommandLines \cup {<< >>}] /\ pid \in [Slots -> Pids \cup {0}]
  /\ at \in [Slots -> 1 .. Len(Setup) + 1] /\ signals \in [Slots -> 0 .. MaxSignals]
  /\ \A r \in Slots : \E k \in 0 .. Len(Cleanup) :
       todo[r] = SubSeq(Cleanup, k + 1, Len(Cleanup))
  /\ have \in [Pids -> SUBSET Things] /\ forward \in BOOLEAN
  /\ starts \in 0 .. MaxStarts /\ kills \in 0 .. MaxKills /\ orphaned \subseteq Pids

\* What a run has made is gone when it ends, after any failure or signal: what
\* exists belongs to a run that is going on or was killed, and the next run with
\* the killed one's process id removes it.
NoLeftovers ==
  \A p \in Pids : have[p] # {} => p \in orphaned \/ \E r \in Slots : Live(r) /\ pid[r] = p

\* curlu sends its SYN from a complete set-up only: with the kernel's RSTs
\* dropped, the route, the addresses and the NAT rules in place, although a
\* signal lets the script go on behind a cleanup.
RunsInCompleteNamespace ==
  \A r \in Slots : phase[r] = "curlu" => have[pid[r]] = Things /\ forward

\* Two runs at a time have subnets that do not overlap, unless their process
\* ids agree modulo the number of subnets, and every address is one.
OwnSubnet ==
  /\ \A r \in Slots : Live(r) => \A a \in SubnetOf(pid[r]) : \A k \in 1 .. 4 : a[k] \in 0 .. 255
  /\ \A r, s \in Slots :
       Live(r) /\ Live(s) /\ pid[r] % Subnets # pid[s] % Subnets
         => SubnetOf(pid[r]) \cap SubnetOf(pid[s]) = {}

\* Where curlu runs is complete and nobody else's.
RunsInOwnNamespace == RunsInCompleteNamespace /\ OwnSubnet

\* A run changes nothing of another run's: whatever appears or disappears is
\* under the name of the run that takes a step of its own.
NoInterference ==
  [][\A p \in Pids : have'[p] # have[p] => \E r \in Slots :
        Live(r) /\ pid[r] = p /\ (at'[r] # at[r] \/ todo'[r] # todo[r])]_vars
=============================================================================
