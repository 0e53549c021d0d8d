---------------------------- MODULE SessionsProofs ----------------------------
(***************************************************************************)
(* What the requests to a session can rely on, for any requests in any     *)
(* order and interleaving.                                                 *)
(***************************************************************************)
EXTENDS Sessions, FiniteSetTheorems, WellFoundedInduction, TLAPS

Commands == Navigates \cup Compacts
TurnStages == {"idle", "opened", "queued", "active", "consumed", "running", "answered",
               "ending", "titling", "closing", "done"}
CommandStages == {"idle", "queued", "active", "left", "closing", "done"}
AtWork == {"active", "consumed", "running", "answered", "ending", "titling", "closing", "left"}

Entries == [kind : Kinds, by : Ops, parent : Nat, target : Nat, data : SUBSET Nat]
Typed ==
    /\ TypeOK /\ log \in Seq(Entries)
    /\ holder \in [Lives -> Ops \cup {Free}] /\ pc \in [Ops -> TurnStages \cup {"checked", "left", "unlinked"}]
    /\ at \in [Ops -> Nat] /\ known \in [Ops -> SUBSET Nat] /\ leaf \in [Ops -> Nat]
    /\ got \in [Ops -> Lives] /\ took \in [Turns -> SUBSET Nat] /\ shown \in [Turns -> SUBSET Nat]
    /\ \A l \in Lives : holder[l] # Free => got[holder[l]] = l

\* The stages of each kind of request.
StagesKnown ==
    /\ \A t \in Turns : pc[t] \in TurnStages
    /\ \A c \in Configures : pc[c] \in {"idle", "checked", "done"}
    /\ \A o \in Renames \cup Inputs : pc[o] \in {"idle", "opened", "done"}
    /\ \A o \in Commands : pc[o] \in CommandStages
    /\ \A d \in Deletes : pc[d] \in {"idle", "checked", "unlinked", "done"}

\* Until the first deletion nothing is removed, and afterwards nobody opens.
OneLife ==
    /\ header => /\ removed = 0 /\ life = 1
                 /\ \A o \in Ops : got[o] = 1
                 /\ \A d \in Deletes : pc[d] # "unlinked"
    /\ life <= 1 + Cardinality({d \in Deletes : pc[d] = "done"})

Own(o) == {n \in DOMAIN log : log[n].by = o}

\* A Session knows what it read and what it wrote.
SessionsKnow ==
    \A o \in Ops :
        /\ known[o] = (1 .. at[o]) \cup Own(o)
        /\ \A n \in Own(o) : at[o] < n
        /\ pc[o] = "idle" => at[o] = 0

\* Which kinds of requests write which kinds of entries, and when first.
AuthorsKnown ==
    /\ \A n \in DOMAIN log :
          /\ log[n].kind = "leaf" => log[n].by \in Navigates
          /\ log[n].kind = "session_config" => log[n].by \in Configures
          /\ log[n].kind = "next_turn_consumed" => log[n].by \in Turns
          /\ log[n].kind = "next_turn_input" => log[n].by \in Inputs
          /\ log[n].kind = "message" => log[n].by \in Turns
    /\ \A o \in Ops : pc[o] \in {"idle", "opened", "checked"} => Own(o) = {}

\* The leaf after an entry.
Tip(n) == IF n = 0 THEN 0 ELSE IF log[n].kind = "leaf" THEN log[n].target ELSE n

\* j is the last entry that o had read or written before n.
LastOf(o, j, n) ==
    /\ j \in 0 .. n - 1 /\ j \in {at[o]} \cup Own(o) /\ at[o] <= j
    /\ \A i \in Own(o) : i < n => i <= j

\* Every entry is a child of the leaf that its author's Session was at.
Lineage ==
    /\ \A k \in DOMAIN log : \E j \in 0 .. k - 1 : LastOf(log[k].by, j, k) /\ log[k].parent = Tip(j)
    /\ \A o \in Ops : \E j \in 0 .. Len(log) : LastOf(o, j, Len(log) + 1) /\ leaf[o] = Tip(j)

\* What a turn took is what it wrote that it consumed.
Consumptions ==
    /\ \A n \in OfKind(DOMAIN log, "next_turn_consumed") : log[n].data = took[log[n].by]
    /\ \A t \in Turns :
          /\ took[t] \subseteq 1 .. at[t]
          /\ pc[t] \in {"idle", "opened", "queued", "active"} =>
                took[t] = {} /\ \A n \in Own(t) : log[n].kind # "next_turn_consumed"

\* Of two configurations the later has the keys of the earlier, unless one in
\* between was written without having read it.
Merged ==
    \A n, k \in OfKind(DOMAIN log, "session_config") :
        n <= k => \/ log[n].data \subseteq log[k].data
                  \/ \E i \in OfKind(n + 1 .. k, "session_config") : at[log[i].by] < n

\* A deletion that goes on met no turn.
TurnsSpared ==
    \A t \in Turns, d \in Deletes :
        pc[d] \in {"checked", "unlinked"} /\ InFlight(t) => Before(d, t, "run_start")

IInv ==
    /\ Typed /\ StagesKnown /\ OneLife /\ SessionsKnow /\ AuthorsKnown /\ Lineage
    /\ Consumptions /\ Merged /\ TurnsSpared
    /\ FinishedTurnsSeen /\ NavigationHolds /\ InputsGivenOnce /\ TitleAfterName

-----------------------------------------------------------------------------
(* Induction on numbers, by the least of those that are in the way.        *)

Less == {p \in Nat \X Nat : p[1] < p[2]}

LEMMA LessIsLess == IsWellFoundedOn(Less, Nat) /\ \A k, m \in Nat : <<k, m>> \in Less <=> k < m
<1>1. IsWellFoundedOn(Less, Nat)
  BY NatLessThanWellFounded DEF OpToRel, Less
<1>2. \A k, m \in Nat : <<k, m>> \in Less <=> k < m
  BY DEF Less
<1> QED BY <1>1, <1>2

LEMMA Least ==
    ASSUME NEW S, S \subseteq Nat, S # {}
    PROVE  \E m \in S : \A k \in S : m <= k
<1>0. IsWellFoundedOn(Less, Nat)
  BY LessIsLess
<1>1. PICK m \in S : \A k \in S : ~(<<k, m>> \in Less)
  BY <1>0, WFMin
<1>2. \A k \in S : ~(k < m)
  BY <1>1, LessIsLess
<1> QED BY <1>2

\* Newest of entries that there are is the last of them.
LEMMA NewestIs ==
    ASSUME NEW n \in Nat, NEW S, S \subseteq 1 .. n, S # {}
    PROVE  Newest(S) \in S /\ \A k \in S : k <= Newest(S)
<1> DEFINE Bounds == {b \in Nat : \A k \in S : k <= b}
<1>1. n \in Bounds
  OBVIOUS
<1>2. PICK b \in Bounds : \A c \in Bounds : b <= c
  BY <1>1, Least
<1>3. b \in S
  <2> SUFFICES ASSUME b \notin S PROVE FALSE
    OBVIOUS
  <2>1. \A k \in S : k <= b - 1 /\ k >= 1
    OBVIOUS
  <2>2. b - 1 \in Nat
    <3> PICK k \in S : TRUE
      OBVIOUS
    <3>1. k \in Nat /\ 1 <= k /\ k <= b - 1
      BY <2>1
    <3> QED BY <3>1
  <2>3. b - 1 \in Bounds
    BY <2>1, <2>2
  <2> QED BY <1>2, <2>3
<1>4. \A k \in S : k <= b
  OBVIOUS
<1> QED BY <1>3, <1>4 DEF Newest

-----------------------------------------------------------------------------
(* The three things that a request does to its Session and the log.        *)

Reads(o) ==
    /\ pc[o] = "idle" /\ pc'[o] # "idle" /\ header
    /\ at' = [at EXCEPT ![o] = Len(log)]
    /\ known' = [known EXCEPT ![o] = removed + 1 .. Len(log)]
    /\ leaf' = [leaf EXCEPT ![o] = LastLeaf]
    /\ UNCHANGED <<log, removed, header, life, holder, took, shown>>

\* The entry that a request writes at this stage.
Fits(o, e) ==
    /\ e \in Entries /\ e.by = o /\ e.parent = leaf[o]
    /\ e.target \in {0} \cup known[o] /\ e.data \subseteq 1 .. Len(log) + 1
    /\ e.kind = "leaf" => o \in Navigates /\ e.target \in known[o]
    /\ e.kind = "session_config" =>
          o \in Configures /\ pc[o] = "checked" /\ e.data = Overrides(known[o]) \cup {Len(log) + 1}
    /\ e.kind = "next_turn_input" => o \in Inputs
    /\ e.kind = "session_info" /\ o \in Turns => Named(known[o]) = {}
    /\ e.kind = "run_start" /\ o \in Turns => pc[o] = "opened"
    /\ e.kind = "message" => o \in Turns
    /\ IF e.kind = "next_turn_consumed"
       THEN /\ o \in Turns /\ pc[o] = "active" /\ pc'[o] = "consumed"
            /\ e.data = Pending(known[o]) /\ took' = [took EXCEPT ![o] = e.data]
       ELSE took' = took

Adds(o, e) ==
    /\ Fits(o, e) /\ pc[o] # "idle"
    /\ log' = Append(log, e)
    /\ known' = [known EXCEPT ![o] = @ \cup {Len(log) + 1}]
    /\ leaf' = [leaf EXCEPT ![o] = IF e.kind = "leaf" THEN e.target ELSE Len(log) + 1]
    /\ pc'[o] \notin {"idle", "opened", "checked"}
    /\ UNCHANGED <<removed, header, at, life, holder, shown>>

Rests(o) ==
    /\ UNCHANGED <<log, at, known, leaf>>
    /\ pc[o] = "idle" => pc'[o] = "done"
    /\ pc'[o] \notin {"idle", "opened", "checked"}
    /\ took' = took \/ (o \in Turns /\ pc[o] = "active" /\ took' = [took EXCEPT ![o] = {}])

Others(o) ==
    /\ pc' \in [Ops -> TurnStages \cup {"checked", "left", "unlinked"}]
    /\ \A p \in Ops \ {o} : pc'[p] = pc[p]

\* Configurations are of entries there are.
LEMMA OverridesAre ==
    ASSUME Typed, NEW S \in SUBSET (1 .. Len(log))
    PROVE  /\ Overrides(S) \subseteq 1 .. Len(log)
           /\ OfKind(S, "session_config") # {} =>
                 \E n \in OfKind(S, "session_config") :
                    /\ Overrides(S) = log[n].data
                    /\ \A k \in OfKind(S, "session_config") : k <= n
<1>1. CASE OfKind(S, "session_config") = {}
  BY <1>1 DEF Overrides
<1>2. CASE OfKind(S, "session_config") # {}
  <2> DEFINE n == Newest(OfKind(S, "session_config"))
  <2>1. Len(log) \in Nat /\ DOMAIN log = 1 .. Len(log)
    BY DEF Typed
  <2>2. n \in OfKind(S, "session_config") /\ \A k \in OfKind(S, "session_config") : k <= n
    BY <1>2, <2>1, NewestIs DEF OfKind
  <2>3. n \in 1 .. Len(log) /\ log[n].data \subseteq 1 .. n
    BY <2>1, <2>2 DEF OfKind, Typed, TypeOK
  <2>4. Overrides(S) = log[n].data
    BY <1>2 DEF Overrides
  <2> QED BY <2>1, <2>2, <2>3, <2>4
<1> QED BY <1>1, <1>2

\* What a request does by its next step, and to nobody else.
LEMMA StepForms ==
    ASSUME Typed, SessionsKnow, Consumptions, NEW o \in Ops, Step(o)
    PROVE  Others(o) /\ (Reads(o) \/ Rests(o) \/ \E e \in Entries : Adds(o, e))
<1> USE DEF Goes, mine, Silent
<1> DEFINE Written(kind, target, data) ==
        [kind |-> kind, by |-> o, parent |-> leaf[o], target |-> target, data |-> data]
           May(target, data) == target \in {0} \cup known[o] /\ data \in SUBSET (1 .. Len(log) + 1)
<1>0. /\ pc \in [Ops -> TurnStages \cup {"checked", "left", "unlinked"}] /\ Len(log) \in Nat
      /\ leaf[o] \in {0} \cup known[o] /\ known[o] \subseteq 1 .. Len(log)
  BY DEF Typed, TypeOK, SessionsKnow, Own
<1>f. ASSUME NEW kind \in Kinds, NEW target, NEW data, May(target, data)
      PROVE  Written(kind, target, data) \in Entries
  <2>1. leaf[o] \in Nat /\ target \in Nat /\ data \in SUBSET Nat
    BY <1>0, <1>f
  <2> QED BY <2>1 DEF Entries
<1> HIDE DEF May
<1>w. ASSUME NEW kind \in Kinds, NEW target, NEW data, May(target, data),
             Writes(o, kind, target, data), UNCHANGED <<life, holder, shown>>,
             pc[o] # "idle", pc'[o] \notin {"idle", "opened", "checked"},
             Fits(o, Written(kind, target, data))
      PROVE  \E e \in Entries : Adds(o, e)
  <2>1. Adds(o, Written(kind, target, data))
    BY <1>w DEF Adds, Writes
  <2> QED BY <2>1, <1>w, <1>f
<1>1. CASE TurnOpen(o) \/ ConfigureOpen(o) \/ OpenToWrite(o) \/ CommandOpen(o) \/ DeleteCheck(o)
  <2>1. Opens(o) /\ pc'[o] # "idle" /\ UNCHANGED <<log, removed, header, life, holder, took, shown>>
    BY <1>1, <1>0 DEF TurnOpen, ConfigureOpen, OpenToWrite, CommandOpen, DeleteCheck
  <2>2. Others(o)
    BY <1>1, <1>0 DEF TurnOpen, ConfigureOpen, OpenToWrite, CommandOpen, DeleteCheck, Others, TurnStages
  <2> QED BY <2>1, <2>2 DEF Opens, Reads
<1>2. CASE TurnBegin(o) \/ TurnInvoke(o) \/ TurnSettle(o) \/ TurnClose(o)
  <2>1. Others(o)
    BY <1>2, <1>0 DEF TurnBegin, TurnInvoke, TurnSettle, TurnClose, Others, TurnStages
  <2> QED BY <2>1, <1>2, <1>0 DEF TurnBegin, TurnInvoke, TurnSettle, TurnClose, Rests
<1>3. CASE CommandBegin(o) \/ CommandClose(o) \/ DeleteUnlink(o) \/ DeleteForget(o) \/ Refused(o)
  <2>1. Others(o)
    BY <1>3, <1>0 DEF CommandBegin, CommandClose, DeleteUnlink, DeleteForget, Refused, Others, TurnStages
  <2> QED BY <2>1, <1>3, <1>0 DEF CommandBegin, CommandClose, DeleteUnlink, DeleteForget, Refused, Rests
<1>k. /\ {"run_start", "message", "run_end", "session_config", "session_info", "next_turn_input",
            "next_turn_consumed", "leaf", "branch_summary", "label", "compaction"} \subseteq Kinds
      /\ May(0, {})
  BY <1>0 DEF Kinds, May
<1>4. CASE o \in Turns /\ TurnStart(o)
  <2>1. Fits(o, Written("run_start", 0, {}))
    BY <1>4, <1>0, <1>f, <1>k DEF TurnStart, Fits
  <2>2. Adds(o, Written("run_start", 0, {}))
    BY <1>4, <2>1, <1>0 DEF TurnStart, Adds
  <2>3. Others(o)
    BY <1>4, <1>0 DEF TurnStart, Others, TurnStages
  <2> QED BY <2>2, <2>3, <1>f, <1>k
<1>5. CASE o \in Turns /\ TurnConsume(o)
  <2>1. Others(o) /\ pc'[o] = "consumed" /\ pc[o] = "active"
    BY <1>5, <1>0 DEF TurnConsume, Others, TurnStages
  <2>2. CASE took'[o] = {}
    BY <1>5, <2>1, <2>2 DEF TurnConsume, Rests
  <2>3. CASE took'[o] # {}
    <3> DEFINE data == Pending(known[o])
    <3>1. took' = [took EXCEPT ![o] = data] /\ took'[o] = data
      BY <1>5 DEF TurnConsume, Typed
    <3>2. May(0, data)
      BY <1>0 DEF May, Pending, OfKind
    <3>3. Fits(o, Written("next_turn_consumed", 0, data))
      BY <1>5, <1>0, <2>1, <3>1, <3>2, <1>f, <1>k DEF Fits, May
    <3> QED BY <1>5, <2>1, <2>3, <3>1, <3>2, <3>3, <1>k, <1>w DEF TurnConsume
  <2> QED BY <2>2, <2>3
<1>6. CASE o \in Turns /\ TurnMessages(o)
  <2>1. Others(o) /\ pc[o] = "running" /\ pc'[o] = "answered"
    BY <1>6, <1>0 DEF TurnMessages, Others, TurnStages
  <2>2. May(0, took[o])
    BY <1>6, <1>0 DEF May, Consumptions, SessionsKnow, Own
  <2>3. Fits(o, Written("message", 0, took[o]))
    BY <1>6, <1>0, <2>2, <1>f, <1>k DEF TurnMessages, Fits, May
  <2> QED BY <1>6, <2>1, <2>2, <2>3, <1>k, <1>w DEF TurnMessages
<1>7. CASE o \in Turns /\ (TurnEnd(o) \/ TurnBreaks(o) \/ TurnCancelled(o))
  <2>1. /\ Others(o) /\ pc[o] # "idle" /\ pc'[o] \notin {"idle", "opened", "checked"}
        /\ Writes(o, "run_end", 0, {}) /\ UNCHANGED <<life, holder, took, shown>>
    BY <1>7, <1>0 DEF TurnEnd, TurnBreaks, TurnCancelled, Others, TurnStages
  <2>2. Fits(o, Written("run_end", 0, {}))
    BY <2>1, <1>0, <1>f, <1>k DEF Fits
  <2> QED BY <2>1, <2>2, <1>k, <1>w
<1>8. CASE o \in Turns /\ TurnTitle(o)
  <2>1. Others(o) /\ pc[o] = "titling" /\ pc'[o] = "closing" /\ UNCHANGED <<life, holder, took, shown>>
    BY <1>8, <1>0 DEF TurnTitle, Others, TurnStages
  <2>2. CASE Named(known[o]) = {} /\ Writes(o, "session_info", 0, {})
    <3>1. Fits(o, Written("session_info", 0, {}))
      BY <2>1, <2>2, <1>0, <1>f, <1>k DEF Fits
    <3> QED BY <2>1, <2>2, <3>1, <1>k, <1>w
  <2>3. CASE Silent
    BY <2>1, <2>3 DEF Rests
  <2> QED BY <1>8, <2>2, <2>3 DEF TurnTitle
<1>9. CASE o \in Configures /\ ConfigureWrite(o)
  <2> DEFINE data == Overrides(known[o]) \cup {Len(log) + 1}
  <2>1. /\ Others(o) /\ pc[o] = "checked" /\ pc'[o] = "done"
        /\ Writes(o, "session_config", 0, data) /\ UNCHANGED <<life, holder, took, shown>>
    BY <1>9, <1>0 DEF ConfigureWrite, Others, TurnStages
  <2>2. May(0, data)
    BY <1>0, OverridesAre DEF May
  <2>3. Fits(o, Written("session_config", 0, data))
    BY <2>1, <2>2, <1>9, <1>0, <1>f, <1>k DEF Fits, May
  <2> QED BY <2>1, <2>2, <2>3, <1>k, <1>w
<1>10. CASE Rename(o)
  <2>1. /\ Others(o) /\ pc[o] # "idle" /\ pc'[o] = "done" /\ o \in Renames
        /\ Writes(o, "session_info", 0, {}) /\ UNCHANGED <<life, holder, took, shown>>
    BY <1>10, <1>0 DEF Rename, Others, TurnStages
  <2>2. Fits(o, Written("session_info", 0, {}))
    BY <2>1, <1>0, <1>f, <1>k, OpsAssumption DEF Fits
  <2> QED BY <2>1, <2>2, <1>k, <1>w
<1>11. CASE NextTurn(o)
  <2>1. /\ Others(o) /\ pc[o] # "idle" /\ pc'[o] = "done" /\ o \in Inputs
        /\ Writes(o, "next_turn_input", 0, {}) /\ UNCHANGED <<life, holder, took, shown>>
    BY <1>11, <1>0 DEF NextTurn, Others, TurnStages
  <2>2. Fits(o, Written("next_turn_input", 0, {}))
    BY <2>1, <1>0, <1>f, <1>k DEF Fits
  <2> QED BY <2>1, <2>2, <1>k, <1>w
<1>12. CASE NavigateLeaf(o)
  <2>1. PICK target \in known[o] : Writes(o, "leaf", target, {})
    BY <1>12 DEF NavigateLeaf
  <2>2. /\ Others(o) /\ pc[o] # "idle" /\ pc'[o] = "left" /\ o \in Navigates
        /\ UNCHANGED <<life, holder, took, shown>>
    BY <1>12, <1>0 DEF NavigateLeaf, Others
  <2>3. May(target, {})
    BY <1>0 DEF May
  <2>4. Fits(o, Written("leaf", target, {}))
    BY <2>2, <2>3, <1>0, <1>f, <1>k DEF Fits
  <2> QED BY <2>1, <2>2, <2>3, <2>4, <1>k, <1>w
<1>13. CASE NavigateSummary(o)
  <2>1. /\ Others(o) /\ pc[o] = "left" /\ pc'[o] = "left"
        /\ Writes(o, "branch_summary", 0, {}) /\ UNCHANGED <<life, holder, took, shown>>
    BY <1>13, <1>0 DEF NavigateSummary, Others
  <2>2. Fits(o, Written("branch_summary", 0, {}))
    BY <2>1, <1>0, <1>f, <1>k DEF Fits
  <2> QED BY <2>1, <2>2, <1>k, <1>w
<1>14. CASE NavigateLabel(o)
  <2>1. /\ Others(o) /\ pc[o] = "left" /\ pc'[o] = "closing"
        /\ Writes(o, "label", leaf[o], {}) /\ UNCHANGED <<life, holder, took, shown>>
    BY <1>14, <1>0 DEF NavigateLabel, Others, TurnStages
  <2>2. May(leaf[o], {})
    BY <1>0 DEF May
  <2>3. Fits(o, Written("label", leaf[o], {}))
    BY <2>1, <2>2, <1>0, <1>f, <1>k DEF Fits
  <2> QED BY <2>1, <2>2, <2>3, <1>k, <1>w
<1>15. CASE Compact(o)
  <2>1. /\ Others(o) /\ pc[o] = "active" /\ pc'[o] = "closing"
        /\ Writes(o, "compaction", 0, {}) /\ UNCHANGED <<life, holder, took, shown>>
    BY <1>15, <1>0 DEF Compact, Others, TurnStages
  <2>2. Fits(o, Written("compaction", 0, {}))
    BY <2>1, <1>0, <1>f, <1>k DEF Fits
  <2> QED BY <2>1, <2>2, <1>k, <1>w
<1> QED BY <1>1, <1>2, <1>3, <1>4, <1>5, <1>6, <1>7, <1>8, <1>9, <1>10, <1>11, <1>12, <1>13,
           <1>14, <1>15 DEF Step, TurnTask

-----------------------------------------------------------------------------
(* Branches.                                                               *)

\* Branch, of a log l.
BranchIn(l, n) ==
    LET path[i \in 0 .. Len(l)] == IF i = 0 THEN {} ELSE {i} \cup path[l[i].parent]
    IN  path[n]

ParentsBefore(l) == Len(l) \in Nat /\ \A i \in 1 .. Len(l) : l[i].parent \in 0 .. i - 1

LEMMA PathExists ==
    ASSUME NEW l, ParentsBefore(l)
    PROVE  \E f : f = [i \in 0 .. Len(l) |-> IF i = 0 THEN {} ELSE {i} \cup f[l[i].parent]]
<1> DEFINE Path(f, n) == f = [i \in 0 .. n |-> IF i = 0 THEN {} ELSE {i} \cup f[l[i].parent]]
           None == {n \in 0 .. Len(l) : ~\E f : Path(f, n)}
<1> Len(l) \in Nat
  BY DEF ParentsBefore
<1>0. SUFFICES ASSUME None # {} PROVE FALSE
  <2> HIDE DEF Path
  <2>1. ~(Len(l) \in None) => \E f : Path(f, Len(l))
    OBVIOUS
  <2> QED BY <1>0, <2>1 DEF Path
<1>1. PICK m \in None : \A k \in None : m <= k
  <2> HIDE DEF Path
  <2>1. None \subseteq Nat
    OBVIOUS
  <2> HIDE DEF None
  <2> QED BY <1>0, <2>1, Least
<1>2. CASE m = 0
  <2>1. Path([i \in 0 .. 0 |-> {}], 0)
    OBVIOUS
  <2> QED BY <1>2, <2>1
<1>3. CASE m # 0
  <2>1. m - 1 \in 0 .. Len(l) /\ ~(m - 1 \in None)
    <3> HIDE DEF Path
    <3>1. m \in 0 .. Len(l)
      BY <1>1
    <3>2. m - 1 \in 0 .. Len(l) /\ ~(m <= m - 1)
      BY <1>3, <3>1
    <3> HIDE DEF None
    <3> QED BY <1>1, <3>2
  <2>2. PICK f : Path(f, m - 1)
    BY <2>1
  <2> DEFINE g == [i \in 0 .. m |-> IF i = m THEN {m} \cup f[l[m].parent] ELSE f[i]]
  <2>3. ASSUME NEW i \in 0 .. m PROVE g[i] = IF i = 0 THEN {} ELSE {i} \cup g[l[i].parent]
    <3>1. i # 0 => l[i].parent \in 0 .. i - 1
      BY DEF ParentsBefore
    <3>2. CASE i = m
      BY <1>3, <3>1, <3>2
    <3>3. CASE i # m
      <4>1. i \in 0 .. m - 1 /\ g[i] = f[i]
        BY <3>3
      <4>2. f[i] = IF i = 0 THEN {} ELSE {i} \cup f[l[i].parent]
        BY <2>2, <4>1
      <4>3. i # 0 => l[i].parent \in 0 .. m /\ l[i].parent # m
        BY <3>1
      <4> QED BY <4>1, <4>2, <4>3
    <3> QED BY <3>2, <3>3
  <2>4. Path(g, m)
    BY <2>3
  <2> QED BY <1>1, <2>4
<1> QED BY <1>2, <1>3

LEMMA BranchIs ==
    ASSUME NEW l, ParentsBefore(l)
    PROVE  /\ BranchIn(l, 0) = {}
           /\ \A n \in 1 .. Len(l) : BranchIn(l, n) = {n} \cup BranchIn(l, l[n].parent)
<1> DEFINE Path(f) == f = [i \in 0 .. Len(l) |-> IF i = 0 THEN {} ELSE {i} \cup f[l[i].parent]]
           path == CHOOSE f : Path(f)
<1>1. \E f : Path(f)
  BY PathExists
<1>2. Path(path)
  <2> HIDE DEF Path
  <2> QED BY <1>1
<1>3. \A n : BranchIn(l, n) = path[n]
  BY DEF BranchIn
<1>4. \A i \in 0 .. Len(l) : path[i] = IF i = 0 THEN {} ELSE {i} \cup path[l[i].parent]
  <2> HIDE DEF path
  <2> QED BY <1>2
<1> HIDE DEF path
<1> Len(l) \in Nat
  BY DEF ParentsBefore
<1>5. 0 \in 0 .. Len(l) /\ \A n \in 1 .. Len(l) : n \in 0 .. Len(l) /\ n # 0
  OBVIOUS
<1>6. BranchIn(l, 0) = {}
  BY <1>3, <1>4, <1>5
<1>7. ASSUME NEW n \in 1 .. Len(l) PROVE BranchIn(l, n) = {n} \cup BranchIn(l, l[n].parent)
  <2>1. path[n] = {n} \cup path[l[n].parent]
    BY <1>4, <1>5
  <2> QED BY <1>3, <2>1
<1> QED BY <1>6, <1>7

\* What is appended changes no branch of what was there.
LEMMA BranchStays ==
    ASSUME NEW l, NEW m, ParentsBefore(l), ParentsBefore(m), Len(l) <= Len(m),
           \A i \in 1 .. Len(l) : m[i] = l[i]
    PROVE  \A n \in 0 .. Len(l) : BranchIn(m, n) = BranchIn(l, n)
<1> Len(l) \in Nat /\ Len(m) \in Nat
  BY DEF ParentsBefore
<1> DEFINE New == {n \in 0 .. Len(l) : BranchIn(m, n) # BranchIn(l, n)}
<1>0. SUFFICES ASSUME New # {} PROVE FALSE
  OBVIOUS
<1>1. PICK n \in New : \A k \in New : n <= k
  <2>1. New \subseteq Nat
    OBVIOUS
  <2> HIDE DEF New
  <2> QED BY <1>0, <2>1, Least
<1>2. n # 0
  BY BranchIs
<1>3. n \in 1 .. Len(l) /\ n \in 1 .. Len(m) /\ m[n] = l[n] /\ l[n].parent \in 0 .. n - 1
  BY <1>2 DEF ParentsBefore
<1>4. BranchIn(l, n) = {n} \cup BranchIn(l, l[n].parent) /\ BranchIn(m, n) = {n} \cup BranchIn(m, l[n].parent)
  BY <1>3, BranchIs
<1>5. l[n].parent \in 0 .. Len(l) /\ ~(n <= l[n].parent)
  BY <1>3
<1>6. l[n].parent \notin New
  <2> HIDE DEF New
  <2> QED BY <1>1, <1>5
<1> QED BY <1>4, <1>5, <1>6

\* A branch goes up.
LEMMA BranchBelow ==
    ASSUME NEW l, ParentsBefore(l)
    PROVE  \A n \in 0 .. Len(l) : BranchIn(l, n) \subseteq 1 .. n
<1> Len(l) \in Nat
  BY DEF ParentsBefore
<1> DEFINE Over == {n \in 0 .. Len(l) : ~(BranchIn(l, n) \subseteq 1 .. n)}
<1>0. SUFFICES ASSUME Over # {} PROVE FALSE
  OBVIOUS
<1>1. PICK n \in Over : \A k \in Over : n <= k
  <2>1. Over \subseteq Nat
    OBVIOUS
  <2> HIDE DEF Over
  <2> QED BY <1>0, <2>1, Least
<1>2. n # 0
  BY BranchIs
<1>3. n \in 1 .. Len(l) /\ l[n].parent \in 0 .. n - 1
  BY <1>2 DEF ParentsBefore
<1>4. BranchIn(l, n) = {n} \cup BranchIn(l, l[n].parent)
  BY <1>3, BranchIs
<1>5. l[n].parent \in 0 .. Len(l) /\ ~(n <= l[n].parent)
  BY <1>3
<1>6. l[n].parent \notin Over
  <2> HIDE DEF Over
  <2> QED BY <1>1, <1>5
<1>7. BranchIn(l, l[n].parent) \subseteq 1 .. l[n].parent
  BY <1>5, <1>6
<1>8. BranchIn(l, n) \subseteq 1 .. n
  BY <1>3, <1>4, <1>7
<1> QED BY <1>8

-----------------------------------------------------------------------------
LEMMA InitIInv == Init => IInv
<1> SUFFICES ASSUME Init PROVE IInv
  OBVIOUS
<1> USE OpsAssumption DEF Init
<1>0. Cardinality(Deletes) \in Nat /\ 1 \in Lives /\ log = <<>> /\ Len(log) = 0 /\ DOMAIN log = {}
  BY FS_CardinalityType DEF Lives
<1>1. Typed
  <2>1. TypeOK
    BY <1>0 DEF TypeOK
  <2> QED BY <1>0, <2>1 DEF Typed, TurnStages
<1>2. StagesKnown
  BY DEF StagesKnown, TurnStages, CommandStages, Commands, Ops
<1>3. OneLife
  <2>1. Cardinality({d \in Deletes : pc[d] = "done"}) \in Nat
    BY FS_Subset, FS_CardinalityType
  <2> QED BY <2>1 DEF OneLife, Ops
<1>4. SessionsKnow /\ AuthorsKnown /\ Consumptions /\ Merged /\ TurnsSpared
  BY <1>0 DEF SessionsKnow, Own, AuthorsKnown, Consumptions, Merged, TurnsSpared, OfKind, InFlight, Ops
<1>5. Lineage
  BY <1>0 DEF Lineage, LastOf, Tip, Own
<1>6. FinishedTurnsSeen /\ NavigationHolds /\ InputsGivenOnce /\ TitleAfterName
  BY <1>0 DEF FinishedTurnsSeen, NavigationHolds, InputsGivenOnce, TitleAfterName, OfKind, Ops
<1> QED BY <1>1, <1>2, <1>3, <1>4, <1>5, <1>6 DEF IInv

\* What an appended entry does to the log.
LEMMA LogGrows ==
    ASSUME Typed, NEW o \in Ops, NEW e \in Entries, Adds(o, e)
    PROVE  /\ Len(log) \in Nat /\ Len(log') = Len(log) + 1 /\ DOMAIN log = 1 .. Len(log)
           /\ log' \in Seq(Entries) /\ DOMAIN log' = 1 .. Len(log) + 1
           /\ log'[Len(log) + 1] = e /\ \A n \in 1 .. Len(log) : log'[n] = log[n]
           /\ Own(o)' = Own(o) \cup {Len(log) + 1} /\ \A p \in Ops \ {o} : Own(p)' = Own(p)
<1>1. log \in Seq(Entries) /\ log' = Append(log, e) /\ e.by = o
  BY DEF Typed, Adds, Fits
<1>2. /\ Len(log) \in Nat /\ Len(log') = Len(log) + 1 /\ DOMAIN log = 1 .. Len(log)
      /\ log' \in Seq(Entries) /\ DOMAIN log' = 1 .. Len(log) + 1
      /\ log'[Len(log) + 1] = e /\ \A n \in 1 .. Len(log) : log'[n] = log[n]
  BY <1>1
<1>3. Own(o)' = Own(o) \cup {Len(log) + 1} /\ \A p \in Ops \ {o} : Own(p)' = Own(p)
  BY <1>1, <1>2 DEF Own
<1> QED BY <1>2, <1>3

\* Who holds the lock, holds the one of its runtime and is at work.
LocksKept ==
    /\ holder \in [Lives -> Ops \cup {Free}] /\ got \in [Ops -> Lives]
    /\ \A l \in Lives : holder[l] # Free => pc[holder[l]] \in AtWork /\ got[holder[l]] = l

LEMMA LocksStep ==
    ASSUME Typed, NEW o \in Ops, Step(o)
    PROVE  LocksKept'
<1> USE DEF Goes, mine, Silent, AtWork
<1>0. /\ pc \in [Ops -> TurnStages \cup {"checked", "left", "unlinked"}] /\ LocksKept
      /\ life \in Lives /\ Free \notin Ops
  BY OpsAssumption DEF Typed, TypeOK, LocksKept
<1> DEFINE Stays == UNCHANGED <<holder, got>> /\ pc' = [pc EXCEPT ![o] = pc'[o]]
                    /\ (pc[o] \in AtWork => pc'[o] \in AtWork)
<1>1. ASSUME Stays PROVE LocksKept'
  BY <1>0, <1>1 DEF LocksKept
<1>2. CASE pc[o] \notin AtWork /\ got' = [got EXCEPT ![o] = life] /\ UNCHANGED holder
           /\ pc' = [pc EXCEPT ![o] = pc'[o]]
  BY <1>0, <1>2 DEF LocksKept
<1>3. CASE TurnBegin(o) \/ CommandBegin(o)
  BY <1>0, <1>3 DEF TurnBegin, CommandBegin, Locks, LocksKept
<1>4. CASE TurnClose(o) \/ CommandClose(o)
  <2>1. pc' = [pc EXCEPT ![o] = "done"] /\ got' = got
        /\ holder' = [holder EXCEPT ![got[o]] = IF @ = o THEN Free ELSE @]
    BY <1>4 DEF TurnClose, CommandClose, Unlocks
  <2> QED BY <1>0, <2>1 DEF LocksKept
<1>5. CASE TurnOpen(o) \/ OpenToWrite(o) \/ DeleteCheck(o) \/ DeleteUnlink(o) \/ DeleteForget(o) \/ Refused(o)
  <2>1. pc[o] \notin AtWork /\ UNCHANGED <<holder, got>> /\ pc' = [pc EXCEPT ![o] = pc'[o]]
    BY <1>0, <1>5 DEF TurnOpen, OpenToWrite, DeleteCheck, DeleteUnlink, DeleteForget, Refused, Opens
  <2> QED BY <2>1, <1>1
<1>6. CASE TurnStart(o) \/ ConfigureOpen(o) \/ CommandOpen(o)
  BY <1>0, <1>6, <1>2 DEF TurnStart, ConfigureOpen, CommandOpen, TakesRuntime, Opens
<1>7. CASE TurnConsume(o) \/ TurnInvoke(o) \/ TurnMessages(o) \/ TurnSettle(o)
  <2>1. Stays
    BY <1>0, <1>7 DEF TurnConsume, TurnInvoke, TurnMessages, TurnSettle, Writes
  <2> QED BY <2>1, <1>1
<1>8. CASE TurnEnd(o) \/ TurnBreaks(o) \/ TurnCancelled(o) \/ TurnTitle(o)
  <2>1. Stays
    BY <1>0, <1>8 DEF TurnEnd, TurnBreaks, TurnCancelled, TurnTitle, Writes
  <2> QED BY <2>1, <1>1
<1>9. CASE ConfigureWrite(o) \/ Rename(o) \/ NextTurn(o)
  <2>1. Stays
    BY <1>0, <1>9 DEF ConfigureWrite, Rename, NextTurn, Writes
  <2> QED BY <2>1, <1>1
<1>10. CASE NavigateLeaf(o) \/ NavigateSummary(o) \/ NavigateLabel(o) \/ Compact(o)
  <2>1. Stays
    BY <1>0, <1>10 DEF NavigateLeaf, NavigateSummary, NavigateLabel, Compact, Writes
  <2> QED BY <2>1, <1>1
<1> QED BY <1>3, <1>4, <1>5, <1>6, <1>7, <1>8, <1>9, <1>10 DEF Step, TurnTask

\* A deletion ends each life, and there are as many lives as deletions.
LEMMA LifeStep ==
    ASSUME Typed, StagesKnown, OneLife, SessionsKnow, Consumptions, NEW o \in Ops, Step(o)
    PROVE  /\ OneLife' /\ life' \in Lives /\ header' \in BOOLEAN
           /\ removed' \in 0 .. Len(log') /\ removed <= removed'
<1> USE DEF Goes, mine, Silent
<1> DEFINE Over == {d \in Deletes : pc[d] = "done"}
<1>0. /\ pc \in [Ops -> TurnStages \cup {"checked", "left", "unlinked"}] /\ got \in [Ops -> Lives]
      /\ life \in Lives /\ header \in BOOLEAN /\ Len(log) \in Nat /\ removed \in 0 .. Len(log)
      /\ Lives \subseteq Nat
  BY DEF Typed, TypeOK, Lives
<1>1. /\ IsFiniteSet(Over) /\ Cardinality(Over) \in Nat /\ Cardinality(Over') \in Nat
      /\ Cardinality(Deletes) \in Nat
      /\ Over \subseteq Over' => Cardinality(Over) <= Cardinality(Over')
      /\ \A d \in Deletes \ Over : Cardinality(Over \cup {d}) = Cardinality(Over) + 1
      /\ \A d \in Deletes \ Over : Cardinality(Over \cup {d}) <= Cardinality(Deletes)
  <2>1. Over \subseteq Deletes /\ Over' \subseteq Deletes /\ IsFiniteSet(Deletes)
    BY OpsAssumption
  <2>2. \A d \in Deletes \ Over : Over \cup {d} \subseteq Deletes
    BY <2>1
  <2> HIDE DEF Over
  <2> QED BY <2>1, <2>2, FS_Subset, FS_CardinalityType, FS_AddElement
<1>2. CASE DeleteForget(o) /\ o \in Deletes
  <2>1. o \in Deletes \ Over /\ Over' = Over \cup {o} /\ pc'[o] = "done"
    BY <1>0, <1>2, OpsAssumption DEF DeleteForget, Ops
  <2>2. life' = life + 1 /\ ~header /\ header' = header /\ UNCHANGED <<removed, log>>
    BY <1>2 DEF DeleteForget, OneLife
  <2>3. life' <= 1 + Cardinality(Over') /\ life' \in Lives
    <3> HIDE DEF Over
    <3>1. life <= 1 + Cardinality(Over)
      BY DEF OneLife, Over
    <3> QED BY <1>0, <1>1, <2>1, <2>2, <3>1 DEF Lives
  <2> QED BY <1>0, <2>2, <2>3 DEF OneLife
<1>3. CASE DeleteUnlink(o) /\ o \in Deletes
  <2>1. /\ pc[o] = "checked" /\ pc' = [pc EXCEPT ![o] = pc'[o]] /\ UNCHANGED <<log, life, got>>
        /\ \/ header' = FALSE /\ removed' = Len(log)
           \/ UNCHANGED <<header, removed>> /\ pc'[o] = "done"
    BY <1>0, <1>3 DEF DeleteUnlink
  <2>2. Over \subseteq Over'
    BY <1>0, <2>1 DEF Ops
  <2>3. life' <= 1 + Cardinality(Over')
    <3> HIDE DEF Over
    <3>1. life <= 1 + Cardinality(Over)
      BY DEF OneLife, Over
    <3> QED BY <1>0, <1>1, <2>1, <2>2, <3>1
  <2>4. header' => header /\ removed' = removed /\ \A d \in Deletes : pc'[d] # "unlinked"
    BY <1>0, <2>1 DEF OneLife, Ops
  <2>5. header' \in BOOLEAN /\ life' \in Lives /\ removed' \in 0 .. Len(log')
    <3>1. header' \in BOOLEAN /\ life' \in Lives
      BY <1>0, <2>1
    <3>2. Len(log') = Len(log) /\ (removed' = Len(log) \/ removed' = removed)
      BY <2>1
    <3> QED BY <1>0, <3>1, <3>2
  <2>6. header' => removed' = 0 /\ life' = 1 /\ \A p \in Ops : got'[p] = 1
    BY <2>1, <2>4 DEF OneLife
  <2>7. removed <= removed'
    BY <1>0, <2>1
  <2> QED BY <2>3, <2>4, <2>5, <2>6, <2>7 DEF OneLife
<1>4. CASE ~((DeleteForget(o) \/ DeleteUnlink(o)) /\ o \in Deletes)
  <2>1. /\ UNCHANGED <<life, header, removed>> /\ Len(log') \in Nat /\ Len(log) <= Len(log')
        /\ got' = got \/ got' = [got EXCEPT ![o] = life]
        /\ \A d \in Deletes : pc'[d] # pc[d] => pc[d] = "idle" /\ pc'[d] # "unlinked"
    <3>1. CASE o \in Deletes
      <4>1. DeleteCheck(o) \/ Refused(o)
        BY <1>4, <3>1, OpsAssumption DEF Step, Ops, OpenToWrite, Rename, NextTurn, CommandOpen,
           CommandBegin, NavigateLeaf, NavigateSummary, NavigateLabel, Compact, CommandClose
      <4> QED BY <1>0, <3>1, <4>1 DEF DeleteCheck, Refused, Opens, Ops
    <3>2. CASE o \notin Deletes
      <4>1. \A d \in Deletes : pc'[d] = pc[d]
        BY <1>0, <3>2, StepForms DEF Others, Ops
      <4>2. (\E e : log' = Append(log, e)) => Len(log') = Len(log) + 1
        BY DEF Typed
      <4>3. /\ UNCHANGED <<life, header, removed>>
            /\ log' = log \/ \E e : log' = Append(log, e)
            /\ got' = got \/ got' = [got EXCEPT ![o] = life]
        <5>1. CASE TurnTask(o) \/ TurnOpen(o) \/ TurnBreaks(o) \/ TurnCancelled(o)
          BY <5>1 DEF TurnTask, TurnOpen, TurnStart, TurnBegin, TurnConsume, TurnInvoke, TurnMessages,
             TurnSettle, TurnEnd, TurnTitle, TurnClose, TurnBreaks, TurnCancelled, Opens, Writes,
             TakesRuntime
        <5>2. CASE ConfigureOpen(o) \/ ConfigureWrite(o) \/ OpenToWrite(o) \/ Rename(o) \/ NextTurn(o)
          BY <5>2 DEF ConfigureOpen, ConfigureWrite, OpenToWrite, Rename, NextTurn, Opens, Writes,
             TakesRuntime
        <5>3. CASE CommandOpen(o) \/ CommandBegin(o) \/ NavigateLeaf(o) \/ NavigateSummary(o)
                   \/ NavigateLabel(o) \/ Compact(o) \/ CommandClose(o) \/ Refused(o)
          BY <5>3 DEF CommandOpen, CommandBegin, NavigateLeaf, NavigateSummary, NavigateLabel, Compact,
             CommandClose, Refused, Opens, Writes, TakesRuntime
        <5> QED BY <3>2, <5>1, <5>2, <5>3 DEF Step
      <4> QED BY <1>0, <4>1, <4>2, <4>3
    <3> QED BY <3>1, <3>2
  <2>2. Over \subseteq Over'
    BY <2>1
  <2>3. life' <= 1 + Cardinality(Over')
    <3> HIDE DEF Over
    <3>1. life <= 1 + Cardinality(Over)
      BY DEF OneLife, Over
    <3> QED BY <1>0, <1>1, <2>1, <2>2, <3>1
  <2> QED BY <1>0, <2>1, <2>3 DEF OneLife
<1> QED BY <1>2, <1>3, <1>4

\* A turn is shown its branch when its model is called, and then nothing else.
LEMMA ShownAt ==
    ASSUME Typed, NEW o \in Ops, Step(o)
    PROVE  \/ shown' = shown
           \/ /\ o \in Turns /\ pc[o] = "consumed" /\ pc'[o] = "running" /\ UNCHANGED <<log, at, leaf>>
              /\ shown' = [shown EXCEPT ![o] = Messages(leaf[o])]
<1>0. pc \in [Ops -> TurnStages \cup {"checked", "left", "unlinked"}]
  BY DEF Typed
<1>1. CASE TurnInvoke(o) /\ o \in Turns
  BY <1>0, <1>1 DEF TurnInvoke, Goes, Silent, mine
<1>2. CASE TurnStart(o) \/ TurnBegin(o) \/ TurnConsume(o) \/ TurnMessages(o) \/ TurnSettle(o)
           \/ TurnEnd(o) \/ TurnTitle(o) \/ TurnClose(o)
  BY <1>2 DEF TurnStart, TurnBegin, TurnConsume, TurnMessages, TurnSettle, TurnEnd, TurnTitle, TurnClose
<1>3. CASE TurnOpen(o) \/ TurnBreaks(o) \/ TurnCancelled(o) \/ ConfigureOpen(o) \/ ConfigureWrite(o)
           \/ OpenToWrite(o) \/ Rename(o) \/ NextTurn(o)
  BY <1>3 DEF TurnOpen, TurnBreaks, TurnCancelled, ConfigureOpen, ConfigureWrite, OpenToWrite, Rename,
     NextTurn
<1>4. CASE CommandOpen(o) \/ CommandBegin(o) \/ NavigateLeaf(o) \/ NavigateSummary(o)
           \/ NavigateLabel(o) \/ Compact(o) \/ CommandClose(o)
  BY <1>4 DEF CommandOpen, CommandBegin, NavigateLeaf, NavigateSummary, NavigateLabel, Compact,
     CommandClose
<1>5. CASE DeleteCheck(o) \/ DeleteUnlink(o) \/ DeleteForget(o) \/ Refused(o)
  BY <1>5 DEF DeleteCheck, DeleteUnlink, DeleteForget, Refused
<1> QED BY <1>1, <1>2, <1>3, <1>4, <1>5 DEF Step, TurnTask

LEMMA TypedStep ==
    ASSUME Typed, StagesKnown, OneLife, SessionsKnow, Consumptions, NEW o \in Ops, Step(o)
    PROVE  Typed'
<1>1. Others(o) /\ (Reads(o) \/ Rests(o) \/ \E e \in Entries : Adds(o, e))
  BY StepForms
<1>2. /\ Len(log) \in Nat /\ DOMAIN log = 1 .. Len(log)
      /\ \A p \in Ops : known[p] \subseteq 1 .. Len(log) /\ at[p] \in 0 .. Len(log)
                        /\ leaf[p] \in {0} \cup known[p]
      /\ removed \in 0 .. Len(log)
      /\ at \in [Ops -> Nat] /\ known \in [Ops -> SUBSET Nat] /\ leaf \in [Ops -> Nat]
  BY DEF Typed, TypeOK, SessionsKnow, Own
<1>3. ASSUME NEW e \in Entries, Adds(o, e) PROVE Typed'
  <2>1. /\ Len(log') = Len(log) + 1 /\ log' \in Seq(Entries) /\ DOMAIN log' = 1 .. Len(log) + 1
        /\ log'[Len(log) + 1] = e /\ \A n \in 1 .. Len(log) : log'[n] = log[n]
    BY <1>3, LogGrows
  <2>2. e.parent \in 0 .. Len(log) /\ e.target \in 0 .. Len(log) /\ e.data \subseteq 1 .. Len(log) + 1
    BY <1>2, <1>3 DEF Adds, Fits
  <2>3. ASSUME NEW n \in DOMAIN log'
        PROVE  /\ log'[n].kind \in Kinds /\ log'[n].by \in Ops /\ log'[n].parent \in 0 .. n - 1
               /\ log'[n].target \in 0 .. n - 1 /\ log'[n].data \subseteq 1 .. n
    <3>1. CASE n = Len(log) + 1
      BY <2>1, <2>2, <3>1 DEF Entries
    <3>2. CASE n # Len(log) + 1
      BY <1>2, <2>1, <3>2 DEF Typed, TypeOK
    <3> QED BY <3>1, <3>2
  <2>4. \A p \in Ops : at'[p] \in 0 .. Len(log') /\ leaf'[p] \in {0} \cup known'[p]
    BY <1>2, <1>3, <2>1, <2>2 DEF Adds, Fits
  <2>5. /\ at' \in [Ops -> Nat] /\ known' \in [Ops -> SUBSET Nat] /\ leaf' \in [Ops -> Nat]
        /\ removed' \in 0 .. Len(log') /\ shown' \in [Turns -> SUBSET Nat]
    BY <1>2, <1>3, <2>1, <2>2 DEF Adds, Fits, Typed
  <2>6. took' \in [Turns -> SUBSET Nat]
    <3>1. took \in [Turns -> SUBSET Nat] /\ e.data \in SUBSET Nat
      BY DEF Typed, Entries
    <3> QED BY <1>3, <3>1 DEF Adds, Fits
  <2> QED BY <1>1, <1>3, <2>1, <2>3, <2>4, <2>5, <2>6, LocksStep, LifeStep
          DEF Typed, TypeOK, LocksKept, AtWork, Others
<1>4. ASSUME log' = log PROVE Typed'
  <2>0. Reads(o) \/ Rests(o)
    <3>1. ASSUME NEW e \in Entries, Adds(o, e) PROVE FALSE
      <4>1. Len(log') = Len(log) + 1
        BY <3>1, LogGrows
      <4> QED BY <1>2, <1>4, <4>1
    <3> QED BY <1>1, <3>1
  <2>1. /\ at' \in [Ops -> Nat] /\ known' \in [Ops -> SUBSET Nat] /\ leaf' \in [Ops -> Nat]
        /\ \A p \in Ops : at'[p] \in 0 .. Len(log) /\ leaf'[p] \in {0} \cup known'[p]
    <3>1. CASE UNCHANGED <<at, known, leaf>>
      BY <1>2, <3>1
    <3>2. CASE Reads(o)
      <4>1. removed = 0 /\ LastLeaf \in {0} \cup 1 .. Len(log)
        BY <3>2, <1>2 DEF Reads, OneLife, LastLeaf, Last, Typed, TypeOK
      <4> QED BY <3>2, <1>2, <4>1 DEF Reads
    <3> QED BY <2>0, <3>1, <3>2 DEF Rests
  <2>2. took' \in [Turns -> SUBSET Nat]
    <3>1. took \in [Turns -> SUBSET Nat] /\ {} \in SUBSET Nat
      BY DEF Typed
    <3>2. took' = took \/ (o \in Turns /\ took' = [took EXCEPT ![o] = {}])
      BY <2>0 DEF Reads, Rests
    <3> QED BY <3>1, <3>2
  <2>3. shown' \in [Turns -> SUBSET Nat]
    <3>1. shown \in [Turns -> SUBSET Nat]
      BY DEF Typed
    <3>2. shown' = shown \/ (o \in Turns /\ shown' = [shown EXCEPT ![o] = Messages(leaf[o])])
      BY <2>0, ShownAt
    <3>3. Messages(leaf[o]) \subseteq Nat
      <4>1. ParentsBefore(log)
        BY DEF Typed, TypeOK, ParentsBefore
      <4>2. leaf[o] \in 0 .. Len(log) /\ Branch(leaf[o]) = BranchIn(log, leaf[o])
        BY <1>2 DEF Branch, BranchIn
      <4>3. Branch(leaf[o]) \subseteq 1 .. leaf[o]
        BY <4>1, <4>2, BranchBelow
      <4> QED BY <4>2, <4>3 DEF Messages, OfKind
    <3> QED BY <3>1, <3>2, <3>3
  <2> QED BY <1>1, <1>4, <2>1, <2>2, <2>3, LocksStep, LifeStep DEF Typed, TypeOK, LocksKept, AtWork, Others
<1> QED BY <1>1, <1>3, <1>4 DEF Reads, Rests

-----------------------------------------------------------------------------
(* What requests know, and whose entries are whose.                        *)

Early == {"idle", "opened", "queued", "active"}

LEMMA StagesStep ==
    ASSUME Typed, StagesKnown, NEW o \in Ops, Step(o)
    PROVE  StagesKnown' /\ (o \in Turns => /\ pc'[o] \in Early => pc[o] \in Early
                                           /\ InFlight(o)' => InFlight(o) \/ pc[o] = "opened")
<1> USE OpsAssumption DEF Goes, Ops
<1>0. pc \in [Ops -> TurnStages \cup {"checked", "left", "unlinked"}]
  BY DEF Typed
<1>1. CASE o \in Turns
  <2>1. TurnOpen(o) \/ TurnTask(o) \/ TurnBreaks(o) \/ TurnCancelled(o) \/ Refused(o)
    BY <1>1 DEF Step, OpenToWrite, Rename, NextTurn, CommandOpen, CommandBegin, NavigateLeaf,
       NavigateSummary, NavigateLabel, Compact, CommandClose
  <2>2. /\ pc' = [pc EXCEPT ![o] = pc'[o]] /\ pc'[o] \in TurnStages
        /\ pc'[o] \in Early => pc[o] \in Early
        /\ InFlight(o)' => InFlight(o) \/ pc[o] = "opened"
    BY <1>0, <1>1, <2>1 DEF TurnTask, TurnOpen, TurnStart, TurnBegin, TurnConsume, TurnInvoke, TurnMessages,
       TurnSettle, TurnEnd, TurnTitle, TurnClose, TurnBreaks, TurnCancelled, Refused, Opens,
       TurnStages, Early, InFlight
  <2> QED BY <1>0, <1>1, <2>2 DEF StagesKnown, Commands
<1>2. CASE o \in Configures \cup Renames \cup Inputs
  <2>1. \/ o \in Configures /\ (ConfigureOpen(o) \/ ConfigureWrite(o))
        \/ o \in Renames \cup Inputs /\ (OpenToWrite(o) \/ Rename(o) \/ NextTurn(o))
        \/ Refused(o)
    BY <1>2 DEF Step, OpenToWrite, Rename, NextTurn, CommandOpen, CommandBegin, NavigateLeaf,
       NavigateSummary, NavigateLabel, Compact, CommandClose
  <2>2. /\ pc' = [pc EXCEPT ![o] = pc'[o]]
        /\ pc'[o] \in {"checked", "opened", "done"}
        /\ pc'[o] = "checked" => o \in Configures
        /\ pc'[o] = "opened" => o \notin Configures
    BY <1>0, <1>2, <2>1 DEF ConfigureOpen, ConfigureWrite, OpenToWrite, Rename, NextTurn, Refused, Opens
  <2> QED BY <1>0, <1>2, <2>2 DEF StagesKnown, Commands
<1>3. CASE o \in Commands
  <2>1. /\ pc' = [pc EXCEPT ![o] = pc'[o]] /\ pc'[o] \in CommandStages
    BY <1>0, <1>3 DEF Step, CommandOpen, CommandBegin, NavigateLeaf, NavigateSummary, NavigateLabel,
       Compact, CommandClose, Refused, Opens, OpenToWrite, Rename, NextTurn, Commands, CommandStages,
       StagesKnown
  <2> QED BY <1>0, <1>3, <2>1 DEF StagesKnown, Commands
<1>4. CASE o \in Deletes
  <2>1. DeleteCheck(o) \/ DeleteUnlink(o) \/ DeleteForget(o) \/ Refused(o)
    BY <1>4 DEF Step, OpenToWrite, Rename, NextTurn, CommandOpen, CommandBegin, NavigateLeaf,
       NavigateSummary, NavigateLabel, Compact, CommandClose
  <2>2. pc' = [pc EXCEPT ![o] = pc'[o]] /\ pc'[o] \in {"checked", "unlinked", "done"}
    BY <1>0, <1>4, <2>1 DEF DeleteCheck, DeleteUnlink, DeleteForget, Refused, Opens
  <2> QED BY <1>0, <1>4, <2>2 DEF StagesKnown, Commands
<1> QED BY <1>1, <1>2, <1>3, <1>4 DEF Commands

LEMMA KnowStep ==
    ASSUME Typed, OneLife, SessionsKnow, AuthorsKnown, Consumptions, NEW o \in Ops, Step(o)
    PROVE  SessionsKnow' /\ AuthorsKnown'
<1>1. Others(o) /\ (Reads(o) \/ Rests(o) \/ \E e \in Entries : Adds(o, e))
  BY StepForms
<1>0. /\ at \in [Ops -> Nat] /\ known \in [Ops -> SUBSET Nat] /\ Len(log) \in Nat
      /\ DOMAIN log = 1 .. Len(log) /\ \A p \in Ops : at[p] \in 0 .. Len(log)
  BY DEF Typed, TypeOK
<1>2. CASE Reads(o)
  <2>1. removed = 0 /\ Own(o) = {} /\ log' = log
    BY <1>2 DEF Reads, OneLife, AuthorsKnown
  <2>2. (\A p \in Ops : Own(p)' = Own(p)) /\ removed + 1 .. Len(log) = 1 .. Len(log)
    BY <2>1 DEF Own
  <2>3. SessionsKnow'
    <3>1. /\ at' = [at EXCEPT ![o] = Len(log)] /\ known' = [known EXCEPT ![o] = 1 .. Len(log)]
          /\ pc'[o] # "idle"
      BY <1>2, <2>2 DEF Reads
    <3> QED BY <1>0, <1>1, <2>1, <2>2, <3>1 DEF SessionsKnow, Others
  <2>4. AuthorsKnown'
    BY <1>0, <1>1, <2>1, <2>2 DEF AuthorsKnown, Others
  <2> QED BY <2>3, <2>4
<1>3. CASE Rests(o)
  BY <1>0, <1>1, <1>3 DEF Rests, SessionsKnow, AuthorsKnown, Own, Others
<1>4. ASSUME NEW e \in Entries, Adds(o, e) PROVE SessionsKnow' /\ AuthorsKnown'
  <2>1. /\ DOMAIN log' = 1 .. Len(log) + 1 /\ log'[Len(log) + 1] = e
        /\ \A n \in 1 .. Len(log) : log'[n] = log[n]
        /\ Own(o)' = Own(o) \cup {Len(log) + 1} /\ \A p \in Ops \ {o} : Own(p)' = Own(p)
    BY <1>4, LogGrows
  <2>2. /\ known' = [known EXCEPT ![o] = @ \cup {Len(log) + 1}] /\ at' = at
        /\ pc[o] # "idle" /\ pc'[o] \notin {"idle", "opened", "checked"}
    BY <1>4 DEF Adds
  <2>3. SessionsKnow'
    BY <1>0, <1>1, <2>1, <2>2 DEF SessionsKnow, Others
  <2>4. /\ e.by = o /\ (e.kind = "leaf" => o \in Navigates) /\ (e.kind = "session_config" => o \in Configures)
        /\ (e.kind = "next_turn_consumed" => o \in Turns) /\ (e.kind = "next_turn_input" => o \in Inputs)
        /\ (e.kind = "message" => o \in Turns)
    BY <1>4 DEF Adds, Fits
  <2>5. AuthorsKnown'
    BY <1>0, <1>1, <2>1, <2>2, <2>4 DEF AuthorsKnown, Others
  <2> QED BY <2>3, <2>5
<1> QED BY <1>1, <1>2, <1>3, <1>4

LEMMA LineageStep ==
    ASSUME Typed, OneLife, SessionsKnow, AuthorsKnown, Consumptions, Lineage, NEW o \in Ops, Step(o)
    PROVE  Lineage'
<1>1. Others(o) /\ (Reads(o) \/ Rests(o) \/ \E e \in Entries : Adds(o, e))
  BY StepForms
<1> PICK N \in Nat : N = Len(log)
  BY DEF Typed
<1>0. /\ at \in [Ops -> Nat] /\ leaf \in [Ops -> Nat] /\ Len(log) = N
      /\ DOMAIN log = 1 .. N /\ \A p \in Ops : at[p] \in 0 .. N
      /\ \A n \in 1 .. N : log[n].by \in Ops
  <2>1. Len(log) = N /\ DOMAIN log = 1 .. N
    BY DEF Typed
  <2> QED BY <2>1 DEF Typed, TypeOK
<1>a. \A k \in 1 .. N : \E j \in 0 .. k - 1 : LastOf(log[k].by, j, k) /\ log[k].parent = Tip(j)
  BY <1>0 DEF Lineage
<1>b. \A p \in Ops : \E j \in 0 .. N : LastOf(p, j, N + 1) /\ leaf[p] = Tip(j)
  BY <1>0 DEF Lineage
<1>2. CASE Reads(o)
  <2>1. removed = 0 /\ Own(o) = {} /\ log' = log /\ at' = [at EXCEPT ![o] = N]
        /\ leaf' = [leaf EXCEPT ![o] = LastLeaf]
    BY <1>0, <1>2 DEF Reads, OneLife, AuthorsKnown
  <2>2. LastLeaf = Tip(N) /\ (\A n \in 0 .. N : Tip(n)' = Tip(n)) /\ \A p \in Ops : Own(p)' = Own(p)
    BY <1>0, <2>1 DEF LastLeaf, Last, Tip, Own
  <2>3. ASSUME NEW k \in 1 .. N
        PROVE  (\E j \in 0 .. k - 1 : LastOf(log[k].by, j, k) /\ log[k].parent = Tip(j))'
    <3>1. log[k].by # o
      BY <1>0, <2>1, <2>3 DEF Own
    <3>2. PICK j \in 0 .. k - 1 : LastOf(log[k].by, j, k) /\ log[k].parent = Tip(j)
      BY <1>a
    <3>3. (LastOf(log[k].by, j, k) /\ log[k].parent = Tip(j))'
      BY <1>0, <2>1, <2>2, <3>1, <3>2 DEF LastOf
    <3> QED BY <3>3
  <2>4. ASSUME NEW p \in Ops
        PROVE  (\E j \in 0 .. N : LastOf(p, j, N + 1) /\ leaf[p] = Tip(j))'
    <3>1. CASE p = o
      <4>1. (LastOf(p, N, N + 1) /\ leaf[p] = Tip(N))'
        BY <1>0, <2>1, <2>2, <3>1 DEF LastOf
      <4> QED BY <1>0, <4>1
    <3>2. CASE p # o
      <4>1. PICK j \in 0 .. N : LastOf(p, j, N + 1) /\ leaf[p] = Tip(j)
        BY <1>b
      <4>2. (LastOf(p, j, N + 1) /\ leaf[p] = Tip(j))'
        BY <1>0, <2>1, <2>2, <3>2, <4>1 DEF LastOf
      <4> QED BY <4>2
    <3> QED BY <3>1, <3>2
  <2> QED BY <1>0, <2>1, <2>3, <2>4 DEF Lineage
<1>3. CASE Rests(o)
  <2>1. UNCHANGED <<log, at, leaf>> /\ (\A p : Own(p)' = Own(p)) /\ \A n : Tip(n)' = Tip(n)
    BY <1>3 DEF Rests, Own, Tip
  <2>2. \A p, j, k : LastOf(p, j, k)' = LastOf(p, j, k)
    BY <2>1 DEF LastOf
  <2> QED BY <2>1, <2>2 DEF Lineage
<1>4. ASSUME NEW e \in Entries, Adds(o, e) PROVE Lineage'
  <2>1. /\ DOMAIN log' = 1 .. N + 1 /\ log'[N + 1] = e /\ Len(log') = N + 1
        /\ \A n \in 1 .. N : log'[n] = log[n]
        /\ Own(o)' = Own(o) \cup {N + 1} /\ \A p \in Ops \ {o} : Own(p)' = Own(p)
    BY <1>0, <1>4, LogGrows
  <2>2. /\ at' = at /\ e.by = o /\ e.parent = leaf[o]
        /\ leaf' = [leaf EXCEPT ![o] = IF e.kind = "leaf" THEN e.target ELSE N + 1]
    BY <1>0, <1>4 DEF Adds, Fits
  <2>3. \A n \in 0 .. N : Tip(n)' = Tip(n)
    BY <1>0, <2>1 DEF Tip
  <2>4. ASSUME NEW p \in Ops, NEW k \in 1 .. N + 1, NEW j \in 0 .. k - 1, LastOf(p, j, k)
        PROVE  LastOf(p, j, k)'
    <3>1. Own(p)' = Own(p) \/ Own(p)' = Own(p) \cup {N + 1}
      BY <2>1
    <3>2. j \in {at'[p]} \cup Own(p)' /\ at'[p] <= j
      BY <2>2, <2>4, <3>1 DEF LastOf
    <3>3. \A i \in Own(p)' : i < k => i <= j
      BY <2>4, <3>1 DEF LastOf
    <3> QED BY <3>2, <3>3 DEF LastOf
  <2>5. ASSUME NEW k \in 1 .. N + 1
        PROVE  (\E j \in 0 .. k - 1 : LastOf(log[k].by, j, k) /\ log[k].parent = Tip(j))'
    <3>1. CASE k = N + 1
      <4>1. PICK j \in 0 .. N : LastOf(o, j, N + 1) /\ leaf[o] = Tip(j)
        BY <1>b
      <4>2. j \in 0 .. k - 1 /\ LastOf(o, j, k)'
        BY <2>4, <3>1, <4>1
      <4>3. (LastOf(log[k].by, j, k) /\ log[k].parent = Tip(j))'
        BY <2>1, <2>2, <2>3, <3>1, <4>1, <4>2
      <4> QED BY <4>2, <4>3
    <3>2. CASE k # N + 1
      <4>1. k \in 1 .. N /\ log'[k] = log[k]
        BY <2>1, <3>2
      <4>2. PICK p \in Ops : p = log[k].by
        BY <1>0, <4>1
      <4>3. PICK j \in 0 .. k - 1 : LastOf(p, j, k) /\ log[k].parent = Tip(j)
        BY <4>1, <4>2, <1>a
      <4>4. j \in 0 .. N /\ LastOf(p, j, k)' /\ p = log'[k].by
        BY <2>4, <4>1, <4>2, <4>3
      <4>5. (LastOf(log[k].by, j, k) /\ log[k].parent = Tip(j))'
        BY <2>3, <4>1, <4>3, <4>4
      <4> QED BY <4>5
    <3> QED BY <3>1, <3>2
  <2>6. ASSUME NEW p \in Ops
        PROVE  (\E j \in 0 .. N + 1 : LastOf(p, j, N + 2) /\ leaf[p] = Tip(j))'
    <3>1. CASE p = o
      <4>1. LastOf(p, N + 1, N + 2)'
        BY <1>0, <2>1, <2>2, <3>1 DEF LastOf, Own
      <4>2. (leaf[p] = Tip(N + 1))'
        BY <1>0, <2>1, <2>2, <3>1 DEF Tip
      <4> QED BY <4>1, <4>2
    <3>2. CASE p # o
      <4>1. PICK j \in 0 .. N : LastOf(p, j, N + 1) /\ leaf[p] = Tip(j)
        BY <1>b
      <4>2. LastOf(p, j, N + 2)'
        BY <1>0, <2>1, <2>2, <3>2, <4>1 DEF LastOf, Own
      <4>3. leaf'[p] = Tip(j)' /\ j \in 0 .. N + 1
        BY <1>0, <2>2, <2>3, <3>2, <4>1
      <4> QED BY <4>2, <4>3
    <3> QED BY <3>1, <3>2
  <2>7. N + 1 + 1 = N + 2
    OBVIOUS
  <2> QED BY <2>1, <2>5, <2>6, <2>7 DEF Lineage
<1> QED BY <1>1, <1>2, <1>3, <1>4

-----------------------------------------------------------------------------
(* Inputs, configurations, names and deletions.                            *)

LEMMA ConsumptionsStep ==
    ASSUME Typed, StagesKnown, OneLife, SessionsKnow, AuthorsKnown, Consumptions, InputsGivenOnce,
           NEW o \in Ops, Step(o)
    PROVE  Consumptions' /\ InputsGivenOnce'
<1>1. Others(o) /\ (Reads(o) \/ Rests(o) \/ \E e \in Entries : Adds(o, e))
  BY StepForms
<1> PICK N \in Nat : N = Len(log)
  BY DEF Typed
<1>0. /\ Len(log) = N /\ DOMAIN log = 1 .. N /\ at \in [Ops -> Nat] /\ \A p \in Ops : at[p] \in 0 .. N
      /\ Turns \subseteq Ops /\ took \in [Turns -> SUBSET Nat]
      /\ \A n \in 1 .. N : log[n].by \in Ops
  <2>1. Len(log) = N /\ DOMAIN log = 1 .. N
    BY DEF Typed
  <2> QED BY <2>1 DEF Typed, TypeOK, Ops
<1>t. \A t \in Turns : pc'[t] \in Early => pc[t] \in Early
  BY <1>1, StagesStep DEF Others, Ops
<1>c. \A n \in 1 .. N : log[n].kind = "next_turn_consumed" =>
          log[n].data = took[log[n].by] /\ log[n].by \in Turns
  BY <1>0 DEF Consumptions, OfKind, AuthorsKnown
<1>e. \A t \in Turns : pc[t] \in Early => took[t] = {} /\ \A n \in Own(t) : log[n].kind # "next_turn_consumed"
  BY DEF Consumptions, Early
<1>2. CASE Reads(o)
  <2>1. /\ UNCHANGED <<log, took>> /\ at' = [at EXCEPT ![o] = N] /\ (o \in Turns => pc[o] \in Early)
        /\ \A p : Own(p)' = Own(p)
    BY <1>0, <1>2 DEF Reads, Early, Own
  <2>2. Consumptions'
    BY <1>0, <1>t, <1>e, <2>1 DEF Consumptions, OfKind, Early
  <2>3. InputsGivenOnce'
    BY <1>0, <1>e, <2>1 DEF InputsGivenOnce, Before, OfKind
  <2> QED BY <2>2, <2>3
<1>3. CASE Rests(o)
  <2>1. UNCHANGED <<log, at>> /\ \A p : Own(p)' = Own(p)
    BY <1>3 DEF Rests, Own
  <2>2. took' = took
    <3>1. CASE o \in Turns /\ pc[o] = "active" /\ took' = [took EXCEPT ![o] = {}]
      <4>1. took[o] = {}
        BY <1>e, <3>1 DEF Early
      <4> QED BY <1>0, <3>1, <4>1
    <3> QED BY <1>3, <3>1 DEF Rests
  <2>3. Consumptions'
    BY <1>0, <1>t, <1>e, <2>1, <2>2 DEF Consumptions, OfKind, Early
  <2>4. InputsGivenOnce'
    BY <1>0, <2>1, <2>2 DEF InputsGivenOnce, Before, OfKind
  <2> QED BY <2>3, <2>4
<1>4. ASSUME NEW e \in Entries, Adds(o, e) PROVE Consumptions' /\ InputsGivenOnce'
  <2>1. /\ DOMAIN log' = 1 .. N + 1 /\ log'[N + 1] = e
        /\ \A n \in 1 .. N : log'[n] = log[n]
        /\ Own(o)' = Own(o) \cup {N + 1} /\ \A p \in Ops \ {o} : Own(p)' = Own(p)
    BY <1>0, <1>4, LogGrows
  <2>2. at' = at /\ e.by = o
    BY <1>4 DEF Adds, Fits
  <2>3. CASE e.kind # "next_turn_consumed"
    <3>1. took' = took
      BY <1>4, <2>3 DEF Adds, Fits
    <3>2. OfKind(DOMAIN log, "next_turn_consumed")' = OfKind(DOMAIN log, "next_turn_consumed")
      BY <1>0, <2>1, <2>3 DEF OfKind
    <3>3. \A n \in OfKind(DOMAIN log, "next_turn_consumed") : n \in 1 .. N /\ log'[n] = log[n]
      BY <1>0, <2>1 DEF OfKind
    <3>4. Consumptions'
      <4>1. \A t \in Turns : pc'[t] \in Early =>
               took'[t] = {} /\ \A n \in Own(t)' : log'[n].kind # "next_turn_consumed"
        BY <1>0, <1>t, <1>e, <2>1, <2>3, <3>1 DEF Own
      <4>2. \A n \in OfKind(DOMAIN log, "next_turn_consumed")' : log'[n].data = took'[log'[n].by]
        BY <3>1, <3>2, <3>3 DEF Consumptions
      <4>3. \A t \in Turns : took'[t] \subseteq 1 .. at'[t]
        BY <2>2, <3>1 DEF Consumptions
      <4> QED BY <4>1, <4>2, <4>3 DEF Consumptions, Early
    <3>5. InputsGivenOnce'
      <4>1. \A t, u \in Turns : Before(t, u, "next_turn_consumed")' <=> Before(t, u, "next_turn_consumed")
        BY <2>2, <3>2, <3>3 DEF Before
      <4> QED BY <3>1, <4>1 DEF InputsGivenOnce
    <3> QED BY <3>4, <3>5
  <2>4. CASE e.kind = "next_turn_consumed"
    <3>1. /\ o \in Turns /\ pc[o] = "active" /\ pc'[o] = "consumed" /\ e.data = Pending(known[o])
          /\ took' = [took EXCEPT ![o] = e.data]
      BY <1>4, <2>4 DEF Adds, Fits
    <3>2. took[o] = {} /\ \A n \in Own(o) : log[n].kind # "next_turn_consumed"
      BY <1>e, <3>1 DEF Early
    <3>3. known[o] = (1 .. at[o]) \cup Own(o) /\ \A n \in Own(o) : log[n].kind # "next_turn_input"
      BY <1>0, <3>1, OpsAssumption DEF SessionsKnow, AuthorsKnown, Own
    <3>4. e.data \subseteq 1 .. at[o]
      BY <1>0, <3>3, <3>1 DEF Pending, OfKind
    <3>5. Consumptions'
      <4>1. \A n \in 1 .. N + 1 : log'[n].kind = "next_turn_consumed" => log'[n].data = took'[log'[n].by]
        BY <1>0, <1>c, <2>1, <2>2, <3>1, <3>2 DEF Own
      <4>2. \A t \in Turns : took'[t] \subseteq 1 .. at'[t]
        BY <1>0, <2>2, <3>1, <3>4 DEF Consumptions
      <4>3. \A t \in Turns : pc'[t] \in Early =>
               took'[t] = {} /\ \A n \in Own(t)' : log'[n].kind # "next_turn_consumed"
        BY <1>0, <1>t, <1>e, <2>1, <3>1 DEF Early, Own
      <4> QED BY <2>1, <4>1, <4>2, <4>3 DEF Consumptions, OfKind, Early
    <3>6. \A u \in Turns \ {o} : took[u] \cap e.data = {} \/ (Before(o, u, "next_turn_consumed"))'
      <4> SUFFICES ASSUME NEW u \in Turns \ {o}, NEW n \in 1 .. N, log[n].kind = "next_turn_consumed",
                          log[n].by = u, n <= at[o]
                   PROVE  took[u] \cap e.data = {}
        BY <1>0, <2>1, <2>2 DEF Before, OfKind
      <4>1. log[n].data = took[u]
        BY <1>c
      <4>2. n \in OfKind(known[o], "next_turn_consumed")
        BY <3>3 DEF OfKind
      <4> QED BY <3>1, <4>1, <4>2 DEF Pending
    <3>7. \A u \in Turns \ {o} : Before(u, o, "next_turn_consumed")'
      BY <1>0, <2>1, <2>2, <3>2 DEF Before, OfKind, Own
    <3>8. \A t, u \in Turns \ {o} : /\ Before(t, u, "next_turn_consumed")' <=> Before(t, u, "next_turn_consumed")
                                    /\ took'[t] = took[t]
      <4>1. \A n \in OfKind(DOMAIN log, "next_turn_consumed")' :
               log'[n].by # o => n \in OfKind(DOMAIN log, "next_turn_consumed") /\ log'[n] = log[n]
        BY <1>0, <2>1, <2>2 DEF OfKind
      <4>2. \A n \in OfKind(DOMAIN log, "next_turn_consumed") :
               n \in OfKind(DOMAIN log, "next_turn_consumed")' /\ log'[n] = log[n]
        BY <1>0, <2>1 DEF OfKind
      <4>3. \A t \in Turns \ {o} : took'[t] = took[t]
        BY <1>0, <3>1
      <4>4. \A t, u \in Turns \ {o} : Before(t, u, "next_turn_consumed")' <=> Before(t, u, "next_turn_consumed")
        BY <2>2, <4>1, <4>2 DEF Before
      <4> QED BY <4>3, <4>4
    <3>9. took'[o] = e.data
      BY <1>0, <3>1
    <3>10. InputsGivenOnce'
      <4> SUFFICES ASSUME NEW t \in Turns, NEW u \in Turns, t # u
                   PROVE  \/ took'[t] \cap took'[u] = {}
                          \/ (Before(t, u, "next_turn_consumed") /\ Before(u, t, "next_turn_consumed"))'
        BY DEF InputsGivenOnce
      <4>1. CASE t = o
        BY <3>6, <3>7, <3>8, <3>9, <4>1
      <4>2. CASE u = o
        BY <3>6, <3>7, <3>8, <3>9, <4>2
      <4>3. CASE t # o /\ u # o
        BY <3>8, <4>3 DEF InputsGivenOnce
      <4> QED BY <4>1, <4>2, <4>3
    <3> QED BY <3>5, <3>10
  <2> QED BY <2>3, <2>4
<1> QED BY <1>1, <1>2, <1>3, <1>4

LEMMA MergedStep ==
    ASSUME Typed, StagesKnown, OneLife, SessionsKnow, AuthorsKnown, Consumptions, Merged, TitleAfterName,
           NEW o \in Ops, Step(o)
    PROVE  Merged' /\ TitleAfterName'
<1>1. Others(o) /\ (Reads(o) \/ Rests(o) \/ \E e \in Entries : Adds(o, e))
  BY StepForms
<1> PICK N \in Nat : N = Len(log)
  BY DEF Typed
<1>0. /\ Len(log) = N /\ DOMAIN log = 1 .. N /\ at \in [Ops -> Nat] /\ \A p \in Ops : at[p] \in 0 .. N
      /\ \A n \in 1 .. N : log[n].by \in Ops
      /\ removed \in 0 .. N
  <2>1. Len(log) = N /\ DOMAIN log = 1 .. N
    BY DEF Typed
  <2> QED BY <2>1 DEF Typed, TypeOK, Ops
<1>r. removed <= removed' /\ removed' \in Nat
  BY LifeStep
<1>2. CASE Reads(o)
  <2>1. log' = log /\ removed' = removed /\ at' = [at EXCEPT ![o] = N] /\ Own(o) = {}
    BY <1>0, <1>2 DEF Reads, AuthorsKnown
  <2>2. \A n \in 1 .. N : log[n].by # o /\ at'[log[n].by] = at[log[n].by]
    BY <1>0, <2>1 DEF Own
  <2>3. \A n \in Nat, k \in 1 .. N : OfKind(n + 1 .. k, "session_config") \subseteq 1 .. N
    BY DEF OfKind
  <2>4. Merged'
    <3> SUFFICES ASSUME NEW n \in OfKind(DOMAIN log, "session_config"),
                        NEW k \in OfKind(DOMAIN log, "session_config"), n <= k
                 PROVE  \/ log[n].data \subseteq log[k].data
                        \/ \E i \in OfKind(n + 1 .. k, "session_config") : at'[log[i].by] < n
      BY <2>1 DEF Merged, OfKind
    <3>1. n \in Nat /\ k \in 1 .. N
      BY <1>0 DEF OfKind
    <3> QED BY <2>2, <2>3, <3>1 DEF Merged
  <2>5. TitleAfterName'
    BY <1>0, <2>1, <2>2 DEF TitleAfterName, OfKind
  <2> QED BY <2>4, <2>5
<1>3. CASE Rests(o)
  <2>1. UNCHANGED <<log, at>>
    BY <1>3 DEF Rests
  <2>2. Merged'
    BY <2>1 DEF Merged, OfKind
  <2>3. TitleAfterName'
    <3> SUFFICES ASSUME NEW k \in 1 .. N, log[k].kind = "session_info", log[k].by \in Turns,
                        NEW n \in removed' + 1 .. k - 1, log[n].kind = "session_info"
                 PROVE  n > at[log[k].by]
      BY <1>0, <2>1 DEF TitleAfterName, OfKind
    <3>1. n \in removed + 1 .. k - 1
      BY <1>0, <1>r
    <3> QED BY <1>0, <3>1 DEF TitleAfterName, OfKind
  <2> QED BY <2>2, <2>3
<1>4. ASSUME NEW e \in Entries, Adds(o, e) PROVE Merged' /\ TitleAfterName'
  <2>1. /\ DOMAIN log' = 1 .. N + 1 /\ log'[N + 1] = e /\ \A n \in 1 .. N : log'[n] = log[n]
    BY <1>0, <1>4, LogGrows
  <2>2. at' = at /\ removed' = removed /\ e.by = o /\ known[o] = (1 .. at[o]) \cup Own(o)
    BY <1>4 DEF Adds, Fits, SessionsKnow
  <2>3. TitleAfterName'
    <3> SUFFICES ASSUME NEW k \in 1 .. N + 1, log'[k].kind = "session_info", log'[k].by \in Turns,
                        NEW n \in removed + 1 .. k - 1, log[n].kind = "session_info"
                 PROVE  n > at[log'[k].by]
      BY <1>0, <2>1, <2>2 DEF TitleAfterName, OfKind
    <3>1. CASE k = N + 1
      <4>1. Named(known[o]) = {}
        BY <1>4, <2>1, <2>2, <3>1 DEF Adds, Fits
      <4>2. n \notin known[o]
        <5>1. CASE OfKind(known[o], "session_info") = {}
          BY <5>1 DEF OfKind
        <5>2. CASE OfKind(known[o], "session_info") # {}
          BY <4>1, <5>2 DEF Named
        <5> QED BY <5>1, <5>2
      <4> QED BY <1>0, <2>1, <2>2, <3>1, <4>2
    <3>2. CASE k # N + 1
      <4>1. /\ k \in OfKind(DOMAIN log, "session_info") /\ log'[k] = log[k]
            /\ n \in OfKind(removed + 1 .. k - 1, "session_info")
        BY <1>0, <2>1, <3>2 DEF OfKind
      <4> QED BY <4>1 DEF TitleAfterName
    <3> QED BY <3>1, <3>2
  <2>4. ASSUME NEW n \in 1 .. N, log[n].kind = "session_config", NEW k \in 1 .. N,
               log[k].kind = "session_config", n <= k
        PROVE  \/ log[n].data \subseteq log[k].data
               \/ \E i \in n + 1 .. k : log[i].kind = "session_config" /\ at[log[i].by] < n
    BY <1>0, <2>4 DEF Merged, OfKind
  <2>5. Merged'
    <3> SUFFICES ASSUME NEW n \in 1 .. N + 1, log'[n].kind = "session_config", NEW k \in 1 .. N + 1,
                        log'[k].kind = "session_config", n <= k
                 PROVE  \/ log'[n].data \subseteq log'[k].data
                        \/ \E i \in n + 1 .. k : log'[i].kind = "session_config" /\ at[log'[i].by] < n
      BY <2>1, <2>2 DEF Merged, OfKind
    <3>1. CASE k # N + 1
      <4>1. n \in 1 .. N /\ k \in 1 .. N /\ \A i \in n + 1 .. k : log'[i] = log[i]
        BY <2>1, <3>1
      <4> QED BY <2>1, <2>4, <4>1
    <3>2. CASE n = N + 1
      BY <3>2
    <3>3. CASE k = N + 1 /\ n # N + 1 /\ at[o] < n
      <4>1. k \in n + 1 .. k
        BY <3>3
      <4> QED BY <2>1, <2>2, <3>3, <4>1
    <3>4. CASE k = N + 1 /\ n # N + 1 /\ ~(at[o] < n)
      <4>1. n \in OfKind(known[o], "session_config")
        BY <1>0, <2>1, <2>2, <3>4 DEF OfKind
      <4>2. o \in Configures /\ pc[o] = "checked" /\ e.data = Overrides(known[o]) \cup {N + 1}
        BY <1>0, <1>4, <2>1, <3>4 DEF Adds, Fits
      <4>3. known[o] \in SUBSET (1 .. Len(log)) /\ known[o] = 1 .. at[o]
        BY <1>0, <2>2, <4>2 DEF AuthorsKnown
      <4>4. PICK m \in OfKind(known[o], "session_config") :
               /\ Overrides(known[o]) = log[m].data
               /\ \A i \in OfKind(known[o], "session_config") : i <= m
        BY <4>1, <4>3, OverridesAre
      <4>5. m \in 1 .. N /\ log[m].kind = "session_config" /\ n <= m /\ n \in 1 .. N /\ log[n].kind = "session_config"
        BY <1>0, <2>1, <4>1, <4>3, <4>4, <3>4 DEF OfKind
      <4>6. CASE log[n].data \subseteq log[m].data
        BY <2>1, <3>4, <4>2, <4>4, <4>5, <4>6
      <4>7. CASE \E i \in n + 1 .. m : log[i].kind = "session_config" /\ at[log[i].by] < n
        <5>1. \A i \in n + 1 .. m : i \in n + 1 .. k /\ log'[i] = log[i]
          BY <2>1, <4>5, <3>4
        <5> QED BY <4>7, <5>1
      <4> QED BY <2>4, <4>5, <4>6, <4>7
    <3> QED BY <3>1, <3>2, <3>3, <3>4
  <2> QED BY <2>3, <2>5
<1> QED BY <1>1, <1>2, <1>3, <1>4

\* The newest configuration of the file has the keys of the others.
LEMMA MergedIsKept == Typed /\ Merged => ConfigurationKept
<1> SUFFICES ASSUME Typed, Merged, NEW n \in OfKind(removed + 1 .. Len(log), "session_config")
             PROVE  \/ log[n].data \subseteq Overrides(removed + 1 .. Len(log))
                    \/ \E k \in OfKind(n + 1 .. Len(log), "session_config") : at[log[k].by] < n
  BY DEF ConfigurationKept
<1>0. /\ Len(log) \in Nat /\ DOMAIN log = 1 .. Len(log) /\ removed \in 0 .. Len(log)
      /\ removed + 1 .. Len(log) \in SUBSET (1 .. Len(log))
  BY DEF Typed, TypeOK
<1>1. PICK m \in OfKind(removed + 1 .. Len(log), "session_config") :
         /\ Overrides(removed + 1 .. Len(log)) = log[m].data
         /\ \A k \in OfKind(removed + 1 .. Len(log), "session_config") : k <= m
  BY <1>0, OverridesAre
<1>2. n \in OfKind(DOMAIN log, "session_config") /\ m \in OfKind(DOMAIN log, "session_config") /\ n <= m
  BY <1>0, <1>1 DEF OfKind
<1>3. OfKind(n + 1 .. m, "session_config") \subseteq OfKind(n + 1 .. Len(log), "session_config")
  BY <1>0, <1>2 DEF OfKind
<1> QED BY <1>1, <1>2, <1>3 DEF Merged

LEMMA SparedStep ==
    ASSUME Typed, StagesKnown, OneLife, SessionsKnow, AuthorsKnown, Consumptions, TurnsSpared,
           NEW o \in Ops, Step(o)
    PROVE  TurnsSpared'
<1>1. Others(o) /\ (Reads(o) \/ Rests(o) \/ \E e \in Entries : Adds(o, e))
  BY StepForms
<1> PICK N \in Nat : N = Len(log)
  BY DEF Typed
<1>0. /\ Len(log) = N /\ DOMAIN log = 1 .. N /\ at \in [Ops -> Nat] /\ \A p \in Ops : at[p] \in 0 .. N
      /\ Turns \subseteq Ops /\ Deletes \subseteq Ops /\ Turns \cap Deletes = {}
      /\ DOMAIN pc = Ops /\ pc = [p \in Ops |-> pc[p]]
  <2>1. Len(log) = N /\ DOMAIN log = 1 .. N
    BY DEF Typed
  <2> QED BY <2>1, OpsAssumption DEF Typed, TypeOK, Ops
<1> SUFFICES ASSUME NEW t \in Turns, NEW d \in Deletes, pc'[d] \in {"checked", "unlinked"}, InFlight(t)'
             PROVE  Before(d, t, "run_start")'
  BY DEF TurnsSpared
<1>2. CASE o = d
  <2>1. pc'[t] = pc[t] /\ InFlight(t)
    BY <1>0, <1>1, <1>2 DEF Others, InFlight
  <2>2. (DeleteCheck(d) \/ DeleteUnlink(d)) /\ log' = log
    BY <1>0, <1>2, OpsAssumption DEF Step, OpenToWrite, Rename, NextTurn, CommandOpen, CommandBegin,
       NavigateLeaf, NavigateSummary, NavigateLabel, Compact, CommandClose, DeleteCheck, DeleteUnlink,
       DeleteForget, Refused, Goes, Ops
  <2>3. CASE DeleteCheck(d)
    <3>1. life = 1 /\ got[t] = 1 /\ t \in Ops \ Deletes
      BY <1>0, <2>3 DEF DeleteCheck, Opens, OneLife
    <3>2. ~(InFlight(t) /\ got[t] = life)
      BY <1>0, <2>3, <3>1 DEF DeleteCheck, Goes
    <3> QED BY <2>1, <3>1, <3>2
  <2>4. CASE DeleteUnlink(d)
    BY <2>1, <2>2, <2>4 DEF DeleteUnlink, mine, TurnsSpared, Before, OfKind
  <2> QED BY <2>2, <2>3, <2>4
<1>3. CASE o # d
  <2>1. pc[d] \in {"checked", "unlinked"} /\ at'[d] = at[d]
    BY <1>0, <1>1, <1>3 DEF Others, Reads, Rests, Adds
  <2>2. InFlight(t) \/ pc[t] = "opened"
    BY <1>0, <1>1, StagesStep DEF Others, InFlight
  <2>3. \A n \in OfKind(DOMAIN log, "run_start") : log[n].by = t => at[d] < n
    BY <1>0, <2>1, <2>2 DEF TurnsSpared, Before, AuthorsKnown, Own, OfKind
  <2>4. CASE log' = log
    BY <2>1, <2>3, <2>4 DEF Before, OfKind
  <2>5. ASSUME NEW e \in Entries, Adds(o, e) PROVE Before(d, t, "run_start")'
    <3>1. /\ DOMAIN log' = 1 .. N + 1 /\ \A n \in 1 .. N : log'[n] = log[n]
      BY <1>0, <2>5, LogGrows
    <3>2. at[d] < N + 1
      BY <1>0
    <3> QED BY <1>0, <2>1, <2>3, <3>1, <3>2 DEF Before, OfKind
  <2> QED BY <1>1, <2>4, <2>5 DEF Reads, Rests
<1> QED BY <1>2, <1>3

-----------------------------------------------------------------------------
(* What turns are shown.                                                   *)

\* What t goes through from entry n on: what was there when it opened, and
\* what it wrote itself.
Since(n, t) == {k \in n .. Len(log) : k <= at[t] \/ log[k].by = t}

\* Nobody overlapped and nobody moved the leaf.
Straight(n, t) ==
    /\ n \in 1 .. at[t] /\ ~Overlapped(n, t)
    /\ \A k \in n + 1 .. at[t] : log[k].kind # "leaf"

LEMMA ParentsSince ==
    ASSUME Typed, SessionsKnow, AuthorsKnown, Lineage, NEW t \in Turns, NEW n, Straight(n, t)
    PROVE  /\ n \in Since(n, t) /\ Since(n, t) \subseteq 1 .. Len(log)
           /\ \A k \in Since(n, t) : k # n =>
                 log[k].kind # "leaf" /\ \E j \in Since(n, t) : j < k /\ log[k].parent = Tip(j)
           /\ \E j \in Since(n, t) : leaf[t] = Tip(j)
<1> PICK N \in Nat : N = Len(log)
  BY DEF Typed
<1>0. /\ Len(log) = N /\ DOMAIN log = 1 .. N /\ at \in [Ops -> Nat] /\ \A p \in Ops : at[p] \in 0 .. N
      /\ Turns \subseteq Ops /\ Turns \cap Navigates = {} /\ \A k \in 1 .. N : log[k].by \in Ops
  <2>1. Len(log) = N /\ DOMAIN log = 1 .. N
    BY DEF Typed
  <2> QED BY <2>1, OpsAssumption DEF Typed, TypeOK, Ops
<1>1. n \in 1 .. N /\ n \in Since(n, t) /\ Since(n, t) \subseteq n .. N
  BY <1>0 DEF Straight, Since
<1>2. ASSUME NEW k \in Since(n, t), k # n
      PROVE  log[k].kind # "leaf" /\ \E j \in Since(n, t) : j < k /\ log[k].parent = Tip(j)
  <2>1. k \in n + 1 .. N /\ k \in DOMAIN log
    BY <1>0, <1>1, <1>2
  <2>2. log[k].kind # "leaf"
    BY <1>0, <1>2, <2>1 DEF Straight, Since, AuthorsKnown
  <2>3. PICK a \in Ops : a = log[k].by
    BY <1>0, <2>1
  <2>4. PICK j \in 0 .. k - 1 : LastOf(a, j, k) /\ log[k].parent = Tip(j)
    BY <2>1, <2>3 DEF Lineage
  <2>5. j >= n
    <3>1. CASE k <= at[t] /\ a = log[n].by
      BY <1>0, <1>1, <2>1, <2>4, <3>1 DEF LastOf, Own
    <3>2. CASE k <= at[t] /\ a # log[n].by
      <4>1. ~(at[a] < n)
        BY <1>0, <2>1, <2>3, <3>2 DEF Straight, Overlapped
      <4> QED BY <1>0, <1>1, <2>4, <4>1 DEF LastOf
    <3>3. CASE a = t
      BY <1>0, <1>1, <2>4, <3>3 DEF LastOf, Straight
    <3> QED BY <1>2, <2>3, <3>1, <3>2, <3>3 DEF Since
  <2>6. j <= at[t] \/ log[j].by = t
    <3>1. CASE k <= at[t]
      BY <1>0, <2>1, <2>4, <3>1
    <3>2. CASE a = t
      BY <1>0, <2>4, <3>2 DEF LastOf, Own
    <3> QED BY <1>2, <2>3, <3>1, <3>2 DEF Since
  <2>7. j \in Since(n, t) /\ j < k
    BY <1>0, <1>1, <2>1, <2>4, <2>5, <2>6 DEF Since
  <2> QED BY <2>2, <2>4, <2>7
<1>3. \E j \in Since(n, t) : leaf[t] = Tip(j)
  <2>1. PICK j \in 0 .. N : LastOf(t, j, N + 1) /\ leaf[t] = Tip(j)
    BY <1>0 DEF Lineage
  <2>2. j \in Since(n, t)
    BY <1>0, <1>1, <2>1 DEF Since, LastOf, Own, Straight
  <2> QED BY <2>1, <2>2
<1> QED BY <1>0, <1>1, <1>2, <1>3

LEMMA LogBranches ==
    ASSUME Typed
    PROVE  /\ ParentsBefore(log) /\ Branch(0) = {}
           /\ \A n \in 1 .. Len(log) : Branch(n) = {n} \cup Branch(log[n].parent)
<1>1. ParentsBefore(log)
  BY DEF Typed, TypeOK, ParentsBefore
<1>2. \A n : Branch(n) = BranchIn(log, n)
  BY DEF Branch, BranchIn
<1> QED BY <1>1, <1>2, BranchIs

\* From a message on the branch goes through it.
LEMMA MessageSeen ==
    ASSUME Typed, SessionsKnow, AuthorsKnown, Lineage, NEW t \in Turns, NEW n, Straight(n, t),
           log[n].kind = "message"
    PROVE  n \in Branch(leaf[t])
<1> DEFINE Without == {k \in Since(n, t) : n \notin Branch(k)}
<1>0. /\ n \in Since(n, t) /\ Since(n, t) \subseteq 1 .. Len(log) /\ Len(log) \in Nat
      /\ \A k \in Since(n, t) : k # n =>
            log[k].kind # "leaf" /\ \E j \in Since(n, t) : j < k /\ log[k].parent = Tip(j)
      /\ \E j \in Since(n, t) : leaf[t] = Tip(j)
  BY ParentsSince DEF Typed
<1>1. \A j \in Since(n, t) : Tip(j) = j
  BY <1>0 DEF Tip
<1>2. Without = {}
  <2> SUFFICES ASSUME Without # {} PROVE FALSE
    OBVIOUS
  <2>1. PICK k \in Without : \A i \in Without : k <= i
    <3>1. Without \subseteq Nat
      BY <1>0
    <3> HIDE DEF Without
    <3> QED BY <3>1, Least
  <2>2. Branch(k) = {k} \cup Branch(log[k].parent) /\ k \in Nat
    BY <1>0, LogBranches
  <2>3. k # n
    BY <2>2
  <2>4. PICK j \in Since(n, t) : j < k /\ log[k].parent = Tip(j)
    BY <1>0, <2>3
  <2>5. j \notin Without
    <3>1. ~(k <= j)
      BY <1>0, <2>2, <2>4
    <3> HIDE DEF Without
    <3> QED BY <2>1, <3>1
  <2> QED BY <1>1, <2>2, <2>4, <2>5
<1> QED BY <1>0, <1>1, <1>2

\* From a navigation on the branch has only what its target had.
LEMMA NavigationSeen ==
    ASSUME Typed, SessionsKnow, AuthorsKnown, Lineage, NEW t \in Turns, NEW n, Straight(n, t),
           log[n].kind = "leaf"
    PROVE  Branch(leaf[t]) \cap 1 .. n \subseteq Branch(log[n].target)
<1> DEFINE Beside == {k \in Since(n, t) : k # n /\ ~(Branch(k) \cap 1 .. n \subseteq Branch(log[n].target))}
<1>0. /\ n \in Since(n, t) /\ Since(n, t) \subseteq n .. Len(log) /\ Len(log) \in Nat /\ n \in 1 .. Len(log)
      /\ \A k \in Since(n, t) : k # n =>
            log[k].kind # "leaf" /\ \E j \in Since(n, t) : j < k /\ log[k].parent = Tip(j)
      /\ \E j \in Since(n, t) : leaf[t] = Tip(j)
  BY ParentsSince DEF Typed, Since
<1>1. Tip(n) = log[n].target /\ \A j \in Since(n, t) : j # n => Tip(j) = j
  BY <1>0 DEF Tip
<1>2. Beside = {}
  <2> SUFFICES ASSUME Beside # {} PROVE FALSE
    OBVIOUS
  <2>1. PICK k \in Beside : \A i \in Beside : k <= i
    <3>1. Beside \subseteq Nat
      BY <1>0
    <3> HIDE DEF Beside
    <3> QED BY <3>1, Least
  <2>2. Branch(k) = {k} \cup Branch(log[k].parent) /\ k \in Nat /\ k > n
    BY <1>0, LogBranches
  <2>3. PICK j \in Since(n, t) : j < k /\ log[k].parent = Tip(j)
    BY <1>0
  <2>4. j \notin Beside
    <3>1. ~(k <= j)
      BY <1>0, <2>2, <2>3
    <3> HIDE DEF Beside
    <3> QED BY <2>1, <3>1
  <2>5. Branch(log[k].parent) \cap 1 .. n \subseteq Branch(log[n].target)
    BY <1>1, <2>3, <2>4
  <2>6. k \notin 1 .. n
    BY <1>0, <2>2
  <2> QED BY <2>2, <2>5, <2>6
<1> QED BY <1>0, <1>1, <1>2

\* What was written, and what its author had read, stays as it was.
LEMMA PastStays ==
    ASSUME Typed, StagesKnown, OneLife, SessionsKnow, AuthorsKnown, Consumptions,
           NEW o \in Ops, Step(o), NEW N \in Nat, N = Len(log)
    PROVE  /\ \A k \in 1 .. N : log'[k] = log[k] /\ at'[log[k].by] = at[log[k].by]
           /\ DOMAIN log' = 1 .. N \/ DOMAIN log' = 1 .. N + 1
           /\ removed' \in Nat /\ removed <= removed'
           /\ \A n \in 0 .. N : Branch(n)' = Branch(n)
<1>0. /\ Len(log) = N /\ DOMAIN log = 1 .. N /\ at \in [Ops -> Nat] /\ ParentsBefore(log)
      /\ \A k \in 1 .. N : log[k].by \in Ops
  <2>1. Len(log) = N /\ DOMAIN log = 1 .. N
    BY DEF Typed
  <2> QED BY <2>1, LogBranches DEF Typed, TypeOK
<1>1. Others(o) /\ (Reads(o) \/ Rests(o) \/ \E e \in Entries : Adds(o, e))
  BY StepForms
<1>2. /\ \A k \in 1 .. N : log'[k] = log[k] /\ at'[log[k].by] = at[log[k].by]
      /\ \/ DOMAIN log' = 1 .. N /\ Len(log') = N
         \/ DOMAIN log' = 1 .. N + 1 /\ Len(log') = N + 1
  <2>1. CASE Reads(o)
    BY <1>0, <2>1 DEF Reads, AuthorsKnown, Own
  <2>2. CASE Rests(o)
    BY <1>0, <2>2 DEF Rests
  <2>3. ASSUME NEW e \in Entries, Adds(o, e)
        PROVE  /\ \A k \in 1 .. N : log'[k] = log[k] /\ at' = at
               /\ DOMAIN log' = 1 .. N + 1 /\ Len(log') = N + 1
    BY <1>0, <2>3, LogGrows DEF Adds
  <2> QED BY <1>1, <2>1, <2>2, <2>3
<1>3. removed' \in Nat /\ removed <= removed'
  BY <1>2, LifeStep
<1>4. ASSUME NEW n \in 0 .. N PROVE Branch(n)' = Branch(n)
  <2>1. ParentsBefore(log')
    <3>1. TypeOK'
      BY TypedStep DEF Typed
    <3>2. \A i \in DOMAIN log' : log'[i].parent \in 0 .. i - 1
      BY <3>1 DEF TypeOK
    <3>3. DOMAIN log' = 1 .. Len(log') /\ Len(log') \in Nat
      BY <1>0, <1>2
    <3> QED BY <3>2, <3>3 DEF ParentsBefore
  <2>2. BranchIn(log', n) = BranchIn(log, n)
    <3>1. Len(log) <= Len(log') /\ \A i \in 1 .. Len(log) : log'[i] = log[i]
      BY <1>0, <1>2
    <3>2. n \in 0 .. Len(log) /\ ParentsBefore(log)
      BY <1>0
    <3> QED BY <2>1, <3>1, <3>2, BranchStays
  <2>3. Branch(n) = BranchIn(log, n) /\ Branch(n)' = BranchIn(log', n)
    BY DEF Branch, BranchIn
  <2> QED BY <2>2, <2>3
<1> QED BY <1>2, <1>3, <1>4

\* A turn whose model is at work was shown its branch, now or before.
LEMMA ShownStep ==
    ASSUME Typed, StagesKnown, SessionsKnow, Consumptions, NEW o \in Ops, Step(o), NEW t \in Turns,
           pc'[t] \in {"running", "answered"}
    PROVE  \/ pc[t] \in {"running", "answered"} /\ shown'[t] = shown[t] /\ at'[t] = at[t]
           \/ UNCHANGED <<log, at>> /\ shown'[t] = Messages(leaf[t])
<1> USE OpsAssumption DEF Goes, Ops
<1>0. /\ pc \in [Ops -> TurnStages \cup {"checked", "left", "unlinked"}]
      /\ shown \in [Turns -> SUBSET Nat] /\ t \in Ops /\ at \in [Ops -> Nat]
  BY DEF Typed
<1>1. Others(o) /\ (Reads(o) \/ Rests(o) \/ \E e \in Entries : Adds(o, e))
  BY StepForms
<1>2. CASE o # t
  BY <1>0, <1>1, <1>2, ShownAt DEF Others, Reads, Rests, Adds
<1>3. CASE o = t
  <2>1. TurnOpen(o) \/ TurnTask(o) \/ TurnBreaks(o) \/ TurnCancelled(o) \/ Refused(o)
    BY <1>3 DEF Step, OpenToWrite, Rename, NextTurn, CommandOpen, CommandBegin, NavigateLeaf,
       NavigateSummary, NavigateLabel, Compact, CommandClose
  <2>2. TurnInvoke(o) \/ TurnMessages(o)
    BY <1>0, <1>3, <2>1 DEF TurnTask, TurnOpen, TurnStart, TurnBegin, TurnConsume, TurnSettle,
       TurnEnd, TurnTitle, TurnClose, TurnBreaks, TurnCancelled, Refused, Opens
  <2> QED BY <1>0, <1>3, <2>2 DEF TurnInvoke, TurnMessages, Silent, mine, Writes
<1> QED BY <1>2, <1>3

LEMMA SeenStep ==
    ASSUME Typed, StagesKnown, OneLife, SessionsKnow, AuthorsKnown, Lineage, Consumptions,
           FinishedTurnsSeen, NavigationHolds, NEW o \in Ops, Step(o)
    PROVE  FinishedTurnsSeen' /\ NavigationHolds'
<1> PICK N \in Nat : N = Len(log)
  BY DEF Typed
<1>0. /\ \A k \in 1 .. N : log'[k] = log[k] /\ at'[log[k].by] = at[log[k].by]
      /\ DOMAIN log' = 1 .. N \/ DOMAIN log' = 1 .. N + 1
      /\ removed' \in Nat /\ removed <= removed'
      /\ \A n \in 0 .. N : Branch(n)' = Branch(n)
  BY PastStays
<1>1. /\ DOMAIN log = 1 .. N /\ at \in [Ops -> Nat] /\ Turns \subseteq Ops /\ removed \in Nat
      /\ \A p \in Ops : at[p] \in 0 .. N
      /\ \A k \in 1 .. N : log[k].target \in 0 .. k - 1
  <2>1. Len(log) = N /\ DOMAIN log = 1 .. N
    BY DEF Typed
  <2> QED BY <2>1 DEF Typed, TypeOK, Ops
<1>2. ASSUME NEW t \in Turns, pc'[t] \in {"running", "answered"}, at'[t] = at[t]
      PROVE  /\ \A n \in 1 .. at[t] : n \in 1 .. N /\ log'[n] = log[n] /\ (Overlapped(n, t) => Overlapped(n, t)')
             /\ \A n \in 1 .. at[t] : \A k \in n + 1 .. at[t] : log'[k] = log[k]
             /\ \A p : Before(t, p, "run_end") => Before(t, p, "run_end")'
  <2>1. \A k \in 1 .. at[t] : k \in 1 .. N /\ log'[k] = log[k] /\ at'[log[k].by] = at[log[k].by]
    BY <1>0, <1>1
  <2>2. \A n \in 1 .. at[t] : \A k \in n + 1 .. at[t] : k \in 1 .. at[t]
    BY <1>1
  <2>3. \A n \in 1 .. at[t] : Overlapped(n, t) => Overlapped(n, t)'
    <3> SUFFICES ASSUME NEW n \in 1 .. at[t], Overlapped(n, t) PROVE Overlapped(n, t)'
      OBVIOUS
    <3>1. PICK k \in n + 1 .. at[t] : log[k].by # log[n].by /\ at[log[k].by] < n
      BY DEF Overlapped
    <3> QED BY <1>2, <2>1, <2>2, <3>1 DEF Overlapped
  <2>4. \A p : Before(t, p, "run_end") => Before(t, p, "run_end")'
    <3> SUFFICES ASSUME NEW p, Before(t, p, "run_end"), NEW k \in DOMAIN log',
                        log'[k].kind = "run_end", log'[k].by = p
                 PROVE  at[t] < k
      BY <1>2 DEF Before, OfKind
    <3>1. at[t] \in 0 .. N
      BY <1>1
    <3>2. CASE k \in 1 .. N
      BY <1>0, <1>1, <3>2 DEF Before, OfKind
    <3>3. CASE k = N + 1
      BY <3>1, <3>3
    <3> QED BY <1>0, <3>2, <3>3
  <2> QED BY <2>1, <2>2, <2>3, <2>4
<1>3. ASSUME NEW t \in Turns, pc'[t] \in {"running", "answered"}, UNCHANGED <<log, at>>,
             shown'[t] = Messages(leaf[t]), NEW n \in 1 .. at[t], ~Overlapped(n, t),
             ~\E k \in n + 1 .. at[t] : log[k].kind = "leaf"
      PROVE  /\ log[n].kind = "message" => n \in shown'[t]
             /\ log[n].kind = "leaf" => shown'[t] \cap 1 .. n \subseteq Branch(log[n].target)
  <2>1. Straight(n, t)
    BY <1>3 DEF Straight
  <2> QED BY <1>3, <2>1, MessageSeen, NavigationSeen DEF Messages, OfKind
<1>4. FinishedTurnsSeen'
  <2> SUFFICES ASSUME NEW t \in Turns, NEW m \in 1 .. at'[t], log'[m].kind = "message",
                      pc'[t] \in {"running", "answered"}
               PROVE  \/ Before(t, log[m].by, "run_end")' \/ m \in shown'[t] \/ m <= removed'
                      \/ Overlapped(m, t)' \/ \E k \in m + 1 .. at'[t] : log'[k].kind = "leaf"
    BY DEF FinishedTurnsSeen, OfKind
  <2>1. CASE pc[t] \in {"running", "answered"} /\ shown'[t] = shown[t] /\ at'[t] = at[t]
    <3>1. log'[m] = log[m] /\ m \in OfKind(1 .. at[t], "message") /\ m \in Nat
      BY <1>2, <2>1 DEF OfKind
    <3>2. \/ Before(t, log[m].by, "run_end") \/ m \in shown[t] \/ m <= removed
          \/ Overlapped(m, t) \/ \E k \in m + 1 .. at[t] : log[k].kind = "leaf"
      BY <2>1, <3>1 DEF FinishedTurnsSeen
    <3>3. m <= removed => m <= removed'
      BY <1>0, <1>1, <3>1
    <3> QED BY <1>2, <2>1, <3>1, <3>2, <3>3
  <2>2. CASE UNCHANGED <<log, at>> /\ shown'[t] = Messages(leaf[t])
    <3>1. Overlapped(m, t)' = Overlapped(m, t)
      BY <2>2 DEF Overlapped
    <3> QED BY <1>3, <2>2, <3>1
  <2> QED BY <2>1, <2>2, ShownStep
<1>5. NavigationHolds'
  <2> SUFFICES ASSUME NEW t \in Turns, NEW n \in 1 .. at'[t], log'[n].kind = "leaf",
                      pc'[t] \in {"running", "answered"}
               PROVE  \/ shown'[t] \cap 1 .. n \subseteq Branch(log[n].target)' \/ Overlapped(n, t)'
                      \/ \E k \in n + 1 .. at'[t] : log'[k].kind = "leaf"
    BY DEF NavigationHolds, OfKind
  <2>1. at'[t] = at[t]
    BY ShownStep
  <2>2. log'[n] = log[n] /\ Branch(log[n].target)' = Branch(log[n].target)
    <3>1. n \in 1 .. N /\ log'[n] = log[n] /\ log[n].target \in 0 .. N
      BY <1>1, <1>2, <2>1
    <3>2. PICK target \in 0 .. N : target = log[n].target
      BY <3>1
    <3>3. Branch(target)' = Branch(target) /\ log'[n].target = target
      BY <1>0, <3>1, <3>2
    <3>4. Branch(log[n].target)' = Branch(target)'
      BY <3>3
    <3> QED BY <3>1, <3>2, <3>3, <3>4
  <2>3. CASE pc[t] \in {"running", "answered"} /\ shown'[t] = shown[t]
    <3>1. \/ shown[t] \cap 1 .. n \subseteq Branch(log[n].target) \/ Overlapped(n, t)
          \/ \E k \in n + 1 .. at[t] : log[k].kind = "leaf"
      BY <2>1, <2>2, <2>3 DEF NavigationHolds, OfKind
    <3> QED BY <1>2, <2>1, <2>2, <2>3, <3>1
  <2>4. CASE UNCHANGED <<log, at>> /\ shown'[t] = Messages(leaf[t])
    <3>1. Overlapped(n, t)' = Overlapped(n, t)
      BY <2>4 DEF Overlapped
    <3> QED BY <1>3, <2>2, <2>4, <3>1
  <2> QED BY <2>3, <2>4, ShownStep
<1> QED BY <1>4, <1>5

-----------------------------------------------------------------------------
LEMMA NextIInv == IInv /\ [Next]_vars => IInv'
<1> SUFFICES ASSUME IInv, [Next]_vars PROVE IInv'
  OBVIOUS
<1>1. ASSUME NEW o \in Ops, Step(o) PROVE IInv'
  <2>1. Typed' /\ StagesKnown' /\ OneLife'
    BY <1>1, TypedStep, StagesStep, LifeStep DEF IInv
  <2>2. SessionsKnow' /\ AuthorsKnown' /\ Lineage'
    BY <1>1, KnowStep, LineageStep DEF IInv
  <2>3. Consumptions' /\ InputsGivenOnce' /\ Merged' /\ TitleAfterName' /\ TurnsSpared'
    BY <1>1, ConsumptionsStep, MergedStep, SparedStep DEF IInv
  <2>4. FinishedTurnsSeen' /\ NavigationHolds'
    BY <1>1, SeenStep DEF IInv
  <2> QED BY <2>1, <2>2, <2>3, <2>4 DEF IInv
<1>2. CASE UNCHANGED vars
  <2> USE <1>2 DEF vars, mine
  <2>1. Typed' /\ StagesKnown' /\ OneLife'
    BY DEF IInv, Typed, TypeOK, StagesKnown, OneLife
  <2>2. SessionsKnow' /\ AuthorsKnown' /\ Lineage'
    BY DEF IInv, SessionsKnow, AuthorsKnown, Lineage, Own, Tip, LastOf
  <2>3. Consumptions' /\ InputsGivenOnce' /\ Merged' /\ TitleAfterName' /\ TurnsSpared'
    BY DEF IInv, Consumptions, InputsGivenOnce, Merged, TitleAfterName, TurnsSpared, Own, OfKind,
       Before, InFlight
  <2>4. FinishedTurnsSeen' /\ NavigationHolds'
    <3>1. \A n : Branch(n)' = Branch(n)
      BY DEF Branch
    <3> QED BY <3>1 DEF IInv, FinishedTurnsSeen, NavigationHolds, OfKind, Before, Overlapped
  <2> QED BY <2>1, <2>2, <2>3, <2>4 DEF IInv
<1> QED BY <1>1, <1>2 DEF Next

LEMMA IInvIsSafe == IInv => SessionsSafe
<1> SUFFICES ASSUME IInv PROVE SessionsSafe
  OBVIOUS
<1>1. ConfigurationKept
  BY MergedIsKept DEF IInv
<1>2. DeletionSparesTurns
  BY DEF IInv, TurnsSpared, DeletionSparesTurns
<1> QED BY <1>1, <1>2 DEF IInv, Typed, SessionsSafe

\* Whatever requests come, and whoever writes in between: a turn sees what was
\* over when it opened the session, unless someone with an older Session wrote
\* in between; a navigation holds; an input goes to one turn, or to two that
\* had both opened before; a configuration keeps the keys it has read; a title
\* replaces no name its turn had read; and a deletion waits for the turns it met.
THEOREM SessionsAreSound == Spec => []SessionsSafe
<1>1. Init => IInv
  BY InitIInv
<1>2. IInv /\ [Next]_vars => IInv'
  BY NextIInv
<1>3. IInv => SessionsSafe
  BY IInvIsSafe
<1> QED BY <1>1, <1>2, <1>3, PTL DEF Spec

=============================================================================
