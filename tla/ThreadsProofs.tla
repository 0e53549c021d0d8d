----------------------------- MODULE ThreadsProofs -----------------------------
(***************************************************************************)
(* That the requests about threads leave nothing half-made, for any        *)
(* requests, cut off and interleaved in any order.                         *)
(***************************************************************************)
EXTENDS Threads, TLAPS

Typed ==
    /\ TypeOK /\ todo \in [Requests -> SUBSET Creates]
    /\ \A r \in Requests : pc[r] \in {"unlink", "forget"} => todo[r] # {}

Removed(p) == \E r \in Removes : pc[r] = "ok" /\ saw[r] = p

\* The stores' references: a row belongs to the project there is, which is the
\* one its creation saw; once gone, a project was removed and never comes back.
RowsRefer ==
    \A t \in Creates :
        /\ row[t] # None => pc[t] = "ok" /\ row[t] = saw[t] /\ project = row[t]
        /\ pc[t] # "idle" => saw[t] # None
        /\ pc[t] = "ok" => project = saw[t] \/ Removed(saw[t])

\* A thread being created has what its next step needs, and files are of
\* threads that are being created, were created, were cut off or not cleaned up.
CreationGoesOn(t) ==
    /\ pc[t] = "worktree" => t \in Worktrees
    /\ pc[t] \in {"session", "row"} => Workspace(t)
    /\ pc[t] = "row" => t \in session
    /\ t \in session => pc[t] \in {"row", "clean", "ok", "cut"} \/ t \in uncleaned
    /\ t \in worktree =>
          pc[t] \in {"session", "row", "clean", "cleanWorktree", "ok", "cut"} \/ t \in uncleaned
CreationsGoOn == \A t \in Creates : CreationGoesOn(t)

\* Requests are about threads that have been created, and of the project they
\* looked up; all but a removal and an uninstallation are about one.
About(r) ==
    /\ pc[r] = "idle" => on[r] = {}
    /\ \A t \in on[r] :
          /\ pc[t] = "ok"
          /\ r \in Deletes \cup Removes \cup Uninstalls => saw[r] = saw[t]
          /\ r \in Deletes \cup Starts \cup Opens => on[r] = {t}
RequestsAreAbout == \A r \in Requests : About(r)

\* What is left of a session that a loop has come to.
SessionTaken(r, t) ==
    /\ pc[r] \in {"sessions", "unlink", "forget"} => t \in todo[r] \/ (t \notin session /\ t \in looked)
    /\ pc[r] \in {"unlink", "forget"} => Current(r) \in todo[r] /\ Current(r) \in looked
    /\ pc[r] = "forget" => Current(r) \notin session
    /\ pc[r] = "ok" => t \notin session /\ t \in looked

\* How far a deletion has come.
DeletionGoesOn(d, t) ==
    /\ pc[d] \in {"check", "project", "inspect", "removeWorktree", "shell"} => t \in todo[d]
    /\ pc[d] \in {"shell", "sessions", "unlink", "forget", "ok"} /\ t \in worktree => Unseen(t)
    /\ pc[d] \in {"sessions", "unlink", "forget", "ok"} => t \in closed
    /\ SessionTaken(d, t)
    /\ pc[d] = "ok" => row[t] = None
DeletionsGoOn == \A d \in Deletes : \A t \in on[d] : DeletionGoesOn(d, t)

\* How far the removal of a project has come.
RemovalGoesOn(r) ==
    /\ pc[r] = "project" => on[r] = {} /\ saw[r] # None
    /\ pc[r] \in {"listed", "inspect"} => todo[r] = on[r]
    /\ pc[r] = "loopWorktree" => todo[r] # {} /\ Current(r) \in closed
RemovalTakes(r, t) ==
    /\ pc[r] \in {"loop", "loopWorktree"} => t \in todo[r] \/ (t \notin worktree /\ t \in closed)
    /\ pc[r] \in {"sessions", "unlink", "forget", "ok"} => t \notin worktree /\ t \in closed
    /\ SessionTaken(r, t)
    /\ pc[r] = "ok" => row[t] = None
RemovalsGoOn == \A r \in Removes : RemovalGoesOn(r) /\ \A t \in on[r] : RemovalTakes(r, t)

\* How far an uninstallation has come.
AnyRemoved == \E r \in Removes : pc[r] = "ok"
UninstallationGoesOn(u, t) ==
    /\ pc[u] \in {"active", "remove"} => t \in todo[u] \/ t \notin worktree \/ AnyRemoved
    /\ pc[u] = "ok" => t \notin worktree \/ AnyRemoved
UninstallationsGoOn == \A u \in Uninstalls : \A t \in on[u] : UninstallationGoesOn(u, t)

\* What has no row any more is gone, or a removal went through that had not seen it.
NothingLeft ==
    /\ \A t \in session \cup worktree : row[t] = None /\ pc[t] = "ok" => Unseen(t)
    /\ \A s \in turn : \A t \in on[s] : s \in late \/ row[t] # None \/ Unseen(t)

\* Turns that a deletion does not see any more, or never saw, are late; what is there
\* of a deleted session is of late turns; and of closed shells, what was opened late.
TurnIsLate(s, t) ==
    /\ s \in forgotten => t \in looked
    /\ s \in turn /\ (t \in looked \/ t \notin session) => s \in late
    /\ pc[s] = "append" => t \in session \/ t \in looked
TurnsAreLate ==
    /\ \A s \in turn \cup forgotten \cup late : pc[s] # "idle"
    /\ \A s \in Starts : \A t \in on[s] : TurnIsLate(s, t)
    /\ \A t \in stump : t \notin session /\ Rewritten(t)
    /\ shell \cap closed \subseteq lateShell

IInv ==
    /\ Typed /\ RowsRefer /\ CreationsGoOn /\ RequestsAreAbout
    /\ DeletionsGoOn /\ RemovalsGoOn /\ UninstallationsGoOn /\ TurnsAreLate /\ NothingLeft
    /\ RowsAreWhole

-----------------------------------------------------------------------------
LEMMA InitIInv == Init => IInv
<1> SUFFICES ASSUME Init PROVE IInv
  OBVIOUS
<1> USE KindsAssumption, WorktreesAssumption DEF Init
<1>1. Typed
  BY DEF Typed, TypeOK, Steps
<1>2. RowsRefer /\ CreationsGoOn /\ RequestsAreAbout
  BY DEF RowsRefer, CreationsGoOn, CreationGoesOn, RequestsAreAbout, About, Requests
<1>3. DeletionsGoOn /\ RemovalsGoOn /\ UninstallationsGoOn /\ NothingLeft /\ RowsAreWhole
  BY DEF DeletionsGoOn, RemovalsGoOn, RemovalGoesOn, UninstallationsGoOn, NothingLeft,
         RowsAreWhole, Requests
<1>4. TurnsAreLate
  BY DEF TurnsAreLate, Requests
<1> QED BY <1>1, <1>2, <1>3, <1>4 DEF IInv

\* A request that is not over moves on, and no other.
Moves(r) ==
    /\ pc[r] \notin Ended /\ pc'[r] \in Steps \ {"idle"}
    /\ \A x \in Requests \ {r} :
          pc'[x] = pc[x] /\ saw'[x] = saw[x] /\ on'[x] = on[x] /\ todo'[x] = todo[x]
    /\ pc' \in [Requests -> Steps] /\ saw' \in [Requests -> Projects \cup {None}]
    /\ on' \in [Requests -> SUBSET Creates] /\ todo' \in [Requests -> SUBSET Creates]
    /\ todo'[r] \subseteq on'[r] /\ (pc'[r] \in {"unlink", "forget"} => todo'[r] # {})

\* What has happened is not forgotten.
Keeps ==
    /\ uncleaned \subseteq uncleaned' /\ uncleaned' \subseteq Creates
    /\ looked \subseteq looked' /\ looked' \subseteq Creates
    /\ late \subseteq late' /\ late' \subseteq Starts
    /\ closed \subseteq closed' /\ closed' \subseteq Creates
    /\ lateShell \subseteq lateShell' /\ lateShell' \subseteq Creates
    /\ stump' \subseteq Creates /\ turn' \subseteq Starts /\ forgotten' \subseteq Starts

\* Files and rows at most go, and only files of threads it is about.
OnlyTakes(r) ==
    /\ session \ session' \subseteq on[r] /\ worktree \ worktree' \subseteq on[r]
    /\ session' \subseteq session /\ stump' \subseteq stump
    /\ worktree' \subseteq worktree /\ shell' \subseteq shell
    /\ turn' = turn /\ project' \in {project, None}
    /\ row' \in [Creates -> Projects \cup {None}] /\ \A t \in Creates : row'[t] \in {row[t], None}

\* The steps of thread.create.
LEMMA CreateMoves ==
    ASSUME Typed, NEW c \in Creates, Create(c)
    PROVE  /\ Moves(c) /\ Keeps /\ on'[c] = on[c]
           /\ UNCHANGED <<stump, live, looked, late, closed, lateShell>>
           /\ pc[c] # "idle" => saw'[c] = saw[c]
           /\ project' \in Projects \cup {None} /\ row' \in [Creates -> Projects \cup {None}]
           /\ \A t \in Creates \ {c} : row'[t] = row[t]
           /\ \A t \in session' \ session : t = c /\ pc[c] = "session"
           /\ \A t \in worktree' \ worktree : t = c /\ pc[c] = "worktree"
           /\ session \ session' \subseteq {c} /\ worktree \ worktree' \subseteq {c}
<1> USE DEF rows, files, turns, live, mind, past, From, Moves, Keeps, Ended, Steps, Cleaning
<1> c \in Requests /\ c \in Projects
  BY DEF Requests, Projects
<1>0. /\ pc \in [Requests -> Steps] /\ saw \in [Requests -> Projects \cup {None}]
      /\ on \in [Requests -> SUBSET Creates] /\ todo \in [Requests -> SUBSET Creates]
      /\ \A r \in Requests : todo[r] \subseteq on[r]
      /\ project \in Projects \cup {None} /\ row \in [Creates -> Projects \cup {None}]
      /\ stump \subseteq Creates /\ turn \subseteq Starts /\ forgotten \subseteq Starts
      /\ uncleaned \subseteq Creates /\ looked \subseteq Creates /\ late \subseteq Starts
      /\ closed \subseteq Creates /\ lateShell \subseteq Creates
      /\ \A x \in Requests : pc[x] \in {"unlink", "forget"} => todo[x] # {}
  BY DEF Typed, TypeOK
<1>1. CASE CreateLookup(c)
  BY <1>0, <1>1 DEF CreateLookup
<1>2. CASE CreateWorktree(c)
  BY <1>0, <1>2 DEF CreateWorktree
<1>3. CASE CreateSession(c)
  BY <1>0, <1>3 DEF CreateSession
<1>4. CASE CreateRow(c)
  BY <1>0, <1>4 DEF CreateRow
<1>5. CASE CleanSession(c)
  BY <1>0, <1>5 DEF CleanSession
<1>6. CASE CleanWorktree(c)
  BY <1>0, <1>6 DEF CleanWorktree
<1> QED BY <1>1, <1>2, <1>3, <1>4, <1>5, <1>6 DEF Create

\* The steps of session_delete.
LEMMA SessionMoves ==
    ASSUME Typed, NEW r \in Deletes \cup Removes, SessionDelete(r)
    PROVE  /\ Moves(r) /\ Keeps /\ OnlyTakes(r) /\ UNCHANGED <<rows, worktree, shell, on, saw>>
           /\ todo'[r] \subseteq todo[r] /\ UNCHANGED <<uncleaned, late, closed, lateShell>>
           /\ pc[r] \in {"sessions", "unlink", "forget"}
           /\ pc'[r] \in {"sessions", "unlink", "forget", "refused"}
<1> USE DEF rows, files, turns, live, mind, past, From, Moves, Keeps, OnlyTakes, Ended, Steps
<1> r \in Requests
  BY DEF Requests
<1>0. /\ pc \in [Requests -> Steps] /\ saw \in [Requests -> Projects \cup {None}]
      /\ on \in [Requests -> SUBSET Creates] /\ todo \in [Requests -> SUBSET Creates]
      /\ \A x \in Requests : todo[x] \subseteq on[x]
      /\ row \in [Creates -> Projects \cup {None}]
      /\ stump \subseteq Creates /\ turn \subseteq Starts /\ forgotten \subseteq Starts
      /\ uncleaned \subseteq Creates /\ looked \subseteq Creates /\ late \subseteq Starts
      /\ closed \subseteq Creates /\ lateShell \subseteq Creates
      /\ \A x \in Requests : pc[x] \in {"unlink", "forget"} => todo[x] # {}
  BY DEF Typed, TypeOK
<1>1. todo[r] # {} => Current(r) \in todo[r]
  BY DEF Current
<1>2. CASE FindSession(r)
  BY <1>0, <1>1, <1>2 DEF FindSession, Others
<1>3. CASE Unlink(r)
  BY <1>0, <1>1, <1>3 DEF Unlink
<1>4. CASE Forget(r)
  BY <1>0, <1>1, <1>4 DEF Forget, Others
<1> QED BY <1>2, <1>3, <1>4 DEF SessionDelete

\* The steps of thread.delete.
LEMMA DeleteMoves ==
    ASSUME Typed, RequestsAreAbout, NEW d \in Deletes, Delete(d)
    PROVE  /\ Moves(d) /\ Keeps /\ OnlyTakes(d)
           /\ pc[d] # "idle" => saw'[d] = saw[d] /\ on'[d] = on[d]
           /\ project' = project /\ (DeleteRow(d) \/ row' = row)
<1> USE DEF rows, files, turns, live, mind, past, From, Moves, Keeps, OnlyTakes, Ended, Steps
<1> d \in Requests
  BY DEF Requests
<1>0. /\ pc \in [Requests -> Steps] /\ saw \in [Requests -> Projects \cup {None}]
      /\ on \in [Requests -> SUBSET Creates] /\ todo \in [Requests -> SUBSET Creates]
      /\ \A r \in Requests : todo[r] \subseteq on[r]
      /\ row \in [Creates -> Projects \cup {None}]
      /\ stump \subseteq Creates /\ turn \subseteq Starts /\ forgotten \subseteq Starts
      /\ uncleaned \subseteq Creates /\ looked \subseteq Creates /\ late \subseteq Starts
      /\ closed \subseteq Creates /\ lateShell \subseteq Creates
      /\ \A x \in Requests : pc[x] \in {"unlink", "forget"} => todo[x] # {}
  BY DEF Typed, TypeOK
<1> pc[d] = "idle" => on[d] = {} /\ todo[d] = {}
  BY <1>0 DEF RequestsAreAbout, About
<1>1. CASE DeleteFetch(d)
  BY <1>0, <1>1 DEF DeleteFetch
<1>2. CASE DeleteCheck(d) \/ DeleteProject(d) \/ Inspect(d)
  BY <1>0, <1>2 DEF DeleteCheck, DeleteProject, Inspect
<1>3. CASE RemoveWorktree(d)
  BY <1>0, <1>3 DEF RemoveWorktree
<1>4. CASE CloseShell(d)
  BY <1>0, <1>4 DEF CloseShell
<1>5. CASE SessionDelete(d)
  BY <1>5, SessionMoves
<1>6. CASE DeleteRow(d)
  BY <1>0, <1>6 DEF DeleteRow
<1> QED BY <1>1, <1>2, <1>3, <1>4, <1>5, <1>6 DEF Delete

\* The steps of project.remove.
LEMMA RemoveMoves ==
    ASSUME Typed, RemovalsGoOn, NEW r \in Removes, Remove(r)
    PROVE  /\ Moves(r) /\ Keeps /\ OnlyTakes(r)
           /\ pc[r] # "idle" => saw'[r] = saw[r]
           /\ pc[r] \notin {"idle", "project"} => on'[r] = on[r]
           /\ RemoveRow(r) \/ UNCHANGED rows
<1> USE DEF rows, files, turns, live, mind, past, From, Moves, Keeps, OnlyTakes, Ended, Steps
<1> r \in Requests
  BY DEF Requests
<1>0. /\ pc \in [Requests -> Steps] /\ saw \in [Requests -> Projects \cup {None}]
      /\ on \in [Requests -> SUBSET Creates] /\ todo \in [Requests -> SUBSET Creates]
      /\ \A x \in Requests : todo[x] \subseteq on[x]
      /\ row \in [Creates -> Projects \cup {None}] /\ project \in Projects \cup {None}
      /\ stump \subseteq Creates /\ turn \subseteq Starts /\ forgotten \subseteq Starts
      /\ uncleaned \subseteq Creates /\ looked \subseteq Creates /\ late \subseteq Starts
      /\ closed \subseteq Creates /\ lateShell \subseteq Creates
      /\ \A x \in Requests : pc[x] \in {"unlink", "forget"} => todo[x] # {}
  BY DEF Typed, TypeOK
<1> todo[r] # {} => Current(r) \in todo[r]
  BY DEF Current
<1> pc[r] = "loopWorktree" => todo[r] # {}
  BY DEF RemovalsGoOn, RemovalGoesOn
<1>1. CASE RemoveFetch(r) \/ RemoveList(r)
  BY <1>0, <1>1 DEF RemoveFetch, RemoveList
<1>2. CASE RemoveInspect(r)
  BY <1>0, <1>2 DEF RemoveInspect, RemoveCheck
<1>3. CASE RemoveShell(r)
  BY <1>0, <1>3 DEF RemoveShell, Others
<1>4. CASE RemoveWorktrees(r)
  BY <1>0, <1>4 DEF RemoveWorktrees, Others
<1>5. CASE RemoveLooped(r)
  BY <1>0, <1>5 DEF RemoveLooped
<1>6. CASE SessionDelete(r)
  BY <1>6, SessionMoves
<1>7. CASE RemoveRow(r)
  BY <1>0, <1>7 DEF RemoveRow
<1> QED BY <1>1, <1>2, <1>3, <1>4, <1>5, <1>6, <1>7 DEF Remove

\* The steps of system.uninstall_prepare.
LEMMA UninstallMoves ==
    ASSUME Typed, RequestsAreAbout, NEW u \in Uninstalls, Uninstall(u)
    PROVE  /\ Moves(u) /\ Keeps /\ OnlyTakes(u) /\ UNCHANGED <<rows, session, stump, live, past>>
           /\ pc[u] # "idle" => saw'[u] = saw[u] /\ on'[u] = on[u]
<1> USE DEF rows, files, turns, live, mind, past, From, Moves, Keeps, OnlyTakes, Ended, Steps
<1> u \in Requests
  BY DEF Requests
<1>0. /\ pc \in [Requests -> Steps] /\ saw \in [Requests -> Projects \cup {None}]
      /\ on \in [Requests -> SUBSET Creates] /\ todo \in [Requests -> SUBSET Creates]
      /\ \A x \in Requests : todo[x] \subseteq on[x]
      /\ row \in [Creates -> Projects \cup {None}] /\ project \in Projects \cup {None}
      /\ Worktrees \subseteq Creates
      /\ stump \subseteq Creates /\ turn \subseteq Starts /\ forgotten \subseteq Starts
      /\ uncleaned \subseteq Creates /\ looked \subseteq Creates /\ late \subseteq Starts
      /\ closed \subseteq Creates /\ lateShell \subseteq Creates
      /\ \A x \in Requests : pc[x] \in {"unlink", "forget"} => todo[x] # {}
  BY WorktreesAssumption DEF Typed, TypeOK
<1> pc[u] = "idle" => on[u] = {} /\ todo[u] = {}
  BY <1>0 DEF RequestsAreAbout, About
<1> todo[u] # {} => Current(u) \in todo[u]
  BY DEF Current
<1>1. CASE UninstallList(u) \/ UninstallCheck(u)
  BY <1>0, <1>1 DEF UninstallList, UninstallCheck
<1>2. CASE UninstallInspect(u)
  BY <1>0, <1>2 DEF UninstallInspect
<1>3. CASE UninstallRemove(u)
  BY <1>0, <1>3 DEF UninstallRemove, Others
<1> QED BY <1>1, <1>2, <1>3 DEF Uninstall

\* The steps of turn.start and terminal.open, and the end of any request.
Asks(r) ==
    \/ r \in Starts /\ (Fetch(r) \/ TurnOpen(r) \/ TurnStart(r) \/ TurnStored(r))
    \/ r \in Opens /\ (Fetch(r) \/ TerminalOpen(r))
    \/ Cut(r)
LEMMA OthersMove ==
    ASSUME Typed, RequestsAreAbout, NEW r \in Requests, Asks(r)
    PROVE  /\ Moves(r) /\ Keeps /\ UNCHANGED <<rows, session, worktree>>
           /\ pc[r] # "idle" => saw'[r] = saw[r] /\ on'[r] = on[r]
           /\ shell' \subseteq Creates
<1> USE DEF rows, files, turns, live, mind, past, From, Moves, Keeps, Ended, Steps
<1>0. /\ pc \in [Requests -> Steps] /\ saw \in [Requests -> Projects \cup {None}]
      /\ on \in [Requests -> SUBSET Creates] /\ todo \in [Requests -> SUBSET Creates]
      /\ \A x \in Requests : todo[x] \subseteq on[x]
      /\ shell \subseteq Creates
      /\ stump \subseteq Creates /\ turn \subseteq Starts /\ forgotten \subseteq Starts
      /\ uncleaned \subseteq Creates /\ looked \subseteq Creates /\ late \subseteq Starts
      /\ closed \subseteq Creates /\ lateShell \subseteq Creates
      /\ \A x \in Requests : pc[x] \in {"unlink", "forget"} => todo[x] # {}
  BY DEF Typed, TypeOK
<1> pc[r] = "idle" => on[r] = {} /\ todo[r] = {}
  BY <1>0 DEF RequestsAreAbout, About
<1>1. CASE Fetch(r)
  BY <1>0, <1>1 DEF Fetch
<1>2. CASE TurnOpen(r)
  BY <1>0, <1>2 DEF TurnOpen
<1>3. CASE r \in Starts /\ TurnStart(r)
  BY <1>0, <1>3 DEF TurnStart
<1>4. CASE TurnStored(r)
  BY <1>0, <1>4 DEF TurnStored
<1>5. CASE TerminalOpen(r)
  BY <1>0, <1>5 DEF TerminalOpen
<1>6. CASE Cut(r)
  BY <1>0, <1>6 DEF Cut
<1> QED BY <1>1, <1>2, <1>3, <1>4, <1>5, <1>6 DEF Asks

\* Each request moves by itself.
LEMMA StepMoves ==
    ASSUME Typed, RequestsAreAbout, RemovalsGoOn, NEW r \in Requests, Step(r)
    PROVE  Moves(r) /\ Keeps
<1>1. CASE r \in Adds /\ AddProject(r)
  BY <1>1 DEF AddProject, From, rows, files, turns, live, mind, past, Moves, Keeps, Ended, Steps,
              Typed, TypeOK
<1>2. CASE Asks(r)
  BY <1>2, OthersMove
<1> QED
  BY <1>1, <1>2, CreateMoves, DeleteMoves, RemoveMoves, UninstallMoves DEF Step, Asks

\* What has been created, removed or answered stays so, and its files do not
\* come back.
Stays ==
    /\ \A x \in Requests : pc[x] \in {"ok", "refused", "cut"} =>
          pc'[x] = pc[x] /\ saw'[x] = saw[x] /\ on'[x] = on[x]
    /\ \A t \in Creates : pc[t] = "ok" =>
          /\ t \in session' => t \in session
          /\ t \in worktree' => t \in worktree
          /\ row[t] = None => row'[t] = None

LEMMA StepStays ==
    ASSUME Typed, RequestsAreAbout, RemovalsGoOn, NEW r \in Requests, Step(r)
    PROVE  Stays
<1>1. /\ \A x \in Requests : pc[x] \in {"ok", "refused", "cut"} =>
            pc'[x] = pc[x] /\ saw'[x] = saw[x] /\ on'[x] = on[x]
  BY StepMoves DEF Moves, Ended
<1>2. CASE r \in Creates /\ Create(r)
  <2>1. /\ \A t \in session' \ session : t = r /\ pc[r] = "session"
        /\ \A t \in worktree' \ worktree : t = r /\ pc[r] = "worktree"
        /\ pc[r] # "ok" /\ \A t \in Creates \ {r} : row'[t] = row[t]
    BY <1>2, CreateMoves DEF Moves, Ended
  <2> QED BY <1>1, <2>1 DEF Stays
<1>3. CASE OnlyTakes(r)
  BY <1>1, <1>3 DEF OnlyTakes, Stays
<1>4. CASE r \in Adds /\ AddProject(r)
  BY <1>1, <1>4 DEF AddProject, files, Stays
<1>5. CASE Asks(r)
  <2>1. UNCHANGED <<session, worktree, row>>
    BY <1>5, OthersMove DEF rows
  <2> QED BY <1>1, <2>1 DEF Stays
<1> QED
  BY <1>2, <1>3, <1>4, <1>5, DeleteMoves, RemoveMoves, UninstallMoves DEF Step, Asks

LEMMA Staying == Typed /\ RequestsAreAbout /\ RemovalsGoOn /\ [Next]_threadVars => Stays /\ Keeps
<1> SUFFICES ASSUME Typed, RequestsAreAbout, RemovalsGoOn, [Next]_threadVars PROVE Stays /\ Keeps
  OBVIOUS
<1> USE DEF rows, files, turns, live, mind, past
<1>0. /\ stump \subseteq Creates /\ turn \subseteq Starts /\ forgotten \subseteq Starts
      /\ uncleaned \subseteq Creates /\ looked \subseteq Creates /\ late \subseteq Starts
      /\ closed \subseteq Creates /\ lateShell \subseteq Creates
      /\ on \in [Requests -> SUBSET Creates] /\ pc \in [Requests -> Steps]
  BY DEF Typed, TypeOK
<1>1. CASE \E s \in Starts : TurnEnds(s) \/ TurnAppends(s)
  <2>1. PICK s \in Starts : TurnEnds(s) \/ TurnAppends(s)
    BY <1>1
  <2>2. on[s] \subseteq Creates
    BY <1>0 DEF Requests
  <2> QED BY <1>0, <2>1, <2>2 DEF TurnEnds, TurnAppends, Stays, Keeps
<1>2. CASE Crash
  BY <1>0, <1>2 DEF Crash, Stays, Keeps, Ended
<1>3. CASE UNCHANGED threadVars
  BY <1>0, <1>3 DEF threadVars, Stays, Keeps
<1> QED BY <1>1, <1>2, <1>3, StepStays, StepMoves DEF Next

LEMMA TypedStep ==
    Typed /\ RequestsAreAbout /\ CreationsGoOn /\ RemovalsGoOn /\ [Next]_threadVars => Typed'
<1> SUFFICES ASSUME Typed, RequestsAreAbout, CreationsGoOn, RemovalsGoOn, [Next]_threadVars
             PROVE  Typed'
  OBVIOUS
<1> USE DEF rows, files, turns, live, mind, past
<1>0. /\ stump' \subseteq Creates /\ turn' \subseteq Starts /\ forgotten' \subseteq Starts
      /\ uncleaned' \subseteq Creates /\ looked' \subseteq Creates /\ late' \subseteq Starts
      /\ closed' \subseteq Creates /\ lateShell' \subseteq Creates
  BY Staying DEF Keeps
<1>1. ASSUME NEW r \in Requests, Step(r) PROVE Typed'
  <2>1. Moves(r)
    BY <1>1, StepMoves
  <2>2. /\ pc' \in [Requests -> Steps] /\ saw' \in [Requests -> Projects \cup {None}]
        /\ on' \in [Requests -> SUBSET Creates] /\ todo' \in [Requests -> SUBSET Creates]
        /\ \A x \in Requests : todo'[x] \subseteq on'[x]
        /\ \A x \in Requests : pc'[x] \in {"unlink", "forget"} => todo'[x] # {}
    BY <2>1 DEF Moves, Typed, TypeOK
  <2>3. CASE r \in Creates /\ Create(r)
    <3>1. /\ UNCHANGED live /\ project' \in Projects \cup {None}
          /\ row' \in [Creates -> Projects \cup {None}] /\ session' \subseteq session \cup {r}
          /\ \A t \in worktree' \ worktree : t = r /\ pc[r] = "worktree"
      BY <2>3, CreateMoves
    <3>2. worktree' \subseteq worktree \cup Worktrees
      BY <2>3, <3>1 DEF CreationsGoOn, CreationGoesOn
    <3> QED BY <1>0, <2>2, <2>3, <3>1, <3>2 DEF Typed, TypeOK
  <2>4. CASE OnlyTakes(r)
    BY <1>0, <2>2, <2>4 DEF OnlyTakes, Typed, TypeOK
  <2>5. CASE r \in Adds /\ AddProject(r)
    BY <1>0, <2>2, <2>5 DEF AddProject, Projects, Typed, TypeOK
  <2>6. CASE Asks(r)
    <3>1. UNCHANGED <<rows, session, worktree>> /\ shell' \subseteq Creates
      BY <2>6, OthersMove
    <3> QED BY <1>0, <2>2, <3>1 DEF Typed, TypeOK
  <2> QED
    BY <1>1, <2>3, <2>4, <2>5, <2>6, DeleteMoves, RemoveMoves, UninstallMoves DEF Step, Asks
<1>2. CASE \E s \in Starts : TurnAppends(s) \/ TurnEnds(s)
  BY <1>0, <1>2 DEF TurnAppends, TurnEnds, Typed, TypeOK
<1>3. CASE Crash
  <2>1. pc' \in [Requests -> Steps] /\ \A r \in Requests : pc'[r] \in {"unlink", "forget"} => FALSE
    <3>1. "cut" \in Steps /\ pc \in [Requests -> Steps]
      BY DEF Steps, Ended, Typed, TypeOK
    <3>2. pc' = [r \in Requests |-> IF pc[r] \in Ended \cup {"idle"} THEN pc[r] ELSE "cut"]
      BY <1>3 DEF Crash
    <3> QED BY <3>1, <3>2 DEF Ended
  <2> QED BY <1>0, <1>3, <2>1 DEF Crash, Typed, TypeOK
<1>4. CASE UNCHANGED threadVars
  BY <1>4 DEF threadVars, Typed, TypeOK
<1> QED BY <1>1, <1>2, <1>3, <1>4 DEF Next

\* What Stays means for those who wait for it.
LEMMA Lasting ==
    ASSUME Typed, Stays
    PROVE  /\ \A t \in Creates : pc[t] = "ok" /\ Unseen(t) => Unseen(t)'
           /\ \A t \in Creates : pc[t] = "ok" /\ Removed(saw[t]) => Removed(saw[t])'
           /\ (\E r \in Removes : pc[r] = "ok") => (\E r \in Removes : pc'[r] = "ok")
BY DEF Stays, Unseen, Removed, Requests

-----------------------------------------------------------------------------
\* A project that is gone does not come back, and its rows go with it.
LEMMA RowsReferStep ==
    ASSUME Typed, Typed', RowsRefer, RequestsAreAbout, RemovalsGoOn, [Next]_threadVars
    PROVE  RowsRefer'
<1> USE KindsAssumption DEF rows, files, turns, live, mind, past, From, Removed
<1>0. \A t \in Creates : pc[t] = "ok" =>
          /\ (\E r \in Removes : pc[r] = "ok" /\ saw[r] = saw[t]) =>
                (\E r \in Removes : pc'[r] = "ok" /\ saw'[r] = saw[t])
          /\ saw'[t] = saw[t]
  BY Staying DEF Stays, Requests
<1> /\ pc \in [Requests -> Steps] /\ saw \in [Requests -> Projects \cup {None}]
    /\ row \in [Creates -> Projects \cup {None}] /\ Creates \subseteq Requests
    /\ project \in Projects \cup {None}
  BY DEF Typed, TypeOK, Requests
<1>1. ASSUME project' = project, \A t \in Creates : row'[t] \in {row[t], None},
             \A t \in Creates : /\ saw'[t] = saw[t] /\ (pc'[t] = "ok" <=> pc[t] = "ok")
                                /\ pc'[t] # "idle" => pc[t] # "idle"
      PROVE  RowsRefer'
  <2> SUFFICES ASSUME NEW t \in Creates
               PROVE  /\ row'[t] # None => pc'[t] = "ok" /\ row'[t] = saw'[t] /\ project' = row'[t]
                      /\ pc'[t] # "idle" => saw'[t] # None
                      /\ pc'[t] = "ok" => project' = saw'[t] \/ Removed(saw[t])'
    BY DEF RowsRefer
  <2>1. /\ project' = project /\ row'[t] \in {row[t], None} /\ saw'[t] = saw[t]
        /\ (pc'[t] = "ok" <=> pc[t] = "ok") /\ (pc'[t] # "idle" => pc[t] # "idle")
    BY <1>1
  <2>2. pc'[t] = "ok" => project' = saw'[t] \/ Removed(saw[t])'
    BY <1>0, <2>1 DEF RowsRefer
  <2> QED BY <2>1, <2>2 DEF RowsRefer
<1>2. ASSUME NEW c \in Creates, CreateLookup(c) PROVE RowsRefer'
  BY <1>0, <1>2 DEF CreateLookup, RowsRefer, Projects
<1>3. ASSUME NEW c \in Creates, CreateRow(c), pc'[c] = "ok" PROVE RowsRefer'
  <2>1. /\ project' = saw[c] /\ row' = [row EXCEPT ![c] = saw[c]] /\ saw' = saw /\ saw[c] # None
        /\ pc[c] = "row" /\ pc' = [pc EXCEPT ![c] = "ok"] /\ project \in {None, saw[c]}
    BY <1>3 DEF CreateRow, RowsRefer
  <2>2. \A t \in Creates : row[t] # None => row[t] = saw[c]
    BY <2>1 DEF RowsRefer
  <2>3. \A t \in Creates : pc[t] = "ok" => saw[t] = saw[c] \/ Removed(saw[t])
    BY <2>1 DEF RowsRefer
  <2>4. \A t \in Creates : pc'[t] = "ok" => project' = saw'[t] \/ Removed(saw[t])'
    BY <1>0, <2>1, <2>3
  <2> QED BY <2>1, <2>2, <2>4 DEF RowsRefer
<1>4. ASSUME NEW c \in Creates, Create(c), ~CreateLookup(c), ~(CreateRow(c) /\ pc'[c] = "ok")
      PROVE  RowsRefer'
  <2>1. UNCHANGED <<project, row, saw>>
    BY <1>4 DEF Create, CreateWorktree, CreateSession, CreateRow, CleanSession, CleanWorktree
  <2>2. pc[c] \notin {"idle", "ok"} /\ pc'[c] # "ok" /\ \A t \in Creates \ {c} : pc'[t] = pc[t]
    BY <1>4 DEF Create, CreateWorktree, CreateSession, CreateRow, CleanSession, CleanWorktree, Cleaning
  <2> QED BY <1>1, <2>1, <2>2
<1>5. ASSUME NEW a \in Adds, AddProject(a) PROVE RowsRefer'
  BY <1>0, <1>5 DEF AddProject, RowsRefer
<1>6. ASSUME NEW r \in Removes, RemoveRow(r) PROVE RowsRefer'
  <2>1. r \in Requests
    BY DEF Requests
  <2> QED BY <1>0, <1>6, <2>1 DEF RemoveRow, RowsRefer, Removed
<1>7. ASSUME NEW r \in Requests, Moves(r), r \notin Creates, project' = project,
             \A t \in Creates : row'[t] \in {row[t], None}
      PROVE  RowsRefer'
  BY <1>1, <1>7 DEF Moves
<1>8. CASE Crash \/ (\E s \in Starts : TurnAppends(s) \/ TurnEnds(s)) \/ UNCHANGED threadVars
  BY <1>1, <1>8 DEF Crash, TurnAppends, TurnEnds, threadVars, Ended
<1>9. ASSUME NEW r \in Requests, Step(r) PROVE RowsRefer'
  <2>1. CASE r \in Deletes /\ Delete(r)
    BY <1>7, <2>1, DeleteMoves DEF OnlyTakes
  <2>2. CASE r \in Removes /\ Remove(r)
    BY <1>6, <1>7, <2>2, RemoveMoves
  <2>3. CASE r \in Uninstalls /\ Uninstall(r)
    BY <1>7, <2>3, UninstallMoves
  <2>4. CASE r \notin Creates /\ Asks(r)
    BY <1>7, <2>4, OthersMove
  <2>5. CASE r \in Creates /\ Cut(r)
    BY <1>1, <2>5 DEF Cut, Ended
  <2> QED BY <1>2, <1>3, <1>4, <1>5, <1>9, <2>1, <2>2, <2>3, <2>4, <2>5 DEF Step, Asks
<1> QED BY <1>8, <1>9 DEF Next

-----------------------------------------------------------------------------
\* Nobody takes from a thread what its creation is about to use.
LEMMA CreationsGoOnStep ==
    ASSUME Typed, Typed', CreationsGoOn, RequestsAreAbout, RemovalsGoOn, [Next]_threadVars
    PROVE  CreationsGoOn'
<1> USE DEF rows, files, turns, live, mind, past, From, Workspace
<1> /\ pc \in [Requests -> Steps] /\ Creates \subseteq Requests
  BY DEF Typed, TypeOK, Requests
<1>0. uncleaned \subseteq uncleaned'
  BY Staying DEF Keeps
\* What the others may do to a thread.
<1>1. ASSUME NEW t \in Creates, pc'[t] = pc[t],
             pc[t] # "ok" => (t \in session => t \in session'),
             pc[t] # "ok" => (t \in worktree => t \in worktree'),
             t \in session' => t \in session, t \in worktree' => t \in worktree
      PROVE  CreationGoesOn(t)'
  BY <1>0, <1>1 DEF CreationsGoOn, CreationGoesOn
<1>2. ASSUME NEW t \in Creates, Create(t) PROVE CreationGoesOn(t)'
  <2> USE DEF CreationsGoOn, CreationGoesOn, Cleaning
  <2>1. CASE CreateLookup(t)
    BY <1>2, <2>1 DEF CreateLookup
  <2>2. CASE CreateWorktree(t)
    BY <1>2, <2>2 DEF CreateWorktree
  <2>3. CASE CreateSession(t)
    BY <1>2, <2>3 DEF CreateSession, Typed, TypeOK
  <2>4. CASE CreateRow(t)
    BY <1>2, <2>4 DEF CreateRow
  <2>5. CASE CleanSession(t)
    BY <1>2, <2>5 DEF CleanSession, Typed, TypeOK
  <2>6. CASE CleanWorktree(t)
    BY <1>2, <2>6 DEF CleanWorktree, Typed, TypeOK
  <2> QED BY <1>2, <2>1, <2>2, <2>3, <2>4, <2>5, <2>6 DEF Create
<1>3. ASSUME NEW t \in Creates, Cut(t) PROVE CreationGoesOn(t)'
  BY <1>3 DEF Cut, CreationsGoOn, CreationGoesOn, Ended
<1>4. ASSUME NEW r \in Requests, Step(r), NEW t \in Creates, t # r PROVE CreationGoesOn(t)'
  <2>1. pc'[t] = pc[t]
    BY <1>4, StepMoves DEF Moves
  <2>2. pc[t] # "ok" => t \notin on[r]
    BY DEF RequestsAreAbout, About
  <2>3. CASE r \in Creates /\ Create(r)
    <3>1. \A x \in (session' \ session) \cup (worktree' \ worktree) : x = r
      BY <2>3, CreateMoves
    <3>2. (t \in session => t \in session') /\ (t \in worktree => t \in worktree')
      BY <1>4, <2>3, CreateMoves
    <3> QED BY <1>1, <1>4, <2>1, <3>1, <3>2
  <2>4. CASE OnlyTakes(r)
    BY <1>1, <2>1, <2>2, <2>4 DEF OnlyTakes
  <2>5. CASE UNCHANGED <<session, worktree>>
    BY <1>1, <2>1, <2>5
  <2> QED
    BY <1>4, <2>3, <2>4, <2>5, DeleteMoves, RemoveMoves, UninstallMoves, OthersMove
       DEF Step, Asks, AddProject
<1>5. CASE Crash
  BY <1>5 DEF Crash, CreationsGoOn, CreationGoesOn, Ended
<1>6. CASE (\E s \in Starts : TurnAppends(s) \/ TurnEnds(s)) \/ UNCHANGED threadVars
  BY <1>1, <1>6 DEF TurnAppends, TurnEnds, threadVars, CreationsGoOn
<1>7. ASSUME NEW r \in Requests, Step(r) PROVE CreationsGoOn'
  <2>1. ASSUME r \in Creates PROVE CreationGoesOn(r)'
    BY <1>2, <1>3, <1>7, <2>1, KindsAssumption DEF Step
  <2> QED BY <1>4, <1>7, <2>1 DEF CreationsGoOn
<1> QED BY <1>5, <1>6, <1>7 DEF Next, CreationsGoOn

-----------------------------------------------------------------------------
\* Requests are about threads that were created, of the project they saw.
LEMMA RequestsAreAboutStep ==
    ASSUME Typed, Typed', RowsRefer, RequestsAreAbout, RemovalsGoOn, [Next]_threadVars
    PROVE  RequestsAreAbout'
<1> USE KindsAssumption DEF rows, files, turns, live, mind, past, From
<1> /\ pc \in [Requests -> Steps] /\ saw \in [Requests -> Projects \cup {None}]
    /\ on \in [Requests -> SUBSET Creates] /\ Creates \subseteq Requests
  BY DEF Typed, TypeOK, Requests
<1>0. \A t \in Creates : pc[t] = "ok" => pc'[t] = "ok" /\ saw'[t] = saw[t]
  BY Staying DEF Stays
<1>1. ASSUME NEW r \in Requests, on'[r] = on[r], saw'[r] = saw[r], pc'[r] = "idle" => pc[r] = "idle"
      PROVE  About(r)'
  BY <1>0, <1>1 DEF RequestsAreAbout, About
<1>2. ASSUME NEW d \in Deletes, DeleteFetch(d), d \in Requests PROVE About(d)'
  BY <1>0, <1>2 DEF DeleteFetch, RowsRefer, About
<1>3. ASSUME NEW r \in Removes, RemoveFetch(r) \/ RemoveList(r), r \in Requests PROVE About(r)'
  <2>1. CASE RemoveFetch(r)
    BY <2>1, <1>3 DEF RemoveFetch, RequestsAreAbout, About
  <2>2. CASE RemoveList(r)
    <3>1. pc[r] = "project" /\ saw[r] # None /\ saw' = saw /\ pc'[r] = "listed"
      BY <1>3, <2>2 DEF RemoveList, RemovalsGoOn, RemovalGoesOn
    <3>2. \A t \in on'[r] : t \in Creates /\ row[t] = saw[r]
      BY <1>3, <2>2 DEF RemoveList
    <3> QED BY <1>0, <1>3, <3>1, <3>2 DEF RowsRefer, About
  <2> QED BY <1>3, <2>1, <2>2
<1>4. ASSUME NEW u \in Uninstalls, UninstallList(u), u \in Requests PROVE About(u)'
  <2>1. \A t \in on'[u] : t \in Creates /\ row[t] # None
    BY <1>4, WorktreesAssumption DEF UninstallList
  <2> QED BY <1>0, <1>4, <2>1 DEF UninstallList, RowsRefer, About
<1>5. ASSUME NEW r \in Starts \cup Opens, Fetch(r), r \in Requests PROVE About(r)'
  BY <1>0, <1>5 DEF Fetch, RowsRefer, About
<1>6. ASSUME NEW r \in Requests, Step(r) PROVE About(r)'
  <2>0. pc'[r] # "idle"
    BY <1>6, StepMoves DEF Moves
  <2>1. CASE r \in Creates /\ Create(r)
    <3>1. on'[r] = on[r]
      BY <2>1, CreateMoves
    <3> QED BY <1>0, <2>0, <2>1, <3>1 DEF RequestsAreAbout, About
  <2>2. CASE r \in Adds /\ AddProject(r)
    BY <1>1, <2>0, <2>2 DEF AddProject
  <2>3. CASE r \in Deletes /\ Delete(r)
    <3>1. DeleteFetch(r) \/ pc[r] # "idle"
      BY <2>3
         DEF Delete, DeleteCheck, DeleteProject, Inspect, RemoveWorktree, CloseShell,
             SessionDelete, FindSession, Unlink, Forget, DeleteRow
    <3> QED BY <1>1, <1>2, <2>0, <2>3, <3>1, DeleteMoves
  <2>4. CASE r \in Removes /\ Remove(r)
    <3>1. RemoveFetch(r) \/ RemoveList(r) \/ pc[r] \notin {"idle", "project"}
      BY <2>4
         DEF Remove, RemoveInspect, RemoveCheck, RemoveShell, RemoveWorktrees, RemoveLooped,
             SessionDelete, FindSession, Unlink, Forget, RemoveRow
    <3> QED BY <1>1, <1>3, <2>0, <2>4, <3>1, RemoveMoves
  <2>5. CASE r \in Uninstalls /\ Uninstall(r)
    <3>1. UninstallList(r) \/ pc[r] # "idle"
      BY <2>5 DEF Uninstall, UninstallInspect, UninstallCheck, UninstallRemove
    <3> QED BY <1>1, <1>4, <2>0, <2>5, <3>1, UninstallMoves
  <2>6. CASE r \in Starts \cup Opens /\ Fetch(r)
    BY <1>5, <2>6
  <2>7. CASE TurnOpen(r) \/ TurnStart(r) \/ TurnStored(r) \/ TerminalOpen(r) \/ Cut(r)
    BY <1>1, <2>0, <2>7 DEF TurnOpen, TurnStart, TurnStored, TerminalOpen, Cut
  <2> QED BY <1>6, <2>1, <2>2, <2>3, <2>4, <2>5, <2>6, <2>7 DEF Step
<1>7. ASSUME NEW r \in Requests, Step(r) PROVE RequestsAreAbout'
  <2>1. ASSUME NEW x \in Requests, x # r PROVE About(x)'
    BY <1>1, <1>7, <2>1, StepMoves DEF Moves
  <2> QED BY <1>6, <1>7, <2>1 DEF RequestsAreAbout
<1>8. CASE Crash \/ (\E s \in Starts : TurnAppends(s) \/ TurnEnds(s)) \/ UNCHANGED threadVars
  BY <1>1, <1>8 DEF Crash, TurnAppends, TurnEnds, threadVars, RequestsAreAbout, Ended
<1> QED BY <1>7, <1>8 DEF Next

-----------------------------------------------------------------------------
\* A session that a loop has come to is not given back before the request ends.
LEMMA SessionTakenStep ==
    ASSUME Typed, Typed', RequestsAreAbout, RemovalsGoOn, [Next]_threadVars,
           NEW r \in Deletes \cup Removes, NEW t \in on[r], SessionTaken(r, t)
    PROVE  /\ todo'[r] = todo[r] /\ pc'[r] \in {pc[r], "refused", "cut"} => SessionTaken(r, t)'
           /\ SessionDelete(r) => SessionTaken(r, t)'
<1> USE DEF rows, files, turns, live, mind, past, From
<1> /\ r \in Requests /\ pc \in [Requests -> Steps] /\ Creates \subseteq Requests
    /\ on \in [Requests -> SUBSET Creates] /\ todo \in [Requests -> SUBSET Creates]
    /\ todo[r] \subseteq on[r]
    /\ pc[r] \in {"unlink", "forget"} => todo[r] # {}
  BY DEF Typed, TypeOK, Requests
<1>0. /\ looked \subseteq looked'
      /\ \A x \in on[r] : x \in session' => x \in session
  BY Staying DEF Keeps, Stays, RequestsAreAbout, About
<1>1. todo[r] # {} => Current(r) \in todo[r]
  BY DEF Current
<1>2. ASSUME todo'[r] = todo[r], pc'[r] \in {pc[r], "refused", "cut"} PROVE SessionTaken(r, t)'
  <2>1. Current(r)' = Current(r)
    BY <1>2 DEF Current
  <2> QED BY <1>0, <1>2, <2>1 DEF SessionTaken
<1>3. CASE FindSession(r)
  <2>1. CASE pc'[r] = "unlink"
    <3>1. Current(r)' = Current(r)
      BY <1>3, <2>1 DEF FindSession, Current
    <3> QED BY <1>0, <1>1, <1>3, <2>1, <3>1 DEF FindSession, SessionTaken
  <2>2. CASE pc'[r] # "unlink"
    BY <1>0, <1>1, <1>3, <2>2 DEF FindSession, Others, SessionTaken
  <2> QED BY <2>1, <2>2
<1>4. CASE Unlink(r)
  <2>1. Current(r)' = Current(r)
    BY <1>4 DEF Unlink, Current
  <2> QED BY <1>0, <1>1, <1>4, <2>1 DEF Unlink, SessionTaken
<1>5. CASE Forget(r)
  BY <1>0, <1>1, <1>5 DEF Forget, Others, SessionTaken
<1> QED BY <1>2, <1>3, <1>4, <1>5 DEF SessionDelete

\* What a deletion or a removal has taken is not given back before it ends.
LEMMA DeletionsGoOnStep ==
    ASSUME Typed, Typed', RowsRefer, RequestsAreAbout, DeletionsGoOn, RemovalsGoOn,
           [Next]_threadVars
    PROVE  DeletionsGoOn'
<1> USE KindsAssumption DEF rows, files, turns, live, mind, past, From
<1> /\ pc \in [Requests -> Steps] /\ Deletes \subseteq Requests /\ worktree \subseteq Worktrees
    /\ on \in [Requests -> SUBSET Creates] /\ todo \in [Requests -> SUBSET Creates]
    /\ Creates \subseteq Requests
  BY DEF Typed, TypeOK, Requests
<1>0. Stays /\ Keeps /\ \A t \in Creates : pc[t] = "ok" /\ Unseen(t) => Unseen(t)'
  BY Staying, Lasting
\* One that does not move, or ends.
<1>1. ASSUME NEW d \in Deletes, on'[d] = on[d], todo'[d] = todo[d],
             pc'[d] \in {pc[d], "refused", "cut"},
             NEW t \in on[d]
      PROVE  DeletionGoesOn(d, t)'
  <2>1. DeletionGoesOn(d, t) /\ pc[t] = "ok" /\ t \in Creates
    BY DEF DeletionsGoOn, RequestsAreAbout, About
  <2>2. /\ t \in session' => t \in session
        /\ t \in worktree' => t \in worktree
        /\ row[t] = None => row'[t] = None
    BY <1>0, <2>1 DEF Stays
  <2>3. SessionTaken(d, t)'
    BY <1>1, <2>1, SessionTakenStep DEF DeletionGoesOn
  <2> QED BY <1>0, <1>1, <2>1, <2>2, <2>3 DEF DeletionGoesOn, Keeps
<1>2. ASSUME NEW d \in Deletes, Delete(d), NEW t \in on'[d] PROVE DeletionGoesOn(d, t)'
  <2>1. CASE DeleteFetch(d)
    BY <2>1 DEF DeleteFetch, DeletionGoesOn, SessionTaken
  <2>2. ASSUME ~DeleteFetch(d)
        PROVE  /\ on'[d] = on[d] /\ DeletionGoesOn(d, t) /\ pc[t] = "ok" /\ t \in Creates
               /\ saw[d] = saw[t] /\ on[d] = {t}
    <3>1. pc[d] # "idle"
      BY <1>2, <2>2
         DEF Delete, DeleteCheck, DeleteProject, Inspect, RemoveWorktree, CloseShell,
             SessionDelete, FindSession, Unlink, Forget, DeleteRow
    <3>2. on'[d] = on[d]
      BY <1>2, <3>1, DeleteMoves
    <3> QED BY <1>2, <3>2 DEF DeletionsGoOn, RequestsAreAbout, About
  <2>9. SessionTaken(d, t) /\ pc'[d] \notin {"sessions", "unlink", "forget", "ok"} => SessionTaken(d, t)'
    BY DEF SessionTaken
  <2> USE DEF DeletionGoesOn
  <2>3. CASE DeleteCheck(d)
    BY <2>2, <2>3, <2>9 DEF DeleteCheck, DeleteFetch
  <2>4. CASE DeleteProject(d)
    <3>1. ~DeleteFetch(d)
      BY <2>4 DEF DeleteProject, DeleteFetch
    <3>2. CASE project # saw[d]
      <4>1. PICK r \in Removes : pc[r] = "ok" /\ saw[r] = saw[t]
        BY <2>2, <3>1, <3>2 DEF RowsRefer, Removed
      <4>2. t \in on[r] => t \notin worktree
        BY <4>1 DEF RemovalsGoOn, RemovalTakes
      <4>3. t \in worktree => Unseen(t)'
        BY <1>0, <2>2, <3>1, <4>1, <4>2 DEF Unseen
      <4> QED BY <2>2, <2>4, <2>9, <3>1, <3>2, <4>3 DEF DeleteProject
    <3>3. CASE project = saw[d]
      BY <2>2, <2>4, <2>9, <3>1, <3>3 DEF DeleteProject
    <3> QED BY <3>2, <3>3
  <2>5. CASE Inspect(d)
    BY <2>2, <2>5, <2>9 DEF Inspect, DeleteFetch
  <2>6. CASE RemoveWorktree(d)
    BY <2>2, <2>6, <2>9 DEF RemoveWorktree, DeleteFetch
  <2>7. CASE CloseShell(d)
    BY <1>0, <2>2, <2>7 DEF CloseShell, DeleteFetch, SessionTaken
  <2>8. CASE SessionDelete(d)
    <3>1. pc[d] \in {"sessions", "unlink", "forget"} /\ ~DeleteFetch(d)
      BY <2>8, SessionMoves DEF DeleteFetch
    <3>2. SessionTaken(d, t)'
      BY <2>2, <2>8, <3>1, SessionTakenStep
    <3> QED BY <1>0, <2>2, <2>8, <3>1, <3>2, SessionMoves DEF Keeps
  <2>10. CASE DeleteRow(d)
    BY <1>0, <2>2, <2>10 DEF DeleteRow, DeleteFetch, SessionTaken
  <2> QED BY <1>2, <2>1, <2>3, <2>4, <2>5, <2>6, <2>7, <2>8, <2>10 DEF Delete
<1>3. ASSUME NEW r \in Requests, Step(r), NEW d \in Deletes, NEW t \in on'[d]
      PROVE  DeletionGoesOn(d, t)'
  <2>1. CASE r # d
    BY <1>1, <1>3, <2>1, StepMoves DEF Moves
  <2>2. CASE r = d /\ Cut(d)
    BY <1>1, <1>3, <2>2 DEF Cut
  <2> QED BY <1>2, <1>3, <2>1, <2>2 DEF Step
<1>4. CASE Crash \/ (\E s \in Starts : TurnAppends(s) \/ TurnEnds(s)) \/ UNCHANGED threadVars
  <2>1. \A d \in Deletes : /\ on'[d] = on[d] /\ todo'[d] = todo[d]
                           /\ pc'[d] \in {pc[d], "refused", "cut"}
    BY <1>4 DEF Crash, TurnAppends, TurnEnds, threadVars
  <2> QED BY <1>1, <2>1 DEF DeletionsGoOn
<1> QED BY <1>3, <1>4 DEF Next, DeletionsGoOn

LEMMA RemovalsGoOnStep ==
    ASSUME Typed, Typed', RowsRefer, RequestsAreAbout, RemovalsGoOn, [Next]_threadVars
    PROVE  RemovalsGoOn'
<1> USE KindsAssumption DEF rows, files, turns, live, mind, past, From
<1> /\ pc \in [Requests -> Steps] /\ Removes \subseteq Requests /\ worktree \subseteq Worktrees
    /\ on \in [Requests -> SUBSET Creates] /\ todo \in [Requests -> SUBSET Creates]
    /\ saw \in [Requests -> Projects \cup {None}] /\ Creates \subseteq Requests
    /\ \A r \in Requests : todo[r] \subseteq on[r]
  BY DEF Typed, TypeOK, Requests
<1> DEFINE Good(r) == RemovalGoesOn(r) /\ \A t \in on[r] : RemovalTakes(r, t)
<1>0. /\ Stays /\ Keeps
      /\ \A r \in Removes : /\ Good(r)
                            /\ \A t \in on[r] : pc[t] = "ok" /\ t \in Creates /\ saw[r] = saw[t]
  BY Staying DEF RemovalsGoOn, RequestsAreAbout, About
\* One that does not move, or ends.
<1>1. ASSUME NEW r \in Removes, on'[r] = on[r], todo'[r] = todo[r], saw'[r] = saw[r],
             pc'[r] \in {pc[r], "refused", "cut"}
      PROVE  Good(r)'
  <2>1. ASSUME NEW t \in on[r] PROVE RemovalTakes(r, t)'
    <3>1. /\ RemovalTakes(r, t)
          /\ t \in session' => t \in session
          /\ t \in worktree' => t \in worktree
          /\ row[t] = None => row'[t] = None
      BY <1>0 DEF Stays
    <3>2. SessionTaken(r, t)'
      BY <1>1, <3>1, SessionTakenStep DEF RemovalTakes
    <3> QED BY <1>0, <1>1, <3>1, <3>2 DEF RemovalTakes, Keeps
  <2>2. RemovalGoesOn(r)'
    BY <1>0, <1>1 DEF RemovalGoesOn, Current, Keeps
  <2> QED BY <1>1, <2>1, <2>2
<1>2. ASSUME NEW r \in Removes, Remove(r) PROVE Good(r)'
  <2> USE DEF RemovalGoesOn, RemovalTakes
  <2>0. todo[r] # {} => Current(r) \in todo[r]
    BY DEF Current
  <2>1. CASE RemoveFetch(r)
    <3>1. on[r] = {}
      BY <2>1 DEF RemoveFetch, RequestsAreAbout, About
    <3> QED BY <2>1, <3>1 DEF RemoveFetch
  <2>2. CASE RemoveList(r)
    BY <2>2 DEF RemoveList, SessionTaken
  <2>3. CASE RemoveInspect(r)
    BY <1>0, <2>3 DEF RemoveInspect, RemoveCheck, SessionTaken
  <2>4. CASE RemoveShell(r)
    <3>1. CASE pc'[r] = "loopWorktree"
      <4>1. Current(r)' = Current(r) /\ todo' = todo
        BY <2>4, <3>1 DEF RemoveShell, Current
      <4> QED BY <1>0, <2>0, <2>4, <3>1, <4>1 DEF RemoveShell, SessionTaken, Keeps
    <3>2. CASE pc'[r] # "loopWorktree"
      BY <1>0, <2>0, <2>4, <3>2 DEF RemoveShell, Others, SessionTaken, Keeps
    <3> QED BY <3>1, <3>2
  <2>5. CASE RemoveWorktrees(r)
    BY <1>0, <2>0, <2>5 DEF RemoveWorktrees, Others, SessionTaken
  <2>6. CASE RemoveLooped(r)
    BY <1>0, <2>6 DEF RemoveLooped, SessionTaken
  <2>7. CASE SessionDelete(r)
    <3>1. ASSUME NEW t \in on[r] PROVE SessionTaken(r, t)'
      BY <1>0, <2>7, <3>1, SessionTakenStep
    <3> QED BY <1>0, <2>7, <3>1, SessionMoves DEF Keeps
  <2>8. CASE RemoveRow(r)
    BY <1>0, <2>8 DEF RemoveRow, RowsRefer, SessionTaken
  <2> QED BY <1>2, <2>1, <2>2, <2>3, <2>4, <2>5, <2>6, <2>7, <2>8 DEF Remove
<1>3. ASSUME NEW x \in Requests, Step(x), NEW r \in Removes PROVE Good(r)'
  <2>1. CASE x # r
    BY <1>1, <1>3, <2>1, StepMoves DEF Moves
  <2>2. CASE x = r /\ Cut(r)
    BY <1>1, <1>3, <2>2 DEF Cut
  <2> QED BY <1>2, <1>3, <2>1, <2>2 DEF Step
<1>4. CASE Crash \/ (\E s \in Starts : TurnAppends(s) \/ TurnEnds(s)) \/ UNCHANGED threadVars
  <2>1. \A r \in Removes : /\ on'[r] = on[r] /\ todo'[r] = todo[r] /\ saw'[r] = saw[r]
                           /\ pc'[r] \in {pc[r], "refused", "cut"}
    BY <1>4 DEF Crash, TurnAppends, TurnEnds, threadVars
  <2> QED BY <1>1, <2>1 DEF RemovalsGoOn
<1> QED BY <1>3, <1>4 DEF Next, RemovalsGoOn

LEMMA UninstallationsGoOnStep ==
    ASSUME Typed, Typed', RowsRefer, RequestsAreAbout, RemovalsGoOn, UninstallationsGoOn,
           [Next]_threadVars
    PROVE  UninstallationsGoOn'
<1> USE KindsAssumption DEF rows, files, turns, live, mind, past, From
<1> /\ pc \in [Requests -> Steps] /\ Uninstalls \subseteq Requests
    /\ on \in [Requests -> SUBSET Creates] /\ todo \in [Requests -> SUBSET Creates]
    /\ saw \in [Requests -> Projects \cup {None}] /\ Creates \subseteq Requests
  BY DEF Typed, TypeOK, Requests
<1> DEFINE Good(u) == \A t \in on[u] : UninstallationGoesOn(u, t)
<1>0. /\ Stays /\ (AnyRemoved => AnyRemoved')
      /\ \A u \in Uninstalls : \A t \in on[u] :
            UninstallationGoesOn(u, t) /\ pc[t] = "ok" /\ t \in Creates /\ saw[u] = saw[t]
  BY Staying, Lasting DEF UninstallationsGoOn, RequestsAreAbout, About, AnyRemoved
\* One that does not move, or ends.
<1>1. ASSUME NEW u \in Uninstalls, on'[u] = on[u], todo'[u] = todo[u],
             pc'[u] \in {pc[u], "refused", "cut"}
      PROVE  Good(u)'
  BY <1>0, <1>1 DEF UninstallationGoesOn, Stays
<1>2. ASSUME NEW u \in Uninstalls, Uninstall(u) PROVE Good(u)'
  <2> USE DEF UninstallationGoesOn
  <2>0. todo[u] # {} => Current(u) \in todo[u]
    BY DEF Current
  <2>1. CASE UninstallList(u)
    BY <2>1 DEF UninstallList
  <2>2. CASE UninstallInspect(u)
    <3>1. \A t \in on[u] : project # saw[u] => AnyRemoved
      BY <1>0 DEF RowsRefer, Removed, AnyRemoved
    <3> QED BY <1>0, <2>2, <3>1 DEF UninstallInspect
  <2>3. CASE UninstallCheck(u)
    BY <1>0, <2>3 DEF UninstallCheck
  <2>4. CASE UninstallRemove(u)
    BY <1>0, <2>0, <2>4 DEF UninstallRemove, Others
  <2> QED BY <1>2, <2>1, <2>2, <2>3, <2>4 DEF Uninstall
<1>3. ASSUME NEW x \in Requests, Step(x), NEW u \in Uninstalls PROVE Good(u)'
  <2>1. CASE x # u
    BY <1>1, <1>3, <2>1, StepMoves DEF Moves
  <2>2. CASE x = u /\ Cut(u)
    BY <1>1, <1>3, <2>2 DEF Cut
  <2> QED BY <1>2, <1>3, <2>1, <2>2 DEF Step
<1>4. CASE Crash \/ (\E s \in Starts : TurnAppends(s) \/ TurnEnds(s)) \/ UNCHANGED threadVars
  <2>1. \A u \in Uninstalls : /\ on'[u] = on[u] /\ todo'[u] = todo[u]
                              /\ pc'[u] \in {pc[u], "refused", "cut"}
    BY <1>4 DEF Crash, TurnAppends, TurnEnds, threadVars
  <2> QED BY <1>1, <2>1 DEF UninstallationsGoOn
<1> QED BY <1>3, <1>4 DEF Next, UninstallationsGoOn

-----------------------------------------------------------------------------
\* A row that goes, goes last, or with a removal that has not seen its thread.
LEMMA RowGoes ==
    ASSUME Typed, RowsRefer, RequestsAreAbout, DeletionsGoOn, RemovalsGoOn, [Next]_threadVars,
           NEW t \in Creates, row[t] # None, row'[t] = None
    PROVE  Unseen(t)' \/ (t \notin session /\ t \in looked /\ (t \in worktree => Unseen(t)'))
<1> USE KindsAssumption DEF rows, files, turns, live, mind, past, From
<1> /\ pc \in [Requests -> Steps] /\ Removes \subseteq Requests /\ Deletes \subseteq Requests
    /\ row \in [Creates -> Projects \cup {None}] /\ Creates \subseteq Requests
    /\ pc[t] = "ok" /\ row[t] = saw[t] /\ (Unseen(t) => Unseen(t)')
  BY Staying, Lasting DEF Typed, TypeOK, Requests, RowsRefer
<1>1. ASSUME NEW d \in Deletes, DeleteRow(d)
      PROVE  t \in on[d] /\ pc[d] = "sessions" /\ todo[d] = {}
  BY <1>1 DEF DeleteRow
<1>2. ASSUME NEW d \in Deletes, DeleteRow(d)
      PROVE  t \notin session /\ t \in looked /\ (t \in worktree => Unseen(t)')
  BY <1>1, <1>2 DEF DeletionsGoOn, DeletionGoesOn, SessionTaken
<1>3. ASSUME NEW r \in Removes, RemoveRow(r)
      PROVE  Unseen(t)' \/ (t \notin session /\ t \in looked /\ t \notin worktree)
  <2>1. /\ pc[r] = "sessions" /\ todo[r] = {} /\ row[t] = saw[r] /\ pc'[r] = "ok"
        /\ saw' = saw /\ on' = on
    BY <1>3 DEF RemoveRow
  <2>2. CASE t \in on[r]
    BY <2>1, <2>2 DEF RemovalsGoOn, RemovalTakes, SessionTaken
  <2>3. CASE t \notin on[r]
    BY <2>1, <2>3 DEF Unseen
  <2> QED BY <2>2, <2>3
<1>4. ASSUME NEW r \in Requests, Step(r)
      PROVE  \/ r \in Deletes /\ DeleteRow(r)
             \/ r \in Removes /\ RemoveRow(r)
  <2>1. CASE r \in Creates /\ Create(r)
    <3>1. pc[r] \notin Ended /\ \A x \in Creates \ {r} : row'[x] = row[x]
      BY <2>1, CreateMoves DEF Moves
    <3> QED BY <3>1 DEF Ended
  <2> QED
    BY <1>4, <2>1, DeleteMoves, RemoveMoves, UninstallMoves, OthersMove DEF Step, Asks, AddProject
<1>5. CASE Crash \/ (\E s \in Starts : TurnAppends(s) \/ TurnEnds(s)) \/ UNCHANGED threadVars
  BY <1>5 DEF Crash, TurnAppends, TurnEnds, threadVars
<1> QED BY <1>2, <1>3, <1>4, <1>5 DEF Next

\* A creation ends well with its row.
LEMMA RowComes ==
    ASSUME Typed, RequestsAreAbout, RemovalsGoOn, RowsRefer, [Next]_threadVars, NEW t \in Creates,
           pc[t] # "ok", pc'[t] = "ok" \/ row'[t] # None
    PROVE  CreateRow(t) /\ pc'[t] = "ok" /\ row'[t] # None
<1> USE KindsAssumption DEF rows, files, turns, live, mind, past, From
<1> /\ pc \in [Requests -> Steps] /\ row \in [Creates -> Projects \cup {None}] /\ t \in Requests
    /\ row[t] = None
  BY DEF Typed, TypeOK, Requests, RowsRefer
<1>1. ASSUME NEW r \in Requests, Step(r) PROVE r = t /\ Create(t)
  <2>1. CASE r # t
    <3>1. pc'[t] = pc[t]
      BY <1>1, <2>1, StepMoves DEF Moves
    <3>2. row'[t] = None
      <4>1. CASE r \in Creates /\ Create(r)
        BY <2>1, <4>1, CreateMoves
      <4>2. CASE OnlyTakes(r)
        BY <4>2 DEF OnlyTakes
      <4>3. CASE UNCHANGED row
        BY <4>3
      <4> QED
        BY <1>1, <4>1, <4>2, <4>3, DeleteMoves, RemoveMoves, UninstallMoves, OthersMove
           DEF Step, Asks, AddProject
    <3> QED BY <3>1, <3>2
  <2>2. CASE r = t /\ Cut(t)
    BY <2>2 DEF Cut
  <2> QED BY <1>1, <2>1, <2>2 DEF Step
<1>2. CASE Crash \/ (\E s \in Starts : TurnAppends(s) \/ TurnEnds(s)) \/ UNCHANGED threadVars
  BY <1>2 DEF Crash, TurnAppends, TurnEnds, threadVars, Ended
<1>3. CASE CreateRow(t)
  BY <1>3 DEF CreateRow, RowsRefer
<1>4. CASE Create(t) /\ ~CreateRow(t)
  BY <1>4 DEF Create, CreateLookup, CreateWorktree, CreateSession, CleanSession, CleanWorktree, Cleaning
<1> QED BY <1>1, <1>2, <1>3, <1>4 DEF Next

\* A turn's start keeps its thread once it has one.
LEMMA StartKeepsThread ==
    ASSUME Typed, RequestsAreAbout, RemovalsGoOn, TurnsAreLate, [Next]_threadVars, NEW s \in Starts
    PROVE  \/ on'[s] = on[s] /\ (pc[s] # "idle" => pc'[s] # "idle")
           \/ s \notin turn \cup forgotten \cup late /\ pc'[s] = "start"
<1> USE KindsAssumption DEF rows, files, turns, live, mind, past, From
<1> pc \in [Requests -> Steps] /\ s \in Requests
  BY DEF Typed, TypeOK, Requests
<1>1. ASSUME NEW r \in Requests, Step(r)
      PROVE  \/ on'[s] = on[s] /\ (pc[s] # "idle" => pc'[s] # "idle")
             \/ s \notin turn \cup forgotten \cup late /\ pc'[s] = "start"
  <2>1. CASE r # s
    BY <1>1, <2>1, StepMoves DEF Moves
  <2>2. CASE r = s /\ pc[s] # "idle"
    BY <1>1, <2>2, OthersMove, StepMoves DEF Step, Asks, Moves
  <2>3. CASE r = s /\ pc[s] = "idle"
    BY <1>1, <2>3 DEF TurnsAreLate, Step, Fetch, TurnOpen, TurnStart, TurnStored, Cut
  <2> QED BY <2>1, <2>2, <2>3
<1>2. CASE Crash \/ (\E x \in Starts : TurnAppends(x) \/ TurnEnds(x)) \/ UNCHANGED threadVars
  BY <1>2 DEF Crash, TurnAppends, TurnEnds, threadVars
<1> QED BY <1>1, <1>2 DEF Next

\* Turns that begin after a deletion has looked are known as late.
LEMMA TurnsAreLateStep ==
    ASSUME Typed, Typed', RowsRefer, RequestsAreAbout, DeletionsGoOn, RemovalsGoOn,
           TurnsAreLate, [Next]_threadVars
    PROVE  TurnsAreLate'
<1> USE KindsAssumption DEF rows, files, turns, live, mind, past, From
<1> /\ pc \in [Requests -> Steps] /\ on \in [Requests -> SUBSET Creates] /\ late \subseteq Starts
    /\ turn \subseteq Starts /\ forgotten \subseteq Starts /\ stump \subseteq Creates
    /\ Creates \cup Starts \cup Opens \cup Deletes \cup Removes \cup Uninstalls \subseteq Requests
  BY DEF Typed, TypeOK, Requests
<1>0. /\ Stays /\ Keeps /\ \A s \in turn \cup forgotten \cup late : pc[s] # "idle"
      /\ \A s \in Starts : \A t \in on[s] : TurnIsLate(s, t) /\ pc[t] = "ok" /\ on[s] = {t}
      /\ \A t \in stump : t \notin session /\ pc[t] = "ok" /\ \E s \in late : t \in on[s]
      /\ shell \cap closed \subseteq lateShell
  BY Staying DEF TurnsAreLate, Rewritten, RequestsAreAbout, About
<1>1. \A s \in Starts : \/ on'[s] = on[s] /\ (pc[s] # "idle" => pc'[s] # "idle")
                        \/ s \notin turn \cup forgotten \cup late /\ pc'[s] = "start"
  BY StartKeepsThread
\* Steps after which no turn has begun and no deletion has looked.
<1>2. ASSUME turn' \subseteq turn, forgotten' \subseteq forgotten, looked' = looked, late' = late,
             stump' \subseteq stump, \A s \in Starts : pc'[s] = "append" => pc[s] = "append",
             \A t \in Creates : pc[t] = "ok" => (t \in session <=> t \in session'),
             shell' \cap closed' \subseteq lateShell'
      PROVE  TurnsAreLate'
  <2>1. \A s \in turn' \cup forgotten' \cup late' : pc'[s] # "idle"
    BY <1>0, <1>1, <1>2
  <2>2. ASSUME NEW s \in Starts, NEW t \in on'[s] PROVE TurnIsLate(s, t)'
    BY <1>0, <1>1, <1>2 DEF TurnIsLate
  <2>3. \A t \in stump' : t \notin session' /\ \E s \in late' : t \in on'[s]
    BY <1>0, <1>1, <1>2
  <2> QED BY <1>2, <2>1, <2>2, <2>3 DEF TurnsAreLate, Rewritten
<1>3. ASSUME NEW r \in Deletes \cup Removes, SessionDelete(r) PROVE TurnsAreLate'
  <2>0. /\ on' = on /\ late' = late /\ UNCHANGED <<shell, closed, lateShell, turn>>
        /\ \A s \in Starts : pc'[s] = pc[s]
    BY <1>3, SessionMoves, KindsAssumption DEF Moves, OnlyTakes
  <2>1. pc[r] \in {"unlink", "forget"} => Current(r) \in looked
    <3>1. pc[r] \in {"unlink", "forget"} => todo[r] # {} /\ todo[r] \subseteq on[r]
      BY DEF Typed, TypeOK
    <3>2. pc[r] \in {"unlink", "forget"} => \E t \in on[r] : SessionTaken(r, t)
      BY <3>1 DEF DeletionsGoOn, DeletionGoesOn, RemovalsGoOn, RemovalTakes
    <3> QED BY <3>2 DEF SessionTaken
  <2>2. ASSUME NEW s \in Starts, NEW t \in on[s] PROVE TurnIsLate(s, t)'
    <3>1. CASE FindSession(r)
      <4>1. s \in turn /\ ~Busy(t) => s \in forgotten
        BY DEF Busy
      <4> QED BY <1>0, <2>0, <3>1, <4>1 DEF FindSession, TurnIsLate
    <3>2. CASE Unlink(r)
      BY <1>0, <2>0, <2>1, <3>2 DEF Unlink, TurnIsLate
    <3>3. CASE Forget(r)
      BY <1>0, <2>0, <2>1, <3>3 DEF Forget, TurnIsLate
    <3> QED BY <1>3, <3>1, <3>2, <3>3 DEF SessionDelete
  <2>3. \A s \in turn' \cup forgotten' \cup late' : pc'[s] # "idle"
    <3>1. \A s \in forgotten' : s \in forgotten \/ pc[s] = "append" \/ s \in turn
      BY <1>3 DEF SessionDelete, FindSession, Unlink, Forget
    <3> QED BY <1>0, <2>0, <3>1, Typed' DEF Typed, TypeOK
  <2>4. stump' \subseteq stump /\ session' \subseteq session
    BY <1>3, SessionMoves DEF OnlyTakes
  <2>5. \A t \in stump' : t \notin session' /\ \E s \in late' : t \in on'[s]
    BY <1>0, <2>0, <2>4
  <2> QED BY <1>0, <2>0, <2>2, <2>3, <2>5 DEF TurnsAreLate, Rewritten
<1>4. ASSUME NEW s \in Starts, TurnOpen(s) PROVE TurnsAreLate'
  <2>1. /\ UNCHANGED <<session, stump, shell, turn, forgotten, looked, late, closed, lateShell, on>>
        /\ \A x \in Starts \ {s} : pc'[x] = pc[x]
        /\ pc'[s] = "append" => \A t \in on[s] : t \in session
        /\ pc'[s] # "idle"
    BY <1>4 DEF TurnOpen
  <2>2. ASSUME NEW x \in Starts, NEW t \in on'[x] PROVE TurnIsLate(x, t)'
    BY <1>0, <2>1 DEF TurnIsLate
  <2>3. \A x \in turn' \cup forgotten' \cup late' : pc'[x] # "idle"
    BY <1>0, <2>1
  <2> QED BY <1>0, <2>1, <2>2, <2>3 DEF TurnsAreLate, Rewritten
<1>5. ASSUME NEW s \in Starts, TurnStart(s) PROVE TurnsAreLate'
  <2>1. /\ UNCHANGED <<session, shell, looked, closed, lateShell, on>>
        /\ \A x \in Starts \ {s} : pc'[x] = pc[x]
        /\ pc[s] = "append" /\ pc'[s] \notin {"append", "idle"}
        /\ turn' \subseteq turn \cup {s} /\ forgotten' \subseteq forgotten
        /\ late \subseteq late' /\ late' \subseteq late \cup {s}
        /\ on[s] \subseteq looked => s \in late'
        /\ stump' \subseteq stump \cup (on[s] \ session)
    BY <1>5 DEF TurnStart
  <2>2. ASSUME NEW x \in Starts, NEW t \in on'[x] PROVE TurnIsLate(x, t)'
    BY <1>0, <2>1 DEF TurnIsLate
  <2>3. \A x \in turn' \cup forgotten' \cup late' : pc'[x] # "idle"
    BY <1>0, <2>1
  <2>4. ASSUME NEW t \in stump' PROVE t \notin session' /\ \E x \in late' : t \in on'[x]
    <3>1. CASE t \in stump
      BY <1>0, <2>1, <3>1
    <3>2. CASE t \in on[s] \ session
      BY <1>0, <2>1, <3>2 DEF TurnIsLate
    <3> QED BY <2>1, <3>1, <3>2
  <2> QED BY <1>0, <2>1, <2>2, <2>3, <2>4 DEF TurnsAreLate, Rewritten
<1>6. ASSUME NEW s \in Starts, TurnAppends(s) PROVE TurnsAreLate'
  <2>1. /\ UNCHANGED <<session, shell, looked, closed, lateShell, on, pc, turn, forgotten, late>>
        /\ s \in turn /\ stump' = stump \cup (on[s] \ session)
    BY <1>6 DEF TurnAppends
  <2>2. \A x \in Starts : \A t \in on'[x] : TurnIsLate(x, t)'
    BY <1>0, <2>1 DEF TurnIsLate
  <2>3. \A t \in stump' : t \notin session' /\ \E x \in late' : t \in on'[x]
    BY <1>0, <2>1 DEF TurnIsLate
  <2> QED BY <1>0, <2>1, <2>2, <2>3 DEF TurnsAreLate, Rewritten
<1>7. ASSUME NEW s \in Starts, TurnEnds(s) PROVE TurnsAreLate'
  BY <1>0, <1>2, <1>7 DEF TurnEnds
<1>8. ASSUME NEW o \in Opens, TerminalOpen(o) PROVE TurnsAreLate'
  <2>1. shell' \cap closed' \subseteq lateShell'
    BY <1>0, <1>8 DEF TerminalOpen
  <2>2. \A s \in Starts : pc'[s] = pc[s]
    BY <1>8 DEF TerminalOpen
  <2> QED BY <1>2, <1>8, <2>1, <2>2 DEF TerminalOpen
<1>9. ASSUME NEW c \in Creates, Create(c) PROVE TurnsAreLate'
  <2>1. /\ pc[c] # "ok" /\ \A s \in Starts : pc'[s] = pc[s]
        /\ UNCHANGED <<stump, live, looked, late, closed, lateShell>>
        /\ \A t \in Creates \ {c} : t \in session <=> t \in session'
    BY <1>9, CreateMoves DEF Moves, Ended
  <2> QED BY <1>0, <1>2, <2>1
<1>10. CASE Crash
  BY <1>0, <1>2, <1>10 DEF Crash, Ended
<1>11. CASE UNCHANGED threadVars
  BY <1>0, <1>2, <1>11 DEF threadVars
<1>12. ASSUME NEW r \in Requests, Step(r) PROVE TurnsAreLate'
  <2>1. CASE r \in Deletes /\ Delete(r) /\ ~SessionDelete(r)
    <3>1. /\ UNCHANGED <<session, stump, turn, forgotten, looked, late, lateShell>>
          /\ shell' \cap closed' \subseteq lateShell'
      BY <1>0, <2>1
         DEF Delete, DeleteFetch, DeleteCheck, DeleteProject, Inspect, RemoveWorktree, CloseShell,
             DeleteRow
    <3>2. \A s \in Starts : pc'[s] = pc[s]
      BY <2>1, DeleteMoves DEF Moves
    <3> QED BY <1>2, <3>1, <3>2
  <2>2. CASE r \in Removes /\ Remove(r) /\ ~SessionDelete(r)
    <3>1. /\ UNCHANGED <<session, stump, turn, forgotten, looked, late, lateShell>>
          /\ shell' \cap closed' \subseteq lateShell'
      BY <1>0, <2>2
         DEF Remove, RemoveFetch, RemoveList, RemoveInspect, RemoveCheck, RemoveShell,
             RemoveWorktrees, RemoveLooped, RemoveRow
    <3>2. \A s \in Starts : pc'[s] = pc[s]
      BY <2>2, RemoveMoves DEF Moves
    <3> QED BY <1>2, <3>1, <3>2
  <2>3. CASE r \in Uninstalls /\ Uninstall(r)
    <3>1. /\ UNCHANGED <<session, stump, live, past>> /\ \A s \in Starts : pc'[s] = pc[s]
      BY <2>3, UninstallMoves DEF Moves
    <3> QED BY <1>0, <1>2, <3>1
  <2>4. CASE r \in Adds /\ AddProject(r)
    BY <1>0, <1>2, <2>4 DEF AddProject
  <2>5. CASE Fetch(r) \/ TurnStored(r)
    BY <1>0, <1>2, <2>5 DEF Fetch, TurnStored
  <2>6. CASE Cut(r)
    BY <1>0, <1>2, <2>6 DEF Cut
  <2> QED
    BY <1>3, <1>4, <1>5, <1>8, <1>9, <1>12, <2>1, <2>2, <2>3, <2>4, <2>5, <2>6
       DEF Step, Delete, Remove
<1> QED BY <1>6, <1>7, <1>10, <1>11, <1>12 DEF Next

\* Only turn.start begins a turn.
LEMMA OnlyStartsBegin ==
    ASSUME Typed, RequestsAreAbout, RemovalsGoOn, [Next]_threadVars, NEW s \in turn' \ turn
    PROVE  TurnStart(s)
<1> USE DEF rows, files, turns, live, mind, past
<1>1. ASSUME NEW r \in Requests, Step(r) PROVE TurnStart(s)
  <2>1. CASE Asks(r)
    BY <2>1 DEF Asks, Fetch, TurnOpen, TurnStart, TurnStored, TerminalOpen, Cut
  <2> QED
    BY <1>1, <2>1, CreateMoves, DeleteMoves, RemoveMoves, UninstallMoves
       DEF Step, Asks, OnlyTakes, AddProject
<1>2. CASE Crash \/ (\E x \in Starts : TurnAppends(x) \/ TurnEnds(x)) \/ UNCHANGED threadVars
  BY <1>2 DEF Crash, TurnAppends, TurnEnds, threadVars
<1> QED BY <1>1, <1>2 DEF Next

LEMMA NothingLeftStep ==
    ASSUME Typed, Typed', RowsRefer, RequestsAreAbout, CreationsGoOn, DeletionsGoOn, RemovalsGoOn,
           TurnsAreLate, NothingLeft, [Next]_threadVars
    PROVE  NothingLeft'
<1>0. /\ Stays /\ Keeps /\ session' \subseteq Creates /\ worktree' \subseteq Creates
      /\ turn \subseteq Starts /\ turn' \subseteq Starts
      /\ Creates \cup Starts \subseteq Requests
      /\ on \in [Requests -> SUBSET Creates] /\ on' \in [Requests -> SUBSET Creates]
      /\ \A t \in Creates : pc[t] = "ok" /\ Unseen(t) => Unseen(t)'
  BY Staying, Lasting, WorktreesAssumption DEF Typed, TypeOK, Requests
<1>1. ASSUME NEW t \in session' \cup worktree', row'[t] = None, pc'[t] = "ok" PROVE Unseen(t)'
  <2>1. t \in Creates
    BY <1>0
  <2>2. pc[t] = "ok"
    BY <1>1, <2>1, RowComes
  <2>3. t \in session \cup worktree
    BY <1>0, <2>1, <2>2 DEF Stays
  <2> QED BY <1>0, <1>1, <2>1, <2>2, <2>3, RowGoes DEF NothingLeft
<1>2. ASSUME NEW s \in turn', NEW t \in on'[s] PROVE s \in late' \/ row'[t] # None \/ Unseen(t)'
  <2>1. s \in Starts /\ t \in Creates
    BY <1>0
  <2>2. CASE s \in turn /\ t \in on[s]
    BY <1>0, <1>2, <2>1, <2>2, RowGoes
       DEF NothingLeft, Keeps, TurnsAreLate, TurnIsLate, RequestsAreAbout, About
  <2>3. CASE s \in turn /\ t \notin on[s]
    BY <1>2, <2>1, <2>3, StartKeepsThread
  <2>4. CASE s \notin turn
    <3>1. TurnStart(s)
      BY <1>2, <2>1, <2>4, OnlyStartsBegin
    <3>2. /\ on' = on /\ row' = row /\ pc[s] = "append" /\ session' = session
          /\ on[s] \subseteq looked => s \in late'
      BY <3>1 DEF TurnStart, From, rows, mind
    <3>3. /\ t \in on[s] /\ pc[t] = "ok" /\ on[s] = {t} /\ (t \in session \/ t \in looked)
      BY <1>0, <1>2, <2>1, <3>2 DEF TurnsAreLate, TurnIsLate, RequestsAreAbout, About
    <3> QED BY <1>0, <2>1, <3>2, <3>3 DEF NothingLeft
  <2> QED BY <2>2, <2>3, <2>4
<1> QED BY <1>1, <1>2 DEF NothingLeft

\* A request keeps the threads it is about.
LEMMA AboutGrows ==
    ASSUME Typed, RequestsAreAbout, RemovalsGoOn, [Next]_threadVars,
           NEW r \in Requests, NEW t \in on[r]
    PROVE  t \in on'[r]
<1>1. pc[r] # "idle" /\ (r \in Removes => pc[r] # "project")
  BY DEF RequestsAreAbout, About, RemovalsGoOn, RemovalGoesOn
<1>2. ASSUME NEW x \in Requests, Step(x) PROVE on'[r] = on[r]
  <2>1. CASE x # r
    BY <1>2, <2>1, StepMoves DEF Moves
  <2>2. CASE x = r
    BY <1>1, <1>2, <2>2, CreateMoves, DeleteMoves, RemoveMoves, UninstallMoves, OthersMove
       DEF Step, Asks, AddProject, mind
  <2> QED BY <2>1, <2>2
<1>3. CASE Crash \/ (\E s \in Starts : TurnAppends(s) \/ TurnEnds(s)) \/ UNCHANGED threadVars
  BY <1>3 DEF Crash, TurnAppends, TurnEnds, threadVars, mind
<1> QED BY <1>2, <1>3 DEF Next

LEMMA RowsAreWholeStep ==
    ASSUME Typed, Typed', RowsRefer, RequestsAreAbout, CreationsGoOn, DeletionsGoOn, RemovalsGoOn,
           DeletionsGoOn', RemovalsGoOn', RowsAreWhole, [Next]_threadVars
    PROVE  RowsAreWhole'
<1> SUFFICES ASSUME NEW t \in Creates, row'[t] # None, ~(Workspace(t)' /\ t \in session')
             PROVE  \/ \E d \in Deletes \cup Removes : t \in on'[d] /\ pc'[d] # "ok"
                    \/ \E u \in Uninstalls : t \in on'[u]
  BY DEF RowsAreWhole
<1> USE KindsAssumption DEF rows, files, turns, live, mind, past, From
<1>0. Deletes \cup Removes \cup Uninstalls \subseteq Requests /\ t \in Requests
  BY DEF Requests
\* Whoever is about a thread that keeps its row has not ended well.
<1>1. ASSUME NEW d \in Deletes \cup Removes, t \in on'[d] PROVE pc'[d] # "ok"
  BY <1>1 DEF DeletionsGoOn, DeletionGoesOn, RemovalsGoOn, RemovalTakes
<1>2. CASE pc[t] # "ok"
  <2>1. CreateRow(t) /\ pc'[t] = "ok"
    BY <1>2, RowComes
  <2> QED BY <2>1 DEF CreateRow, CreationsGoOn, CreationGoesOn, Workspace
<1>3. CASE row[t] # None /\ ~(Workspace(t) /\ t \in session)
  <2>1. \/ \E d \in Deletes \cup Removes : t \in on[d]
        \/ \E u \in Uninstalls : t \in on[u]
    BY <1>3 DEF RowsAreWhole
  <2> QED BY <1>0, <1>1, <2>1, AboutGrows
<1>4. CASE Workspace(t) /\ t \in session /\ pc[t] = "ok"
  <2>1. ASSUME NEW r \in Requests, Step(r)
        PROVE  r \in Deletes \cup Removes \cup Uninstalls /\ t \in on[r]
    <3>1. (t \in session \ session') \/ (t \in worktree \ worktree')
      BY <1>4 DEF Workspace
    <3>2. CASE r \in Creates /\ Create(r)
      <4>1. r # t
        BY <1>4, <3>2, CreateMoves DEF Moves, Ended
      <4>2. (t \in session => t \in session') /\ (t \in worktree => t \in worktree')
        BY <3>2, <4>1, CreateMoves
      <4> QED BY <3>1, <4>2
    <3>3. CASE UNCHANGED <<session, worktree>>
      BY <3>1, <3>3
    <3>4. ASSUME OnlyTakes(r) PROVE t \in on[r]
      BY <3>1, <3>4 DEF OnlyTakes
    <3> QED
      BY <2>1, <3>2, <3>3, <3>4, DeleteMoves, RemoveMoves, UninstallMoves, OthersMove
         DEF Step, Asks, AddProject
  <2>2. ASSUME Crash \/ (\E s \in Starts : TurnAppends(s) \/ TurnEnds(s)) \/ UNCHANGED threadVars PROVE FALSE
    BY <1>4, <2>2 DEF Crash, TurnAppends, TurnEnds, threadVars, Workspace
  <2>3. PICK r \in Requests : r \in Deletes \cup Removes \cup Uninstalls /\ t \in on[r]
    BY <2>1, <2>2 DEF Next
  <2> QED BY <1>1, <2>3, AboutGrows
<1>5. pc[t] = "ok" => row[t] # None
  BY Staying DEF Stays
<1> QED BY <1>2, <1>3, <1>4, <1>5

-----------------------------------------------------------------------------
\* The strengthening is inductive and gives what a run checks.
LEMMA Step_IInv == IInv /\ [Next]_threadVars => IInv'
<1> SUFFICES ASSUME IInv, [Next]_threadVars PROVE IInv'
  OBVIOUS
<1>1. Typed'
  BY TypedStep DEF IInv
<1>2. RowsRefer' /\ CreationsGoOn' /\ RequestsAreAbout' /\ RemovalsGoOn'
  BY <1>1, RowsReferStep, CreationsGoOnStep, RequestsAreAboutStep, RemovalsGoOnStep DEF IInv
<1>3. DeletionsGoOn' /\ UninstallationsGoOn' /\ TurnsAreLate' /\ NothingLeft'
  BY <1>1, DeletionsGoOnStep, UninstallationsGoOnStep, TurnsAreLateStep, NothingLeftStep DEF IInv
<1>4. RowsAreWhole'
  BY <1>1, <1>2, <1>3, RowsAreWholeStep DEF IInv
<1> QED BY <1>1, <1>2, <1>3, <1>4 DEF IInv

LEMMA IInv_Safe == IInv => ThreadsSafe
<1> SUFFICES ASSUME IInv PROVE ThreadsSafe
  OBVIOUS
<1>0. /\ session \subseteq Creates /\ stump \subseteq Creates /\ worktree \subseteq Creates
      /\ shell \cap closed \subseteq lateShell /\ \A t \in stump : t \notin session /\ Rewritten(t)
  BY WorktreesAssumption DEF IInv, Typed, TypeOK, TurnsAreLate
<1>1. NothingLeftBehind
  <2> SUFFICES ASSUME NEW t \in session \cup stump \cup worktree, row[t] = None, pc[t] \in Ended
               PROVE  \/ pc[t] = "cut" \/ t \in uncleaned \/ Unseen(t)
                      \/ t \notin session \cup worktree /\ Rewritten(t)
    BY DEF NothingLeftBehind
  <2>1. CASE t \in session \cup worktree
    BY <1>0, <2>1 DEF IInv, NothingLeft, CreationsGoOn, CreationGoesOn, Ended
  <2> QED BY <1>0, <2>1
<1>2. TurnsKeepThreads
  BY <1>0 DEF IInv, NothingLeft, TurnsKeepThreads
<1>3. DeletionsAreWhole
  <2>1. \A u \in Uninstalls : \A t \in on[u] :
           pc[u] = "ok" => t \notin worktree \/ \E r \in Removes : pc[r] = "ok"
    BY DEF IInv, UninstallationsGoOn, UninstallationGoesOn, AnyRemoved
  <2>2. \A d \in Deletes : \A t \in on[d] :
           pc[d] = "ok" => /\ row[t] = None /\ t \notin session /\ (t \in worktree => Unseen(t))
                           /\ t \in closed
    BY DEF IInv, DeletionsGoOn, DeletionGoesOn, SessionTaken
  <2>3. \A d \in Removes : \A t \in on[d] :
           pc[d] = "ok" => row[t] = None /\ t \notin session /\ t \notin worktree /\ t \in closed
    BY DEF IInv, RemovalsGoOn, RemovalTakes, SessionTaken
  <2> QED BY <1>0, <2>1, <2>2, <2>3 DEF DeletionsAreWhole
<1> QED BY <1>1, <1>2, <1>3 DEF IInv, Typed, ThreadsSafe

\* Nothing is left behind without a row, rows are whole, a turn keeps its thread,
\* and what was answered deleted is gone, for any requests in any order, cut off
\* anywhere, with crashes (the thread handlers of runtime_server.py).
THEOREM ThreadsAreSafe == Spec => []ThreadsSafe
<1>1. Init => IInv
  BY InitIInv
<1>2. IInv /\ [Next]_threadVars => IInv'
  BY Step_IInv
<1>3. IInv => ThreadsSafe
  BY IInv_Safe
<1> QED BY <1>1, <1>2, <1>3, PTL DEF Spec

=============================================================================
