----------------------------- MODULE QuitGate ------------------------------
(***************************************************************************)
(* Quitting QuiltSync while it writes working files: the gate that lets a  *)
(* quit through or defers it to a prompt, the window that raises the       *)
(* prompt, and the calls and timers between them, which may be late, lost  *)
(* or out of order.                                                        *)
(*                                                                         *)
(* The gate has one lock, so each of its methods is one step.  The event   *)
(* that raises the prompt, the window's acknowledgement and its answers    *)
(* are calls on their way; nothing cancels an armed grace timer.  The      *)
(* window's page may be reloaded at any time, which takes its prompt off   *)
(* the screen.  Writes are the guards of a pull, a reset, a download and a *)
(* create, several at once.                                                *)
(***************************************************************************)
EXTENDS Naturals, FiniteSets

CONSTANTS
    MaxWrites,   \* bound: writes at once
    MaxRequests, \* bound: quits requested
    MaxAnswers   \* bound: clicks on Stay

ASSUME QuitBounds == MaxWrites \in Nat /\ MaxRequests \in Nat /\ MaxAnswers \in Nat

VARIABLES
    gate,      \* the pending quit
    writes,    \* how many writes are in flight
    listens,   \* does a window or a tab listen for events?
    prompts,   \* the generations of prompt events on their way to the window
    acks,      \* the generations acknowledged, on their way back
    stays,     \* how many clicks on Stay are on their way back
    orphans,   \* those of them whose page is gone
    timers,    \* the generations whose grace timer is armed
    visible,   \* is the prompt on screen?
    forgotten, \* history: the last request whose prompt a reload took away
    exit,      \* how the app quit, "no" before
    requests, answers

quitPage == <<visible, stays, orphans, forgotten>>
quitVars == <<gate, writes, listens, prompts, acks, timers, exit, requests, answers, quitPage>>

Runs == exit = "no"

QuitInit ==
    /\ gate = [pending |-> FALSE, shown |-> FALSE, generation |-> 0]
    /\ writes = 0
    /\ listens \in BOOLEAN
    /\ prompts = {} /\ acks = {} /\ timers = {}
    /\ visible = FALSE /\ stays = 0 /\ orphans = 0 /\ forgotten = 0
    /\ exit = "no"
    /\ requests = 0 /\ answers = 0

-----------------------------------------------------------------------------
(* Writes *)

Write ==
    /\ Runs /\ writes < MaxWrites
    /\ writes' = writes + 1
    /\ UNCHANGED <<gate, listens, prompts, acks, timers, exit, requests, answers, quitPage>>

WriteEnds ==
    /\ Runs /\ writes > 0
    /\ writes' = writes - 1
    /\ UNCHANGED <<gate, listens, prompts, acks, timers, exit, requests, answers, quitPage>>

ApplyInProgress == writes > 0

-----------------------------------------------------------------------------
(* The gate *)

Deferred == [pending |-> TRUE, shown |-> FALSE, generation |-> gate.generation + 1]

\* Quit is clicked: go, ask, or wait for the answer already asked for.
Request ==
    /\ Runs /\ requests < MaxRequests
    /\ requests' = requests + 1
    /\ IF gate.pending THEN UNCHANGED <<gate, prompts, timers, exit>>
       ELSE IF ~ApplyInProgress THEN exit' = "idle" /\ UNCHANGED <<gate, prompts, timers>>
       ELSE /\ gate' = Deferred
            /\ IF listens
               THEN /\ prompts' = prompts \cup {gate.generation + 1}
                    /\ timers' = timers \cup {gate.generation + 1}
                    /\ UNCHANGED exit
               ELSE exit' = "unasked" /\ UNCHANGED <<prompts, timers>>
    /\ UNCHANGED <<writes, listens, acks, answers, quitPage>>

\* Mutant: a late acknowledgement counts for the request now outstanding.
Shown_Any(g) == [gate EXCEPT !.shown = TRUE]

Shown(g) == IF gate.generation = g THEN [gate EXCEPT !.shown = TRUE] ELSE gate

NoteShown(g) ==
    /\ Runs /\ g \in acks
    /\ acks' = acks \ {g}
    /\ gate' = Shown(g)
    /\ UNCHANGED <<writes, listens, prompts, timers, exit, requests, answers, quitPage>>

\* Mutant: the request stays pending.
Dismissed_StillPending == [gate EXCEPT !.shown = FALSE, !.generation = @ + 1]

Dismissed == [pending |-> FALSE, shown |-> FALSE, generation |-> gate.generation + 1]

Cancel ==
    /\ Runs /\ stays > 0
    /\ stays' = stays - 1
    /\ gate' = Dismissed
    /\ UNCHANGED <<writes, listens, prompts, acks, timers, visible, orphans, forgotten, exit, requests, answers>>

\* Mutant: a timer reads the outstanding request, whichever it is.
Unanswerable_Any(g) == gate.pending /\ ~gate.shown

Unanswerable(g) == gate.generation = g /\ gate.pending /\ ~gate.shown

GraceEnds(g) ==
    /\ Runs /\ g \in timers
    /\ timers' = timers \ {g}
    /\ exit' = IF Unanswerable(g) THEN "unasked" ELSE exit
    /\ UNCHANGED <<gate, writes, listens, prompts, acks, requests, answers, quitPage>>

-----------------------------------------------------------------------------
(* The window *)

\* The event reaches the window, which shows the prompt and says so.
Raise(g) ==
    /\ Runs /\ g \in prompts
    /\ prompts' = prompts \ {g}
    /\ visible' = TRUE
    /\ acks' = acks \cup {g}
    /\ UNCHANGED <<gate, writes, listens, stays, orphans, forgotten, timers, exit, requests, answers>>

\* A tab listens, or the window is wedged: nobody shows it.
Drop(g) ==
    /\ Runs /\ g \in prompts
    /\ prompts' = prompts \ {g}
    /\ UNCHANGED <<gate, writes, listens, acks, timers, exit, requests, answers, quitPage>>

LoseAck(g) ==
    /\ Runs /\ g \in acks
    /\ acks' = acks \ {g}
    /\ UNCHANGED <<gate, writes, listens, prompts, timers, exit, requests, answers, quitPage>>

Stay ==
    /\ Runs /\ visible /\ answers < MaxAnswers
    /\ visible' = FALSE
    /\ stays' = stays + 1
    /\ answers' = answers + 1
    /\ UNCHANGED <<gate, writes, listens, prompts, acks, timers, orphans, forgotten, exit, requests>>

\* The call fails, or only its reply is lost: the prompt comes up again.
StayFails ==
    /\ Runs /\ stays > 0
    /\ stays' = stays - 1
    /\ visible' = TRUE
    /\ gate' \in {gate, Dismissed}
    /\ UNCHANGED <<writes, listens, prompts, acks, timers, orphans, forgotten, exit, requests, answers>>

\* The window's page is reloaded: its prompt is gone, and the gate is not told.
Reload ==
    /\ Runs
    /\ visible' = FALSE
    /\ stays' = 0
    /\ orphans' = orphans + stays
    /\ forgotten' = IF gate.pending /\ (visible \/ stays > 0) THEN gate.generation ELSE forgotten
    /\ UNCHANGED <<gate, writes, listens, prompts, acks, timers, exit, requests, answers>>

\* A click on Stay of the page before arrives or not: no page hears its reply.
OrphanEnds ==
    /\ Runs /\ orphans > 0
    /\ orphans' = orphans - 1
    /\ gate' \in {gate, Dismissed}
    /\ UNCHANGED <<writes, listens, prompts, acks, timers, visible, stays, forgotten, exit, requests, answers>>

QuitAnyway ==
    /\ Runs /\ visible
    /\ exit' = "confirmed"
    /\ UNCHANGED <<gate, writes, listens, prompts, acks, timers, requests, answers, quitPage>>

-----------------------------------------------------------------------------

Generations == 1..MaxRequests + MaxAnswers

QuitNext ==
    \/ Write \/ WriteEnds \/ Request \/ Cancel \/ Stay \/ StayFails \/ QuitAnyway
    \/ Reload \/ OrphanEnds
    \/ \E g \in Generations : NoteShown(g) \/ GraceEnds(g) \/ Raise(g) \/ Drop(g) \/ LoseAck(g)

\* A timer rings, a call on its way arrives or fails, the window reads its
\* events; nobody must answer.
QuitFairness ==
    /\ WF_quitVars(Cancel \/ StayFails) /\ WF_quitVars(OrphanEnds)
    /\ \A g \in Generations :
         WF_quitVars(GraceEnds(g)) /\ WF_quitVars(NoteShown(g) \/ LoseAck(g)) /\ WF_quitVars(Raise(g) \/ Drop(g))

QuitSpec == QuitInit /\ [][QuitNext]_quitVars /\ QuitFairness

-----------------------------------------------------------------------------
(* Properties *)

QuitTypeOK ==
    /\ gate \in [pending : BOOLEAN, shown : BOOLEAN, generation : Generations \cup {0}]
    /\ writes \in 0..MaxWrites /\ listens \in BOOLEAN
    /\ prompts \cup acks \cup timers \subseteq Generations
    /\ stays \in 0..MaxAnswers /\ orphans \in 0..MaxAnswers
    /\ visible \in BOOLEAN /\ forgotten \in Generations \cup {0}
    /\ exit \in {"no", "idle", "unasked", "confirmed"}
    /\ requests \in 0..MaxRequests /\ answers \in 0..MaxAnswers

\* The prompt of the outstanding request is on screen, being answered, or was
\* taken away by a reload.
Asked == visible \/ stays > 0 \/ gate.generation = forgotten

\* INVARIANT.  A deferred quit is never left alone: its own grace timer still
\* runs, or its prompt was acknowledged and is on screen or being answered, or
\* was until a reload of the page.  An acknowledgement of a dismissed prompt
\* never vouches for a later one (quit.rs `note_shown`, tray.rs
\* `prompt_before_quit`).
PendingIsAttended ==
    Runs /\ gate.pending =>
        \/ ~gate.shown /\ gate.generation \in timers
        \/ gate.shown /\ Asked

\* A request or an answer makes a generation, once.
GenerationsCount ==
    stays + orphans <= answers /\ gate.generation + stays + orphans <= requests + answers

\* No call or timer speaks of a generation to come.
NoneToCome == \A g \in prompts \cup acks \cup timers : g <= gate.generation

\* An acknowledgement on its way is of a prompt on screen, answered or taken away.
AcksAreOfPrompts == gate.pending /\ gate.generation \in acks => Asked

QuitInv ==
    /\ QuitTypeOK /\ PendingIsAttended
    /\ GenerationsCount /\ NoneToCome /\ AcksAreOfPrompts

\* ACTION PROPERTY.  The fallback quits for want of a prompt only once the
\* outstanding request had its whole grace: a timer of a dismissed one does not
\* cut it short (quit.rs `unanswerable`, `cancel`).
FullGrace ==
    [][exit = "no" /\ exit' = "unasked" /\ gate.pending => gate.generation \notin timers']_quitVars

\* LIVENESS.  A click on Quit is heard: the app quits or a prompt comes up, unless
\* an earlier prompt's answer ends the request it joined, or a reload of the page
\* takes its prompt away (tray.rs `prompt_before_quit`, quit_prompt.rs).
QuitIsHeard ==
    gate.pending ~> exit # "no" \/ visible \/ ~gate.pending \/ gate.generation = forgotten
=============================================================================
