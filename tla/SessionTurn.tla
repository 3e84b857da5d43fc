---- MODULE SessionTurn ----
(***************************************************************************)
(* The conversation of a session and the working tree it talks about.      *)
(*                                                                         *)
(* A session keeps two lists: messages is what the provider is sent (it is *)
(* compacted), history is the transcript shown to the user.  A turn pushes *)
(* the prompt onto both, may compact the messages, streams steps that edit *)
(* files, and leaves both lists with its reply, with what was done before  *)
(* it broke off, or as they were before it.  Checkpoints remember the tree *)
(* and the lengths of both lists, for /undo, /undo <n> and /redo.  A save  *)
(* writes both lists in one generation; a crash or a quit resumes from the *)
(* last one.                                                               *)
(*                                                                         *)
(* What a message says is abstracted to tells, a set of facts: <<t, 0>> is *)
(* the prompt of turn t, <<t, k>> its k-th edit.  A summary tells all that *)
(* it replaces.                                                            *)
(***************************************************************************)
EXTENDS Naturals, Sequences, SequencesExt

CONSTANTS
  Keep,         \* COMPACT_KEEP_RECENT, messages a compaction leaves alone
  MaxTurns,     \* bound: prompts
  MaxSteps,     \* bound: steps of a turn that edit a file
  MaxRewinds,   \* bound: /undo and /redo commands
  MaxShrinks,   \* bound: compactions and clears
  MaxGoalSaves, \* bound: saves that setting a goal starts
  MaxCrashes    \* bound: crashes and quits

ASSUME SessionAssumption ==
  /\ Keep \in Nat \ {0}
  /\ {MaxTurns, MaxSteps, MaxRewinds, MaxShrinks, MaxGoalSaves, MaxCrashes} \subseteq Nat

VARIABLES
  messages,    \* #modelMessages
  history,     \* #history
  stage,       \* where run() is
  mode,        \* "execute" turns take a checkpoint and may edit
  ok,          \* the turn ended with a reply: neither aborted nor failed
  userRef,     \* userMsgRef: the message a rollback may take back
  committed,   \* #committedSteps
  open,        \* edits of the step that has not ended
  tree,        \* the edits that are in the working tree
  checkpoints, \* #list of the checkpoint manager, newest last
  redo,        \* #redo, newest last
  disk,        \* the committed generation
  turns        \* prompts so far; the number of the current turn

\* History: which conversation the lengths in a checkpoint are about, what
\* the messages no longer tell for a reason, whether anything went out of step.
VARIABLES epoch, epochs, forgot, intact, rewinds, goals, crashes

lists == <<messages, history>>
running == <<mode, ok, userRef, committed, open>>
undoing == <<checkpoints, redo>>
storing == <<disk, goals, crashes>>
told == <<epoch, epochs, forgot, intact, rewinds>>
vars == <<lists, stage, running, tree, undoing, storing, turns, told>>

Facts == (1..MaxTurns) \X (0..MaxSteps)
NoEpoch == MaxShrinks + 1
NoMessage == [role |-> "none", turn |-> 0, tells |-> {}]
Said(role, tells) == [role |-> role, turn |-> turns, tells |-> tells]
Shown(role) == [role |-> role, turn |-> turns]

\* What a list of messages tells.
Known(list) == UNION {list[i].tells : i \in DOMAIN list}
Upto(list, n) == SubSeq(list, 1, IF n < Len(list) THEN n ELSE Len(list))
Mark == [messages |-> Len(messages), history |-> Len(history)]

-----------------------------------------------------------------------------
(* Compaction *)

\* Mutant of Cut: it is not moved back from the result of a tool.
CutAnywhere(list) ==
  LET keep == IF Len(list) <= Keep THEN 1 ELSE Keep
  IN  IF Len(list) < 3 THEN 0 ELSE Len(list) - keep

\* The cut before the last keep messages (all but one in an emergency), moved
\* back until the kept part does not begin with the result of a tool.
Cut(list) ==
  LET keep == IF Len(list) <= Keep THEN 1 ELSE Keep
      starts == {c \in 1..(Len(list) - keep) : list[c + 1].role # "tool"}
  IN  IF Len(list) < 3 \/ starts = {} THEN 0 ELSE CHOOSE c \in starts : \A d \in starts : d <= c

\* Mutant of Compacted: the summary leads as a system message.
CompactedAsSystem(list) ==
  LET cut == Cut(list)
  IN  <<[role |-> "system", turn |-> 0, tells |-> Known(SubSeq(list, 1, cut))]>>
        \o SubSeq(list, cut + 1, Len(list))

\* The summary is folded into a leading prompt, or leads as a prompt of its own.
Compacted(list) ==
  LET cut == Cut(list)
      past == Known(SubSeq(list, 1, cut))
      recent == SubSeq(list, cut + 1, Len(list))
  IN  IF recent[1].role = "user"
      THEN <<[recent[1] EXCEPT !.tells = @ \cup past]>> \o Tail(recent)
      ELSE <<[role |-> "user", turn |-> 0, tells |-> past]>> \o recent

\* The list is replaced: lengths remembered before are about another one.
Shrink(list) ==
  /\ epochs < MaxShrinks
  /\ messages' = list
  /\ epochs' = epochs + 1
  /\ epoch' = epochs + 1

-----------------------------------------------------------------------------
(* What is saved *)

\* A save writes both lists as they are.  The rest is history: whether a turn was
\* running, the last turn that had ended, and what a resumed session cannot know.
InTurn == stage \in {"prompted", "prepared", "streaming", "ending"}
Snapshot ==
  [messages |-> messages, history |-> history, whole |-> ~InTurn,
   turn |-> IF InTurn THEN turns - 1 ELSE turns,
   epoch |-> epoch, forgot |-> forgot, rewinds |-> rewinds]

SessionInit ==
  /\ messages = <<>> /\ history = <<>> /\ stage = "idle"
  /\ mode = "execute" /\ ok = TRUE /\ userRef = NoMessage
  /\ committed = <<>> /\ open = {} /\ tree = {}
  /\ checkpoints = <<>> /\ redo = <<>>
  /\ turns = 0
  /\ epoch = 0 /\ epochs = 0 /\ forgot = {} /\ intact = TRUE
  /\ rewinds = 0 /\ goals = 0 /\ crashes = 0
  /\ disk = Snapshot

-----------------------------------------------------------------------------
(* A turn *)

\* Between turns nothing reads the variables of the last one.
NoTurn ==
  /\ mode' = "execute" /\ ok' = TRUE /\ userRef' = NoMessage
  /\ committed' = <<>> /\ open' = {}

Checkpoint(green) ==
  [tree |-> tree, mark |-> Mark, green |-> green, epoch |-> epoch]

\* A turn extends the lists: lengths beyond them, of a tail that a /redo did not
\* bring back or a crash lost, no longer mean what they did (history).
Overtaken(cps) ==
  [i \in DOMAIN cps |->
     IF cps[i].mark.messages > Len(messages) \/ cps[i].mark.history > Len(history)
     THEN [cps[i] EXCEPT !.epoch = NoEpoch] ELSE cps[i]]

\* The engine takes a checkpoint before a turn in execute mode, which drops
\* the redo line; run() pushes the prompt onto both lists.
Begin(m) ==
  /\ stage = "idle" /\ turns < MaxTurns
  /\ turns' = turns + 1
  /\ mode' = m /\ ok' = FALSE /\ committed' = <<>> /\ open' = {}
  /\ IF m = "execute"
     THEN /\ checkpoints' = Append(Overtaken(checkpoints), Checkpoint(FALSE))
          /\ redo' = <<>>
     ELSE /\ checkpoints' = Overtaken(checkpoints)
          /\ redo' = [i \in DOMAIN redo |-> [redo[i] EXCEPT !.reAdd = Overtaken(@)]]
  /\ userRef' = [role |-> "user", turn |-> turns + 1, tells |-> {<<turns + 1, 0>>}]
  /\ messages' = Append(messages, userRef')
  /\ history' = Append(history, [role |-> "user", turn |-> turns + 1])
  /\ stage' = "prompted"
  /\ UNCHANGED <<tree, storing, told>>

\* Before anything is streamed the turn may end: the model cannot be resolved,
\* the turn is found aborted (Esc, a steering prompt, a spend limit), its
\* summariser or its wait for a slot of the limiter is aborted.
EndsEarly ==
  /\ stage \in {"prompted", "prepared"}
  /\ stage' = "ending"
  /\ UNCHANGED <<lists, running, tree, undoing, storing, turns, told>>

\* #maybeCompact has nothing to do, or its summariser fails or says nothing.
FitSkipped ==
  /\ stage = "prompted"
  /\ stage' = "prepared"
  /\ UNCHANGED <<lists, running, tree, undoing, storing, turns, told>>

\* The context is over the threshold and is compacted; the reference to the
\* prompt is bound again to the tail, a new object in an emergency.
Fit ==
  /\ stage = "prompted" /\ Cut(messages) > 0
  /\ Shrink(Compacted(messages))
  /\ userRef' = IF Last(messages').role = "user" THEN Last(messages') ELSE userRef
  /\ stage' = "prepared"
  /\ UNCHANGED <<history, mode, ok, committed, open, tree, undoing, storing, turns,
                 forgot, intact, rewinds>>

\* The limiter grants a slot and the request is sent.
Send ==
  /\ stage = "prepared"
  /\ stage' = "streaming"
  /\ UNCHANGED <<lists, running, tree, undoing, storing, turns, told>>

\* A tool of the step edits a file.
Edit ==
  /\ stage = "streaming" /\ mode = "execute" /\ open = {}
  /\ Len(committed) < 2 * MaxSteps
  /\ open' = {<<turns, Len(committed) \div 2 + 1>>}
  /\ tree' = tree \cup open'
  /\ UNCHANGED <<lists, stage, mode, ok, userRef, committed, undoing, storing, turns, told>>

\* The step ends: its call and its result are kept for the case the turn breaks off.
StepEnd ==
  /\ stage = "streaming" /\ open # {}
  /\ committed' = committed \o <<Said("call", open), Said("tool", open)>>
  /\ open' = {}
  /\ UNCHANGED <<lists, stage, mode, ok, userRef, tree, undoing, storing, turns, told>>

\* The stream ends well, with a reply or (text = FALSE) with an empty last step.
Reply(text) ==
  /\ stage = "streaming" /\ open = {}
  /\ messages' = messages \o committed \o (IF text THEN <<Said("assistant", {})>> ELSE <<>>)
  /\ history' = IF text \/ committed # <<>> THEN Append(history, Shown("assistant")) ELSE history
  /\ ok' = TRUE
  /\ stage' = "ending"
  /\ UNCHANGED <<mode, userRef, committed, open, tree, undoing, storing, turns, told>>

\* Mutant of Break: the steps that ended are not kept.
BreakForgets(text) ==
  /\ stage = "streaming"
  /\ messages' = messages \o (IF text THEN <<Said("assistant", {})>> ELSE <<>>)
  /\ history' = IF text \/ committed # <<>> THEN Append(history, Shown("assistant")) ELSE history
  /\ forgot' = forgot \cup open
  /\ stage' = "ending"
  /\ UNCHANGED <<running, tree, undoing, storing, turns, epoch, epochs, intact, rewinds>>

\* The stream breaks off: the steps that ended are kept, partial text goes to
\* both lists, and history shows the completed tools also without text.  An
\* edit of the step that did not end stays in the tree and is told by nobody.
Break(text) ==
  /\ stage = "streaming"
  /\ messages' = messages \o committed \o (IF text THEN <<Said("assistant", {})>> ELSE <<>>)
  /\ history' = IF text \/ committed # <<>> THEN Append(history, Shown("assistant")) ELSE history
  /\ forgot' = forgot \cup open
  /\ stage' = "ending"
  /\ UNCHANGED <<running, tree, undoing, storing, turns, epoch, epochs, intact, rewinds>>

\* finally: a prompt that is still the last message is taken back, from the
\* history too; then the turn is saved.
Orphaned == messages # <<>> /\ Last(messages) = userRef

End ==
  /\ stage = "ending"
  /\ IF Orphaned
     THEN /\ messages' = Front(messages)
          /\ history' = IF Last(history) = Shown("user") THEN Front(history) ELSE history
          /\ forgot' = forgot \cup (userRef.tells \ {<<turns, 0>>})
     ELSE UNCHANGED <<messages, history, forgot>>
  /\ stage' = "saving"
  /\ UNCHANGED <<running, tree, undoing, storing, turns, epoch, epochs, intact, rewinds>>

\* The save commits and the turn is over.  When the checks of an edit turn pass,
\* the engine takes a checkpoint of the result.
Saved(green) ==
  /\ stage = "saving"
  /\ disk' = Snapshot
  /\ stage' = "idle"
  /\ IF green
     THEN /\ committed # <<>> /\ ok
          /\ checkpoints' = Append(checkpoints, Checkpoint(TRUE))
          /\ redo' = <<>>
     ELSE UNCHANGED undoing
  /\ NoTurn
  /\ UNCHANGED <<lists, tree, goals, crashes, turns, told>>

-----------------------------------------------------------------------------
(* Commands between turns, and setting a goal, which may come at any time *)

\* /compact
CompactNow ==
  /\ stage = "idle" /\ Cut(messages) > 0
  /\ Shrink(Compacted(messages))
  /\ UNCHANGED <<history, stage, running, tree, undoing, storing, turns, forgot, intact, rewinds>>

\* /clear: both lists, and the tails that /redo would bring back.
Clear ==
  /\ stage = "idle" /\ history # <<>>
  /\ Shrink(<<>>)
  /\ history' = <<>>
  /\ redo' = [i \in DOMAIN redo |-> [redo[i] EXCEPT !.payload = <<>>]]
  /\ forgot' = forgot \cup Known(messages)
  /\ UNCHANGED <<stage, running, tree, checkpoints, storing, turns, intact, rewinds>>

\* finishRestore: the lists are cut to the lengths of the checkpoint, which
\* mean what they did only if no compaction or clear came in between.
Rewind(cp) ==
  /\ messages' = Upto(messages, cp.mark.messages)
  /\ history' = Upto(history, cp.mark.history)
  /\ tree' = cp.tree
  /\ intact' = (intact /\ cp.epoch = epoch)
  /\ rewinds' = rewinds + 1

\* What was cut off, with the lengths it belongs at.  The rest is history: what
\* was said at that time, and whether each later /redo took back its own tail.
Stashed(cp) ==
  IF messages' = messages /\ history' = history THEN <<>>
  ELSE <<[mark |-> [messages |-> Len(messages'), history |-> Len(history')],
          messages |-> SubSeq(messages, cp.mark.messages + 1, Len(messages)),
          history |-> SubSeq(history, cp.mark.history + 1, Len(history)),
          was |-> [known |-> Known(messages), history |-> history],
          inLine |-> TRUE]>>

RedoEntry(t, readd, payload) == [tree |-> t, reAdd |-> readd, payload |-> payload]

\* /undo: the newest checkpoint that is not a green one; those above it are dropped.
Undo ==
  /\ stage = "idle" /\ rewinds < MaxRewinds
  /\ \E i \in DOMAIN checkpoints :
       /\ ~checkpoints[i].green
       /\ \A j \in (i + 1)..Len(checkpoints) : checkpoints[j].green
       /\ Rewind(checkpoints[i])
       /\ checkpoints' = SubSeq(checkpoints, 1, i - 1)
       /\ redo' = Append(redo, RedoEntry(tree, <<checkpoints[i]>>, Stashed(checkpoints[i])))
  /\ UNCHANGED <<stage, running, storing, turns, epoch, epochs, forgot>>

\* The redo steps of a rewind over several checkpoints: the tree as it was,
\* unless the newest checkpoint has it, then the checkpoints, newest first.
\* The first of them carries the cut-off tail.
Steps(newer, payload) ==
  LET own == [j \in DOMAIN newer |->
                LET cp == newer[Len(newer) + 1 - j] IN RedoEntry(cp.tree, <<cp>>, <<>>)]
      covered == newer # <<>> /\ Last(newer).tree = tree
      all == IF covered THEN own ELSE <<RedoEntry(tree, <<>>, <<>>)>> \o own
  IN  [all EXCEPT ![1].payload = payload]

\* /undo <n>: the chosen checkpoint stays in the list.
RestoreTo ==
  /\ stage = "idle" /\ rewinds < MaxRewinds
  /\ \E i \in DOMAIN checkpoints :
       /\ ~checkpoints[i].green
       /\ Rewind(checkpoints[i])
       /\ checkpoints' = SubSeq(checkpoints, 1, i)
       /\ redo' = redo \o Steps(SubSeq(checkpoints, i + 1, Len(checkpoints)), Stashed(checkpoints[i]))
  /\ UNCHANGED <<stage, running, storing, turns, epoch, epochs, forgot>>

\* Mutant of Fits: the tail goes back wherever the conversation is.
FitsAlways(entry) == entry.payload # <<>>

\* The tail of a redo step goes back only where it was cut off.
Fits(entry) == entry.payload # <<>> /\ entry.payload[1].mark = Mark

\* A /redo that leaves its tail out breaks the line for those below it (history).
Broken(line) ==
  [i \in DOMAIN line |->
     IF line[i].payload = <<>> THEN line[i] ELSE [line[i] EXCEPT !.payload[1].inLine = FALSE]]

\* /redo
Redo ==
  /\ stage = "idle" /\ redo # <<>> /\ rewinds < MaxRewinds
  /\ LET entry == Last(redo) IN
       /\ tree' = entry.tree
       /\ checkpoints' = checkpoints \o entry.reAdd
       /\ IF Fits(entry)
          THEN /\ messages' = messages \o entry.payload[1].messages
               /\ history' = history \o entry.payload[1].history
               /\ forgot' = forgot \ Known(entry.payload[1].messages)
          ELSE /\ UNCHANGED lists
               /\ forgot' = forgot \cup (tree' \ Known(messages))
       /\ redo' = IF Fits(entry) \/ entry.payload = <<>> THEN Front(redo) ELSE Broken(Front(redo))
  /\ rewinds' = rewinds + 1
  /\ UNCHANGED <<stage, running, storing, turns, epoch, epochs, intact>>

\* setGoal saves at once, also in the middle of a turn.
SetGoal ==
  /\ goals < MaxGoalSaves
  /\ goals' = goals + 1
  /\ disk' = Snapshot
  /\ UNCHANGED <<lists, stage, running, tree, undoing, crashes, turns, told>>

\* The process ends and the session is resumed from disk; checkpoints are kept
\* in a file of their own, the redo line is not.  A clean quit saves no more
\* than a crash: nothing that /undo, /redo, /clear or /compact did since.
Crash ==
  /\ crashes < MaxCrashes
  /\ crashes' = crashes + 1
  /\ messages' = disk.messages /\ history' = disk.history
  /\ stage' = "idle" /\ redo' = <<>>
  /\ NoTurn
  /\ intact' = (intact /\ disk.whole /\ disk.rewinds = rewinds)
  /\ forgot' = disk.forgot \cup {f \in tree : f[1] > disk.turn}
  /\ epoch' = disk.epoch
  /\ UNCHANGED <<tree, checkpoints, disk, goals, turns, epochs, rewinds>>

SessionNext ==
  \/ \E m \in {"execute", "plan"} : Begin(m)
  \/ EndsEarly \/ FitSkipped \/ Fit \/ Send \/ Edit \/ StepEnd
  \/ \E text \in BOOLEAN : Reply(text) \/ Break(text)
  \/ End \/ \E green \in BOOLEAN : Saved(green)
  \/ CompactNow \/ Clear \/ Undo \/ RestoreTo \/ Redo
  \/ SetGoal \/ Crash

SessionSpec == SessionInit /\ [][SessionNext]_vars

-----------------------------------------------------------------------------
(* Properties *)

Texts == [role : {"user", "call", "tool", "assistant"}, turn : 0..MaxTurns, tells : SUBSET Facts]
Shows == [role : {"user", "assistant"}, turn : 1..MaxTurns]

\* Types; a checkpoint never remembers more of the transcript than two messages
\* a prompt.
SessionTypeOK ==
  /\ \A i \in DOMAIN messages : messages[i] \in Texts
  /\ \A i \in DOMAIN history : history[i] \in Shows
  /\ stage \in {"idle", "prompted", "prepared", "streaming", "ending", "saving"}
  /\ mode \in {"execute", "plan"} /\ ok \in BOOLEAN
  /\ tree \subseteq Facts /\ open \subseteq Facts /\ forgot \subseteq Facts
  /\ \A i \in DOMAIN checkpoints : checkpoints[i].mark.history <= 2 * MaxTurns

\* What a provider accepts: it begins with a prompt, no two prompts and no two
\* replies follow each other, and a call is followed by its result.
Valid(list) ==
  /\ list # <<>> /\ list[1].role = "user"
  /\ \A i \in 2..Len(list) : LET before == list[i - 1].role IN
       /\ list[i].role = "tool" <=> before = "call"
       /\ list[i].role = "user" => before # "user"
       /\ list[i].role = "assistant" => before # "assistant"
  /\ Last(list).role \in {"user", "tool"}

\* Every request is valid: after rollbacks, compactions that cut anywhere,
\* turns that broke off, undo and redo, and a resumed session (session.ts:
\* "consecutive same-role messages 400"; compaction.ts: "never cut between").
RequestIsValid == stage = "streaming" /\ intact => Valid(messages \o committed)

\* Between turns the model is told of exactly the prompts the user sees and the
\* edits that are in the tree: none that /undo took back, and all that /redo
\* brought back, a compaction summarised or a broken-off turn had completed
\* (session.ts: "keeping #history and #modelMessages in lockstep").
Prompts == {<<history[i].turn, 0>> : i \in DOMAIN history}
ContextMatchesTree ==
  stage = "idle" /\ intact => Known(messages) = (Prompts \cup tree) \ forgot

\* What /redo adds is what the /undo took away: the conversation is as it was.
IsExact(entry) ==
  LET was == entry.payload[1].was IN Known(messages') = was.known /\ history' = was.history

\* A /redo that brings back a tail brings back the conversation as it was at
\* the /undo, whatever turns, compactions and commands came in between, if
\* every /redo since then brought back its own.
RedoIsExact ==
  [][Redo /\ Fits(Last(redo)) /\ Last(redo).payload[1].inLine => IsExact(Last(redo))]_vars

\* Without the condition: the lengths stashed with a tail tell that another
\* conversation has taken its place (engine-commands.ts finishRestore: "so /redo
\* can detect an intervening mutation").
RedoDetectsMutation == [][Redo /\ Fits(Last(redo)) => IsExact(Last(redo))]_vars

\* A turn that is rolled back takes its own prompt with it and nothing else
\* (compaction.ts: a model hiccup "must not cost the conversation its past").
RollbackDropsOnlyThePrompt ==
  [][End => Known(messages) \ Known(messages') \subseteq {<<turns, 0>>}]_vars
====
