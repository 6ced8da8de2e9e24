----------------------------- MODULE ScriptOpcodes -----------------------------
(***************************************************************************)
(* The client's mwscript opcodes that mirror their effect to the server    *)
(* (dialogueextensions.cpp, animationextensions.cpp): Journal,             *)
(* SetJournalIndex and AddTopic send a player packet, PlayAnim sends an    *)
(* ObjectAnimPlay for approved scripts, and ForceGreeting opens a dialogue *)
(* only when none is open.                                                 *)
(*                                                                         *)
(* The engine collaborators are reduced to what the opcodes observe: the   *)
(* journal is a set of <<quest, index>> entries and an index per quest,    *)
(* Journal::hasEntry and Journal::addEntry throw for an index the quest    *)
(* has no info for (JournalEntry::idFromIndex), the                        *)
(* dialogue manager keeps the known topics, and the window manager's mode  *)
(* stack is reduced to the number of open dialogue modes. A sent packet is *)
(* the record of what it reports; the opcodes run one at a time on the     *)
(* client's script thread.                                                 *)
(***************************************************************************)
EXTENDS Naturals, FiniteSets

CONSTANTS
  Quests,       \* quest ids
  Indices,      \* journal indices scripts use
  ValidIndex,   \* ValidIndex[q]: the indices quest q has journal infos for
  Topics,       \* dialogue topics
  Objects,      \* references a script can name
  Enabled,      \* references that are enabled
  ActorRefs,    \* references that are actors
  Approved      \* references whose script is a valid packet script

ASSUME ValidIndex \in [Quests -> SUBSET Indices]
ASSUME Enabled \subseteq Objects /\ ActorRefs \subseteq Objects
ASSUME Approved \subseteq Objects

VARIABLES
  loggedIn,       \* LocalPlayer::isLoggedIn
  entries,        \* the journal's entries
  journalIndex,   \* the journal index of each quest
  topics,         \* the topics the player knows
  dialogueModes,  \* GM_Dialogue modes on the window manager's stack
  sent,           \* packets sent to the server
  addedOffline    \* entries and topics added before the player logged in

vars == <<loggedIn, entries, journalIndex, topics, dialogueModes, sent,
          addedOffline>>

Init ==
  /\ loggedIn = FALSE
  /\ entries = {}
  /\ journalIndex = [q \in Quests |-> 0]
  /\ topics = {}
  /\ dialogueModes = 0
  /\ sent = {}
  /\ addedOffline = {}

\* The player finishes logging in to the server.
LogIn ==
  /\ ~loggedIn
  /\ loggedIn' = TRUE
  /\ UNCHANGED <<entries, journalIndex, topics, dialogueModes, sent, addedOffline>>

-----------------------------------------------------------------------------
(* Engine collaborators                                                    *)

HasEntry(q, i) == <<q, i>> \in entries

\* Journal::hasEntry maps the index to an info id with
\* JournalEntry::idFromIndex, which throws for an index the quest has no
\* info for.
HasEntryThrows(q, i) == i \notin ValidIndex[q]

\* Journal::addEntry: an entry already present only raises the index;
\* otherwise the entry is made from the quest's info, which throws when the
\* quest has no info for the index, and the quest's index becomes i.
AddEntryThrows(q, i) == ~HasEntry(q, i) /\ i \notin ValidIndex[q]

AddEntry(q, i) ==
  /\ entries' = entries \cup {<<q, i>>}
  /\ journalIndex' = [journalIndex EXCEPT ![q] =
                        IF HasEntry(q, i) /\ @ >= i THEN @ ELSE i]
  /\ addedOffline' = IF loggedIn \/ HasEntry(q, i) THEN addedOffline
                     ELSE addedOffline \cup {<<q, i>>}

IsNewTopic(t) == t \notin topics

-----------------------------------------------------------------------------
(* Opcodes                                                                 *)

\* A faulty OpJournal that adds the entry before deciding whether to send.
OpJournalAddFirst(q, i) ==
  /\ UNCHANGED <<loggedIn, topics, dialogueModes>>
  /\ IF AddEntryThrows(q, i)
     THEN /\ journalIndex' = [journalIndex EXCEPT ![q] = IF @ < i THEN i ELSE @]
          /\ UNCHANGED <<entries, sent, addedOffline>>
     ELSE /\ AddEntry(q, i)
          /\ UNCHANGED sent

\* The catch block of OpJournal: the quest's index is raised to i.
RaiseIndex(q, i) ==
  /\ journalIndex' = [journalIndex EXCEPT ![q] = IF @ < i THEN i ELSE @]
  /\ UNCHANGED <<entries, addedOffline>>

\* A faulty OpJournal whose journal lookup answers "no entry" instead of
\* throwing for an index without info.
OpJournalNoThrow(q, i) ==
  /\ UNCHANGED <<loggedIn, topics, dialogueModes>>
  /\ sent' = IF loggedIn /\ ~HasEntry(q, i)
             THEN sent \cup {<<"entry", q, i>>} ELSE sent
  /\ IF AddEntryThrows(q, i) THEN RaiseIndex(q, i) ELSE AddEntry(q, i)

\* OpJournal: inside the try, when logged in, Journal::hasEntry is asked
\* first and throws for an index without info; a new entry is sent as
\* ID_PLAYER_JOURNAL; then Journal::addEntry, which throws for the same
\* indices. The catch block raises the quest's index.
OpJournal(q, i) ==
  /\ UNCHANGED <<loggedIn, topics, dialogueModes>>
  /\ IF loggedIn /\ HasEntryThrows(q, i)
     THEN /\ RaiseIndex(q, i)
          /\ UNCHANGED sent
     ELSE /\ sent' = IF loggedIn /\ ~HasEntry(q, i)
                     THEN sent \cup {<<"entry", q, i>>} ELSE sent
          /\ IF AddEntryThrows(q, i) THEN RaiseIndex(q, i) ELSE AddEntry(q, i)

\* OpSetJournalIndex: the index is set, then sent when logged in.
OpSetJournalIndex(q, i) ==
  /\ journalIndex' = [journalIndex EXCEPT ![q] = i]
  /\ sent' = IF loggedIn THEN sent \cup {<<"index", q, i>>} ELSE sent
  /\ UNCHANGED <<loggedIn, entries, topics, dialogueModes, addedOffline>>

\* OpAddTopic: ID_PLAYER_TOPIC is sent when logged in and the topic is new;
\* then DialogueManager::addTopic.
OpAddTopic(t) ==
  /\ sent' = IF loggedIn /\ IsNewTopic(t) THEN sent \cup {<<"topic", t>>} ELSE sent
  /\ topics' = topics \cup {t}
  /\ addedOffline' = IF loggedIn \/ ~IsNewTopic(t) THEN addedOffline
                     ELSE addedOffline \cup {t}
  /\ UNCHANGED <<loggedIn, entries, journalIndex, dialogueModes>>

\* OpPlayAnim: nothing for a disabled reference; a mode outside 0..2 throws
\* before anything is sent; an approved script's reference sends
\* ID_OBJECT_ANIM_PLAY; then the animation plays (not observed here).
OpPlayAnim(o, mode) ==
  /\ o \in Enabled
  /\ mode \in 0..2
  /\ o \in Approved
  /\ sent' = sent \cup {<<"anim", o, mode>>}
  /\ UNCHANGED <<loggedIn, entries, journalIndex, topics, dialogueModes,
                 addedOffline>>

\* OpForceGreeting: nothing for a disabled reference or a non-actor; a
\* dialogue is pushed only when no dialogue mode is on the stack.
OpForceGreeting(o) ==
  /\ o \in Enabled /\ o \in ActorRefs
  /\ dialogueModes' = IF dialogueModes = 0 THEN dialogueModes + 1 ELSE dialogueModes
  /\ UNCHANGED <<loggedIn, entries, journalIndex, topics, sent, addedOffline>>

\* OpGoodbye: DialogueManager::goodbye ends the dialogue, whose window
\* leaves the mode stack.
OpGoodbye ==
  /\ dialogueModes > 0
  /\ dialogueModes' = dialogueModes - 1
  /\ UNCHANGED <<loggedIn, entries, journalIndex, topics, sent, addedOffline>>

-----------------------------------------------------------------------------

Next ==
  \/ LogIn
  \/ \E q \in Quests, i \in Indices : OpJournal(q, i) \/ OpSetJournalIndex(q, i)
  \/ \E t \in Topics : OpAddTopic(t)
  \/ \E o \in Objects :
       \/ OpForceGreeting(o)
       \/ \E mode \in 0..3 : OpPlayAnim(o, mode)
  \/ OpGoodbye

Spec == Init /\ [][Next]_vars

-----------------------------------------------------------------------------
(* Properties                                                              *)

\* Every journal entry and topic the client gained while logged in has been
\* reported to the server: OpJournal and OpAddTopic decide to send from the
\* journal and topic list as they were before the opcode changed them.
GainedOnlineSent ==
  /\ \A e \in entries \ addedOffline : <<"entry", e[1], e[2]>> \in sent
  /\ \A t \in topics \ addedOffline : <<"topic", t>> \in sent

\* Every journal entry reported to the server is in the client's journal,
\* after any order of logins, Journal calls with indices with and without
\* info, and SetJournalIndex: the comment on OpJournal says the packet goes
\* out when a new entry is added through a script, and the journal lookup
\* that guards the send throws, inside the try, for an index without info.
SentEntriesExist ==
  \A q \in Quests, i \in Indices : <<"entry", q, i>> \in sent => HasEntry(q, i)

=============================================================================
