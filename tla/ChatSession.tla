---------------------------- MODULE ChatSession -----------------------------
(***************************************************************************)
(* Chat windows (ui/dialogs/chat_window.py), the worker each of them asks  *)
(* a server with (workers/ai.py), and the saved chats                      *)
(* (core/chat_store.py, ui/dialogs/chat_history.py).  A window's handlers  *)
(* run one at a time in the UI thread; the worker's last signal is handled *)
(* some time after it was sent, whatever the window shows by then.         *)
(*                                                                         *)
(* Left out: the text in the message box, pictures, titles (so Rename is   *)
(* no step: it writes the same nodes again), models, keys, and a damaged   *)
(* index, which is built anew from the files.                              *)
(***************************************************************************)
EXTENDS ChatTree

CONSTANTS
    Windows,      \* bound: the chat windows open at once
    MaxChats,     \* bound: the chats begun
    MaxMessages   \* bound: the messages made

ASSUME BoundsAssumption == MaxChats \in Nat /\ MaxMessages \in Nat

VARIABLES
    window,   \* what each window holds, or Closed
    files,    \* the .chat file of each chat
    index,    \* the number of messages the index gives for each chat; 0: not listed
    begun,    \* the number of chats begun: their ids
    prompt,   \* history: for each message made, the conversation it is the answer to
    shared    \* history: the chats opened in a second window, or deleted in an open one

vars == <<window, files, index, begun, prompt, shared>>

Chats   == 1..MaxChats
Born    == Len(prompt)
NoFile  == [nodes |-> <<>>, current |-> Root]
Closed  == [chat |-> 0]
NoEdit  == [on |-> FALSE, parent |-> Root]
NoReply == [state |-> "none", question |-> Root, fresh |-> FALSE, sent |-> <<>>]

\* "asking" and "stopped" are a running worker's, the others those of its last signal.
Running == {"asking", "stopped"}
Ended   == {"answered", "empty", "failed"}

Open(w) == window[w].chat # 0
\* self._worker is not None.
Busy(w) == Open(w) /\ window[w].reply.state # "none"
Exists(c) == files[c].nodes # <<>>
OpenOn(c) == {w \in Windows : window[w].chat = c}

TypeOK ==
    /\ begun \in 0..MaxChats
    /\ Born <= MaxMessages
    /\ index \in [Chats -> 0..MaxMessages]
    /\ shared \subseteq 1..begun
    /\ \A w \in Windows : Open(w) =>
          LET v == window[w] IN
          /\ v.chat \in 1..begun
          /\ TreeOK(v.tree, 1..Born)
          /\ v.seen \in Seq(1..Born)
          /\ v.edit \in [on : BOOLEAN, parent : 0..Born]
          /\ v.reply.state \in Running \cup Ended \cup {"none"}
    /\ \A c \in Chats : Exists(c) => c <= begun /\ TreeOK(Loaded(files[c]), 1..Born)

-----------------------------------------------------------------------------
(* Saving. *)

\* Mutant: the index is written before the file.
SaveMutant(c, t, done) ==
    /\ index' = IF done = "none" THEN index ELSE [index EXCEPT ![c] = Cardinality(Nodes(t))]
    /\ files' = IF done = "all" THEN [files EXCEPT ![c] = Saved(t)] ELSE files

\* A locked keyring, a full disk or the end of the program may stop a save before
\* its first write or between its two.
Saves == {"none", "file", "all"}

Save(c, t, done) ==
    /\ files' = IF done = "none" THEN files ELSE [files EXCEPT ![c] = Saved(t)]
    /\ index' = IF done = "all" THEN [index EXCEPT ![c] = Cardinality(Nodes(t))] ELSE index

-----------------------------------------------------------------------------
(* Windows and saved chats. *)

Show(w, c, t) ==
    window' = [window EXCEPT ![w] = [chat |-> c, tree |-> t, seen |-> Path(t, t.current),
                                     edit |-> NoEdit, reply |-> NoReply]]

Init ==
    /\ window = [w \in Windows |-> Closed]
    /\ files = [c \in Chats |-> NoFile]
    /\ index = [c \in Chats |-> 0]
    /\ begun = 0
    /\ prompt = <<>>
    /\ shared = {}

OpenNew(w) ==
    /\ ~Open(w)
    /\ begun < MaxChats
    /\ begun' = begun + 1
    /\ Show(w, begun', NewTree)
    /\ UNCHANGED <<files, index, prompt, shared>>

\* A listed chat whose file is gone gives an error message.
OpenSaved(w, c) ==
    /\ ~Open(w)
    /\ index[c] > 0 /\ Exists(c)
    /\ Show(w, c, Loaded(files[c]))
    /\ shared' = IF OpenOn(c) = {} THEN shared ELSE shared \cup {c}
    /\ UNCHANGED <<files, index, begun, prompt>>

\* The file is unlinked first; the index may then fail to be written.
Delete(c, done) ==
    /\ index[c] > 0
    /\ files' = IF done = "none" THEN files ELSE [files EXCEPT ![c] = NoFile]
    /\ index' = IF done = "all" THEN [index EXCEPT ![c] = 0] ELSE index
    /\ shared' = IF OpenOn(c) = {} \/ done = "none" THEN shared ELSE shared \cup {c}
    /\ UNCHANGED <<window, begun, prompt>>

\* The worker is stopped and its signals reach nobody.
Close(w) ==
    /\ Open(w)
    /\ window' = [window EXCEPT ![w] = Closed]
    /\ UNCHANGED <<files, index, begun, prompt, shared>>

Halted(r) == IF r.state = "asking" THEN [r EXCEPT !.state = "stopped"] ELSE r

\* Mutant: an edit under way goes on in the new chat.
NewChatMutant(w) ==
    /\ Open(w) /\ begun < MaxChats
    /\ begun' = begun + 1
    /\ window' = [window EXCEPT ![w] =
          [@ EXCEPT !.chat = begun', !.tree = NewTree, !.seen = <<>>,
                    !.reply = Halted(window[w].reply)]]
    /\ UNCHANGED <<files, index, prompt, shared>>

\* The worker and the reply being received stay with the window.
NewChat(w) ==
    /\ Open(w) /\ begun < MaxChats
    /\ begun' = begun + 1
    /\ window' = [window EXCEPT ![w] =
          [@ EXCEPT !.chat = begun', !.tree = NewTree, !.seen = <<>>, !.edit = NoEdit,
                    !.reply = Halted(window[w].reply)]]
    /\ UNCHANGED <<files, index, prompt, shared>>

-----------------------------------------------------------------------------
(* Branches. *)

\* The bound: every question under way may still get its answer.
Room(k) == Born + Cardinality({w \in Windows : Busy(w)}) + k <= MaxMessages

\* _start_reply once it goes through: the path to the question is drawn and sent.
Asking(t, question, fresh) ==
    [state |-> "asking", question |-> question, fresh |-> fresh, sent |-> Path(t, question)]

\* The links of the messages last drawn, if they are still in the chat.
Linked(w) == ToSet(window[w].seen) \cap Nodes(window[w].tree)

Send(w) ==
    /\ Open(w) /\ ~Busy(w)
    /\ Room(2)
    /\ LET v == window[w]
           p == IF v.edit.on THEN v.edit.parent ELSE v.tree.current
           t == Add(v.tree, Born + 1, p, "user")
       IN /\ CanAdd(v.tree, p)
          /\ window' = [window EXCEPT ![w] =
                [@ EXCEPT !.tree = t, !.seen = Path(t, Born + 1), !.edit = NoEdit,
                          !.reply = Asking(t, Born + 1, TRUE)]]
    /\ prompt' = Append(prompt, <<>>)
    /\ UNCHANGED <<files, index, begun, shared>>

\* The question is selected before the API key or the model is asked about: when
\* that ends it, nothing is drawn.
Regenerate(w, n, goes) ==
    /\ Open(w) /\ ~Busy(w)
    /\ n \in Linked(w) /\ window[w].tree.role[n] = "assistant"
    /\ Room(1)
    /\ LET q == window[w].tree.parent[n]
           t == Select(window[w].tree, q)
       IN window' = [window EXCEPT ![w] =
             IF goes THEN [@ EXCEPT !.tree = t, !.seen = Path(t, q), !.reply = Asking(t, q, FALSE)]
             ELSE [@ EXCEPT !.tree = t]]
    /\ UNCHANGED <<files, index, begun, prompt, shared>>

StartEdit(w, n) ==
    /\ Open(w) /\ ~Busy(w)
    /\ n \in Linked(w) /\ window[w].tree.role[n] = "user"
    /\ window' = [window EXCEPT ![w].edit = [on |-> TRUE, parent |-> window[w].tree.parent[n]]]
    /\ UNCHANGED <<files, index, begun, prompt, shared>>

\* The button works while a reply is received, too.
CancelEdit(w) ==
    /\ Open(w) /\ window[w].edit.on
    /\ window' = [window EXCEPT ![w].edit = NoEdit]
    /\ UNCHANGED <<files, index, begun, prompt, shared>>

\* The arrows are drawn for messages with siblings.
Switch(w, n, step, done) ==
    /\ Open(w) /\ ~Busy(w)
    /\ n \in Linked(w) /\ Len(window[w].tree.kids[window[w].tree.parent[n]]) > 1
    /\ LET t == SwitchSibling(window[w].tree, n, step)
       IN /\ window' = [window EXCEPT ![w] = [@ EXCEPT !.tree = t, !.seen = Path(t, t.current)]]
          /\ Save(window[w].chat, t, done)
    /\ UNCHANGED <<begun, prompt, shared>>

-----------------------------------------------------------------------------
(* The reply. *)

Stop(w) ==
    /\ Open(w) /\ window[w].reply.state = "asking"
    /\ window' = [window EXCEPT ![w].reply = Halted(window[w].reply)]
    /\ UNCHANGED <<files, index, begun, prompt, shared>>

\* ChatWorker.run sends its last signal.  A stopped worker may still have an answer,
\* a part of one, or an error status of the server.
Run(w, end) ==
    /\ Open(w) /\ window[w].reply.state \in Running
    /\ window' = [window EXCEPT ![w].reply.state = end]
    /\ UNCHANGED <<files, index, begun, prompt, shared>>

\* Mutant: a question that got no answer stays.
UndoNewUserMutant(t, r) == t

UndoNewUser(t, r) ==
    IF r.fresh /\ r.question \in Nodes(t) /\ IsLeaf(t, r.question)
    THEN RemoveLeaf(t, r.question) ELSE t

\* Mutant: the answer is added where the window is by now.
OnDoneMutant(w, done) ==
    /\ Open(w) /\ window[w].reply.state = "answered"
    /\ LET v == window[w]
           t == Add(v.tree, Born + 1, v.tree.current, "assistant")
       IN /\ window' = [window EXCEPT ![w] =
                [@ EXCEPT !.tree = t, !.seen = Path(t, Born + 1), !.reply = NoReply]]
          /\ prompt' = Append(prompt, v.reply.sent)
          /\ Save(v.chat, t, done)
    /\ UNCHANGED <<begun, shared>>

\* Mutant: an answer to a question of another chat is ignored, and _finish with it.
OnDoneIgnoresMutant(w, done) ==
    /\ Open(w) /\ window[w].reply.state = "answered"
    /\ CanAdd(window[w].tree, window[w].reply.question)
    /\ LET v == window[w]
           t == Add(v.tree, Born + 1, v.reply.question, "assistant")
       IN /\ window' = [window EXCEPT ![w] =
                [@ EXCEPT !.tree = t, !.seen = Path(t, Born + 1), !.reply = NoReply]]
          /\ prompt' = Append(prompt, v.reply.sent)
          /\ Save(v.chat, t, done)
    /\ UNCHANGED <<begun, shared>>

\* After New chat the question is unknown to add_assistant: its KeyError leaves
\* the handler after _finish, and nothing is drawn or saved.
OnDone(w, done) ==
    /\ Open(w) /\ window[w].reply.state = "answered"
    /\ LET v == window[w]
           t == Add(v.tree, Born + 1, v.reply.question, "assistant")
       IN IF CanAdd(v.tree, v.reply.question)
          THEN /\ window' = [window EXCEPT ![w] =
                     [@ EXCEPT !.tree = t, !.seen = Path(t, Born + 1), !.reply = NoReply]]
               /\ prompt' = Append(prompt, v.reply.sent)
               /\ Save(v.chat, t, done)
          ELSE /\ window' = [window EXCEPT ![w].reply = NoReply]
               /\ UNCHANGED <<files, index, prompt>>
    /\ UNCHANGED <<begun, shared>>

\* _on_failed, and _on_done with an empty reply.
OnNothing(w) ==
    /\ Open(w) /\ window[w].reply.state \in {"empty", "failed"}
    /\ LET t == UndoNewUser(window[w].tree, window[w].reply)
       IN window' = [window EXCEPT ![w] =
             [@ EXCEPT !.tree = t, !.seen = Path(t, t.current), !.reply = NoReply]]
    /\ UNCHANGED <<files, index, begun, prompt, shared>>

-----------------------------------------------------------------------------
Next ==
    \/ \E w \in Windows :
          \/ OpenNew(w) \/ Close(w) \/ NewChat(w)
          \/ \E c \in Chats : OpenSaved(w, c)
          \/ Send(w) \/ CancelEdit(w) \/ Stop(w)
          \/ \E n \in 1..Born :
                \/ \E goes \in BOOLEAN : Regenerate(w, n, goes)
                \/ StartEdit(w, n)
                \/ \E step \in {-1, 1}, done \in Saves : Switch(w, n, step, done)
          \/ \E end \in Ended : Run(w, end)
          \/ \E done \in Saves : OnDone(w, done)
          \/ OnNothing(w)
    \/ \E c \in Chats, done \in Saves : Delete(c, done)

Spec == Init /\ [][Next]_vars

\* A stopped worker's connection is closed, and reads have a timeout; the UI thread
\* handles every signal.  Nobody has to open, send, stop or close anything, and a
\* server may stream for ever.
Fairness ==
    \A w \in Windows :
        /\ WF_vars(window[w].chat # 0 /\ window[w].reply.state = "stopped"
                   /\ \E end \in Ended : Run(w, end))
        /\ WF_vars((\E done \in Saves : OnDone(w, done)) \/ OnNothing(w))

FairSpec == Spec /\ Fairness

-----------------------------------------------------------------------------
(* Properties. *)

\* Every assistant message, in a window or on disk, is the answer to exactly the
\* conversation it hangs under: no late answer, branch or new chat puts it elsewhere.
AnswersIts(t) ==
    \A n \in Nodes(t) : t.role[n] = "assistant" => prompt[n] = Path(t, t.parent[n])

RepliesAnswerTheirPath ==
    /\ \A w \in Windows : Open(w) => AnswersIts(window[w].tree)
    /\ \A c \in Chats : AnswersIts(Loaded(files[c]))

\* A question without an answer is the one being asked: _undo_new_user takes every
\* other one back, and one that has an answer already is never taken.
Unanswered(t) == {n \in Nodes(t) : t.role[n] = "user" /\ IsLeaf(t, n)}

NothingUnanswered ==
    \A w \in Windows : Open(w) =>
        Unanswered(window[w].tree) \subseteq
            (IF Busy(w) /\ window[w].reply.fresh THEN {window[w].reply.question} ELSE {})

\* A saved chat opens on a whole branch, and every branch of it ends with a reply,
\* whatever was asked in vain in the window it was saved from.
FilesEndInReplies ==
    \A c \in Chats : Exists(c) =>
        LET t == Loaded(files[c])
        IN Unanswered(t) = {} /\ t.current # Root /\ IsLeaf(t, t.current)

\* The message an edit will branch from belongs to the chat of the window, whatever
\* was stopped, taken back or begun since the edit was started.
EditsStayHome ==
    \A w \in Windows : Open(w) /\ window[w].edit.on =>
        CanAdd(window[w].tree, window[w].edit.parent)

\* What from_dict makes of what to_dict writes is the tree, its branches in the same
\* order and the same one of them selected.
SavedIsWhole ==
    \A w \in Windows : Open(w) => Loaded(Saved(window[w].tree)) = window[w].tree

\* No half conversation is kept, in a window or in a file.
TreesAreWhole == NothingUnanswered /\ FilesEndInReplies /\ SavedIsWhole

\* The index never tells of more messages than the file has: a save is broken off
\* only behind it.
IndexNeverAhead ==
    \A c \in Chats : Exists(c) /\ c \notin shared => index[c] <= Len(files[c].nodes)

\* Saving over a chat keeps every message that was there, and every message stays
\* where it was, unless two windows had the chat or it was deleted under one.
SavesOnlyAdd ==
    [][\A c \in Chats : Exists(c) /\ Exists(c)' /\ c \notin shared =>
          ToSet(files[c].nodes) \subseteq ToSet(files'[c].nodes)]_vars

\* Stop, or New chat over a reply, gives the window back for the next question.
StopFrees ==
    \A w \in Windows :
        (Open(w) /\ window[w].reply.state = "stopped") ~> ~Busy(w)
=============================================================================
