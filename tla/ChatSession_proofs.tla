------------------------- MODULE ChatSession_proofs --------------------------
(***************************************************************************)
(* Replies stay with their questions, trees stay whole, edits stay in      *)
(* their chat, and a save keeps what was saved, for any windows, chats and *)
(* messages.                                                               *)
(***************************************************************************)
EXTENDS ChatSession, ChatTree_proofs

-----------------------------------------------------------------------------
(* The inductive invariant. *)

Replies == [state : Running \cup Ended \cup {"none"}, question : Nat, fresh : BOOLEAN,
            sent : Seq(Nat)]

Typed ==
    /\ begun \in 0..MaxChats
    /\ prompt \in Seq(Seq(Nat))
    /\ window = [w \in Windows |-> window[w]]
    /\ files = [c \in Chats |-> files[c]]
    /\ index \in [Chats -> Nat]

\* A tree of messages that were made, whose replies answer the paths to them.
Sound(t) == Tree(t, Born) /\ AnswersIts(t)

\* The tree a window falls back on if its question gets no answer.
Settled(v) == UndoNewUser(v.tree, v.reply)

Shape(v) ==
    /\ v = [chat |-> v.chat, tree |-> v.tree, seen |-> v.seen, edit |-> v.edit,
            reply |-> v.reply]
    /\ v.chat \in 1..begun
    /\ v.edit \in [on : BOOLEAN, parent : Nat]
    /\ v.reply \in Replies

\* What is being asked hangs in the tree as it was sent, or in a chat that was left.
AsksItsPath(v) ==
    v.reply.state # "none" =>
        /\ v.reply.question \in 1..Born
        /\ v.reply.question \in Nodes(v.tree) => v.reply.sent = Path(v.tree, v.reply.question)

\* A question that can be taken back is a leaf, and is being asked.
FreshIsLeaf(v) ==
    v.reply.fresh =>
        /\ v.reply.state # "none"
        /\ v.reply.question \in Nodes(v.tree) => IsLeaf(v.tree, v.reply.question)

\* No edit is under way when a question is taken back: it might be under it.
EditIsSafe(v) == v.edit.on => CanAdd(v.tree, v.edit.parent) /\ ~v.reply.fresh

WindowOK(v) ==
    /\ Shape(v) /\ Sound(v.tree)
    /\ AsksItsPath(v) /\ FreshIsLeaf(v) /\ EditIsSafe(v)
    /\ Unanswered(Settled(v)) = {}

\* A tree that is fit to be saved: nothing unanswered, and a whole branch selected.
Finished(t) ==
    /\ Unanswered(t) = {}
    /\ Nodes(t) # {} => t.current \in Nodes(t) /\ IsLeaf(t, t.current)

FileOK(f) == f = Saved(Loaded(f)) /\ Sound(Loaded(f)) /\ Finished(Loaded(f))

\* u has every message of t, where t has it.
Keeps(u, t) ==
    /\ Nodes(t) \subseteq Nodes(u)
    /\ \A n \in Nodes(t) : u.parent[n] = t.parent[n] /\ u.role[n] = t.role[n]

\* A chat that was never shared has one window at most, which has all that was saved.
AtHome(c) ==
    /\ \A w1, w2 \in OpenOn(c) : w1 = w2
    /\ \A w \in OpenOn(c) : /\ Keeps(Settled(window[w]), Loaded(files[c]))
                            /\ ~Exists(c) => index[c] = 0
    /\ Exists(c) => index[c] <= Len(files[c].nodes)

IInv ==
    /\ Typed
    /\ \A w \in Windows : Open(w) => WindowOK(window[w])
    /\ \A c \in Chats : FileOK(files[c])
    /\ \A c \in Chats : c > begun => ~Exists(c) /\ index[c] = 0
    /\ \A c \in Chats : c \notin shared => AtHome(c)

\* What a step may do to the saved chats.
Adds ==
    \A c \in Chats : Exists(c) /\ Exists(c)' /\ c \notin shared =>
        ToSet(files[c].nodes) \subseteq ToSet(files'[c].nodes)

-----------------------------------------------------------------------------
(* Trees, questions and answers. *)

\* A question is unanswered if nothing hangs under it.
LEMMA UnansweredHasNone ==
    ASSUME NEW k \in Nat, NEW t, Tree(t, k)
    PROVE  Unanswered(t) = {n \in Nodes(t) : t.role[n] = "user" /\ \A m \in Nodes(t) : t.parent[m] # n}
<1>1. \A n \in Nodes(t) : IsLeaf(t, n) <=> \A m \in Nodes(t) : t.parent[m] # n
  BY Leaves DEF Children
<1> QED BY <1>1 DEF Unanswered

LEMMA KeepsItself == \A t : Keeps(t, t)
BY DEF Keeps

LEMMA KeepsOn ==
    ASSUME NEW t, NEW u, NEW v, Keeps(u, t), Keeps(v, u)
    PROVE  Keeps(v, t)
BY DEF Keeps

\* Replies answer their paths in any tree that an answering tree keeps.
LEMMA AnswersKept ==
    ASSUME NEW k \in Nat, NEW l \in Nat, NEW t, NEW u, Tree(t, k), Tree(u, l), Keeps(u, t),
           AnswersIts(u)
    PROVE  AnswersIts(t)
<1>1. \A n \in Nodes(t) \cup {Root} : Path(t, n) = Path(u, n)
  BY PathsAgree DEF Keeps
<1>2. \A n \in Nodes(t) : /\ t.parent[n] \in Nodes(t) \cup {Root} /\ n \in Nodes(u)
                          /\ u.parent[n] = t.parent[n] /\ u.role[n] = t.role[n]
  BY DEF Tree, Keeps
<1> QED BY <1>1, <1>2 DEF AnswersIts

\* What Settled gives, and what it says of the window's tree.
LEMMA Settling ==
    ASSUME Typed, NEW v, Shape(v), Sound(v.tree), FreshIsLeaf(v), Unanswered(Settled(v)) = {}
    PROVE  /\ Sound(Settled(v)) /\ Keeps(v.tree, Settled(v))
           /\ ~v.reply.fresh \/ v.reply.question \notin Nodes(v.tree) => Settled(v) = v.tree
           /\ Unanswered(v.tree) \subseteq IF v.reply.fresh THEN {v.reply.question} ELSE {}
<1> DEFINE t == v.tree
           q == v.reply.question
           u == Settled(v)
<1>0. Born \in Nat
  BY LenProperties DEF Typed, Born
<1>1. CASE v.reply.fresh /\ q \in Nodes(t)
  <2>1. IsLeaf(t, q) /\ u = RemoveLeaf(t, q)
    BY <1>1 DEF FreshIsLeaf, Settled, UndoNewUser
  <2>2. /\ Tree(u, Born) /\ Nodes(u) = Nodes(t) \ {q}
        /\ \A m \in Nodes(u) : u.parent[m] = t.parent[m] /\ u.role[m] = t.role[m]
    <3> HIDE DEF u
    <3> QED BY <2>1, <1>0, <1>1, RemoveIsTree DEF Sound
  <2>3. Keeps(t, u)
    BY <2>2 DEF Keeps
  <2>4. AnswersIts(u)
    <3> HIDE DEF u
    <3> QED BY <2>2, <2>3, <1>0, AnswersKept DEF Sound
  <2>5. Unanswered(t) \subseteq {q}
    <3> SUFFICES ASSUME NEW n \in Unanswered(t), n # q PROVE FALSE
      OBVIOUS
    <3>1. n \in Nodes(t) /\ t.role[n] = "user" /\ \A m \in Nodes(t) : t.parent[m] # n
      BY <1>0, UnansweredHasNone DEF Sound
    <3>2. n \in Nodes(u) /\ u.role[n] = "user" /\ \A m \in Nodes(u) : u.parent[m] # n
      BY <2>2, <3>1
    <3>3. n \in Unanswered(u)
      <4> HIDE DEF u
      <4> QED BY <2>2, <3>2, <1>0, UnansweredHasNone
    <3> QED BY <3>3
  <2> QED BY <1>1, <2>2, <2>3, <2>4, <2>5 DEF Sound
<1>2. CASE ~(v.reply.fresh /\ q \in Nodes(t))
  <2>1. u = t
    BY <1>2 DEF Settled, UndoNewUser
  <2> QED BY <2>1, KeepsItself
<1> QED BY <1>1, <1>2

-----------------------------------------------------------------------------
(* What an unrelated step leaves as it is. *)

\* Chats are begun and messages made; none of either is taken back.
Later ==
    /\ Typed'
    /\ begun <= begun'
    /\ Born <= Born'
    /\ \A n \in 1..Born : prompt'[n] = prompt[n]

LEMMA SoundStays ==
    ASSUME Typed, Later, NEW t, Sound(t)
    PROVE  Sound(t)'
<1>1. Born \in Nat /\ Born' \in Nat /\ Born <= Born'
  BY LenProperties DEF Typed, Later, Born
<1>2. Tree(t, Born')
  BY <1>1, TreeGrows DEF Sound
<1>3. Nodes(t) \subseteq 1..Born
  BY DEF Sound, Tree
<1>4. AnswersIts(t)'
  BY <1>3 DEF AnswersIts, Later, Sound
<1> QED BY <1>2, <1>4 DEF Sound

LEMMA FileStays ==
    ASSUME Typed, Later, NEW f, FileOK(f)
    PROVE  FileOK(f)'
<1>1. Sound(Loaded(f))'
  BY SoundStays DEF FileOK
<1> QED BY <1>1 DEF FileOK, Finished, Unanswered

LEMMA WindowStays ==
    ASSUME Typed, Later, NEW v, WindowOK(v)
    PROVE  WindowOK(v)'
<1>1. Sound(v.tree)'
  BY SoundStays DEF WindowOK
<1>2. Born \in Nat /\ Born' \in Nat /\ Born <= Born'
  BY LenProperties DEF Typed, Later, Born
<1>3. Shape(v)'
  BY DEF WindowOK, Shape, Later, Typed
<1>4. AsksItsPath(v)'
  BY <1>2 DEF WindowOK, AsksItsPath
<1>5. FreshIsLeaf(v)' /\ EditIsSafe(v)' /\ Unanswered(Settled(v))' = {}
  BY DEF WindowOK, FreshIsLeaf, EditIsSafe, Unanswered, Settled
<1> QED BY <1>1, <1>3, <1>4, <1>5 DEF WindowOK

\* A step on one window that saves nothing leaves a chat at home, if the window
\* stays on the chat and keeps what it had settled.
LEMMA HomeStays ==
    ASSUME IInv, NEW c \in Chats, AtHome(c), NEW w \in Windows, NEW v,
           window' = [window EXCEPT ![w] = v], UNCHANGED <<files, index>>,
           v.chat = c => window[w].chat = c /\ Keeps(Settled(v), Settled(window[w]))
    PROVE  AtHome(c)'
<1>1. DOMAIN window = Windows
  BY DEF IInv, Typed
<1>2. window'[w] = v /\ \A u \in Windows : u # w => window'[u] = window[u]
  BY <1>1
<1>3. \A u \in OpenOn(c)' : u \in OpenOn(c)
  BY <1>2 DEF OpenOn
<1>4. ASSUME NEW u \in OpenOn(c)'
      PROVE  Keeps(Settled(window'[u]), Loaded(files[c]))
  <2>1. u \in OpenOn(c) /\ u \in Windows
    BY <1>3 DEF OpenOn
  <2>2. Keeps(Settled(window[u]), Loaded(files[c]))
    BY <2>1 DEF AtHome
  <2>3. CASE u = w
    <3>1. Keeps(Settled(window'[u]), Settled(window[u]))
      BY <1>2, <2>3 DEF OpenOn
    <3> QED BY <2>2, <3>1, KeepsOn
  <2>4. CASE u # w
    BY <1>2, <2>1, <2>2, <2>4
  <2> QED BY <2>3, <2>4
<1>5. (\A w1, w2 \in OpenOn(c) : w1 = w2)'
  BY <1>3 DEF AtHome
<1>6. Exists(c)' = Exists(c) /\ index'[c] = index[c] /\ files'[c] = files[c]
  BY DEF Exists
<1> QED BY <1>3, <1>4, <1>5, <1>6 DEF AtHome

\* The other windows are as good as they were.
LEMMA OthersStay ==
    ASSUME IInv, Later, NEW w \in Windows, NEW v, window' = [window EXCEPT ![w] = v],
           v.chat # 0 => WindowOK(v)'
    PROVE  \A u \in Windows : Open(u)' => WindowOK(window[u])'
<1>1. DOMAIN window = Windows
  BY DEF IInv, Typed
<1>2. window'[w] = v /\ \A u \in Windows : u # w => window'[u] = window[u]
  BY <1>1
<1>3. \A x : WindowOK(x) => WindowOK(x)'
  BY WindowStays DEF IInv
<1>4. ASSUME NEW u \in Windows, Open(u)' PROVE WindowOK(window[u])'
  <2>1. CASE u = w
    BY <1>2, <1>4, <2>1 DEF Open
  <2>2. CASE u # w
    <3>1. window'[u] = window[u] /\ WindowOK(window[u])
      BY <1>2, <1>4, <2>2 DEF IInv, Open
    <3> QED BY <3>1, <1>3
  <2> QED BY <2>1, <2>2
<1> QED BY <1>4

\* Every file is as good as it was if none is written.
LEMMA FilesStay ==
    ASSUME IInv, Later, UNCHANGED <<files, index>>
    PROVE  /\ \A c \in Chats : FileOK(files[c])'
           /\ \A c \in Chats : c > begun' => ~Exists(c)' /\ index'[c] = 0
           /\ Adds
<1>1. \A f : FileOK(f) => FileOK(f)'
  BY FileStays DEF IInv
<1>2. \A c \in Chats : FileOK(files[c]) /\ files'[c] = files[c]
  BY DEF IInv
<1>3. \A c \in Chats : FileOK(files[c])'
  BY <1>1, <1>2
<1>4. \A c \in Chats : c > begun' => c > begun
  BY DEF Later, IInv, Typed, Chats
<1>5. \A c \in Chats : Exists(c)' = Exists(c)
  BY DEF Exists
<1>6. Adds
  BY DEF Adds
<1> QED BY <1>3, <1>4, <1>5, <1>6 DEF IInv

\* What a step has to show that saves nothing and stays on its chat.
LEMMA NothingSaved ==
    ASSUME IInv, Later, NEW w \in Windows, NEW v,
           window' = [window EXCEPT ![w] = v], UNCHANGED <<files, index, shared>>,
           v.chat = window[w].chat, WindowOK(v)', Keeps(Settled(v), Settled(window[w]))
    PROVE  IInv' /\ Adds
<1>1. \A u \in Windows : Open(u)' => WindowOK(window[u])'
  BY OthersStay
<1>2. \A c \in Chats : c \notin shared => AtHome(c)'
  BY HomeStays DEF IInv
<1> QED BY <1>1, <1>2, FilesStay DEF IInv, Later

-----------------------------------------------------------------------------
(* Saving. *)

\* What a file tells of the tree that it was made of.
LEMMA FileTells ==
    ASSUME NEW k \in Nat, NEW f, f = Saved(Loaded(f)), Tree(Loaded(f), k)
    PROVE  /\ f.nodes # <<>> <=> Nodes(Loaded(f)) # {}
           /\ Len(f.nodes) = Cardinality(Nodes(Loaded(f))) /\ Len(f.nodes) \in Nat
           /\ ToSet(f.nodes) = {Entry(Loaded(f), n) : n \in Nodes(Loaded(f))}
<1> DEFINE t == Loaded(f)
<1>1. f = Saved(t) /\ Tree(t, k)
  OBVIOUS
<1> HIDE DEF t
<1>2. /\ Saved(t).nodes = <<>> <=> Nodes(t) = {}
      /\ Len(Saved(t).nodes) = Cardinality(Nodes(t)) /\ Len(Saved(t).nodes) \in Nat
      /\ ToSet(Saved(t).nodes) = {Entry(t, n) : n \in Nodes(t)}
  BY <1>1, SavedLists, SavedEntries
<1> QED BY <1>1, <1>2 DEF t

\* A tree that keeps another has at least as many messages.
LEMMA KeepsCount ==
    ASSUME NEW k \in Nat, NEW t, NEW u, Tree(u, k), Keeps(u, t)
    PROVE  /\ Cardinality(Nodes(t)) \in Nat /\ Cardinality(Nodes(u)) \in Nat
           /\ Cardinality(Nodes(t)) <= Cardinality(Nodes(u))
           /\ \A n \in Nodes(t) : Entry(t, n) = Entry(u, n)
<1>1. Nodes(t) \in SUBSET Nodes(u) /\ Nodes(u) \in SUBSET (1..k)
  BY DEF Keeps, Tree
<1>2. IsFiniteSet(Nodes(u)) /\ Cardinality(Nodes(u)) \in Nat
  BY <1>1, Places
<1>3. IsFiniteSet(Nodes(t)) /\ Cardinality(Nodes(t)) <= Cardinality(Nodes(u))
  BY <1>1, <1>2, FS_Subset
<1>4. Cardinality(Nodes(t)) \in Nat
  BY <1>3, FS_CardinalityType
<1> QED BY <1>2, <1>3, <1>4 DEF Keeps, Entry

\* A save of a tree that keeps what the file had, wherever it is broken off.
LEMMA SaveAdds ==
    ASSUME NEW k \in Nat, NEW f, f = Saved(Loaded(f)), Tree(Loaded(f), k),
           NEW t, Tree(t, k), Keeps(t, Loaded(f))
    PROVE  /\ Len(f.nodes) \in Nat /\ Len(Saved(t).nodes) \in Nat
           /\ Len(f.nodes) <= Len(Saved(t).nodes)
           /\ Len(Saved(t).nodes) = Cardinality(Nodes(t))
           /\ ToSet(f.nodes) \subseteq ToSet(Saved(t).nodes)
<1> DEFINE u == Loaded(f)
<1>1. /\ Len(f.nodes) = Cardinality(Nodes(u)) /\ Len(f.nodes) \in Nat
      /\ ToSet(f.nodes) = {Entry(u, n) : n \in Nodes(u)}
  BY FileTells
<1>2. /\ Len(Saved(t).nodes) = Cardinality(Nodes(t)) /\ Len(Saved(t).nodes) \in Nat
      /\ ToSet(Saved(t).nodes) = {Entry(t, n) : n \in Nodes(t)}
  BY SavedLists, SavedEntries
<1>3. Keeps(t, u)
  OBVIOUS
<1> HIDE DEF u
<1>4. /\ Cardinality(Nodes(u)) <= Cardinality(Nodes(t))
      /\ \A n \in Nodes(u) : Entry(u, n) = Entry(t, n)
  BY <1>3, KeepsCount
<1>5. Nodes(u) \subseteq Nodes(t)
  BY <1>3 DEF Keeps
<1>6. {Entry(u, n) : n \in Nodes(u)} \subseteq {Entry(t, n) : n \in Nodes(t)}
  BY <1>4, <1>5
<1> QED BY <1>1, <1>2, <1>4, <1>6

\* What a step has to show that saves the tree of its window.
LEMMA SomethingSaved ==
    ASSUME IInv, Later, NEW w \in Windows, Open(w), NEW v, NEW done \in Saves,
           window' = [window EXCEPT ![w] = v], Save(v.chat, v.tree, done),
           UNCHANGED <<begun, shared>>,
           v.chat = window[w].chat, WindowOK(v)', Settled(v) = v.tree,
           Keeps(v.tree, Settled(window[w])), Finished(v.tree), Nodes(v.tree) # {}
    PROVE  IInv' /\ Adds
<1> DEFINE c == v.chat
           t == v.tree
<1>0. /\ DOMAIN window = Windows /\ DOMAIN files = Chats /\ index \in [Chats -> Nat]
      /\ Born' \in Nat /\ Born \in Nat /\ Born <= Born'
  BY LenProperties DEF IInv, Typed, Later, Born
<1>1. c \in Chats /\ c <= begun /\ c # 0
  <2>1. WindowOK(window[w]) /\ begun \in 0..MaxChats
    BY DEF IInv, Typed
  <2>2. c \in 1..begun
    BY <2>1 DEF WindowOK, Shape
  <2> HIDE DEF c
  <2> QED BY <2>1, <2>2, BoundsAssumption DEF Chats
<1>2. window'[w] = v /\ \A u \in Windows : u # w => window'[u] = window[u]
  BY <1>0
<1>3. /\ \A d \in Chats : d # c => files'[d] = files[d] /\ index'[d] = index[d]
      /\ files'[c] = IF done = "none" THEN files[c] ELSE Saved(t)
      /\ index'[c] = IF done = "all" THEN Cardinality(Nodes(t)) ELSE index[c]
  BY <1>0, <1>1 DEF Save
<1>4. Sound(t)' /\ Tree(t, Born')
  BY DEF WindowOK, Sound
<1>5. Loaded(Saved(t)) = t
  BY <1>0, <1>4, LoadedIsSaved
<1> HIDE DEF c, t
<1>6. ASSUME NEW d \in Chats
      PROVE  FileOK(files[d])' /\ files[d] = Saved(Loaded(files[d])) /\ Tree(Loaded(files[d]), Born')
  <2>1. FileOK(files[d]) /\ \A f : FileOK(f) => FileOK(f)'
    BY FileStays DEF IInv
  <2>2. files[d] = Saved(Loaded(files[d])) /\ Tree(Loaded(files[d]), Born')
    BY <2>1, <1>0, TreeGrows DEF FileOK, Sound
  <2>3. CASE files'[d] = files[d]
    BY <2>1, <2>2, <2>3
  <2>4. CASE files'[d] # files[d]
    <3>1. files'[d] = Saved(t)
      BY <2>4, <1>3
    <3>2. Finished(t)'
      BY DEF t, Finished, Unanswered
    <3>3. FileOK(files[d])'
      BY <3>1, <3>2, <1>4, <1>5 DEF FileOK
    <3> QED BY <2>2, <3>3
  <2> QED BY <2>3, <2>4
<1>7. \A u \in Windows : Open(u)' => WindowOK(window[u])'
  BY OthersStay
<1>8. \A d \in Chats : d > begun' => ~Exists(d)' /\ index'[d] = 0
  <2>1. \A d \in Chats : d > begun' => d # c
    BY <1>1 DEF Chats, IInv, Typed
  <2> QED BY <2>1, <1>3 DEF IInv, Exists
<1>9. ASSUME c \notin shared
      PROVE  /\ Keeps(t, Loaded(files[c])) /\ OpenOn(c) = {w}
             /\ ~Exists(c) => index[c] = 0
             /\ Exists(c) => index[c] <= Len(files[c].nodes)
  <2>1. AtHome(c) /\ w \in OpenOn(c)
    BY <1>1, <1>9 DEF IInv, OpenOn, c
  <2>2. Keeps(Settled(window[w]), Loaded(files[c])) /\ (~Exists(c) => index[c] = 0)
    BY <2>1 DEF AtHome
  <2>3. Keeps(t, Loaded(files[c]))
    BY <2>2, KeepsOn DEF t
  <2>4. OpenOn(c) = {w}
    BY <2>1 DEF AtHome
  <2> QED BY <2>1, <2>2, <2>3, <2>4 DEF AtHome
<1>10. ASSUME c \notin shared
       PROVE  /\ Len(files[c].nodes) \in Nat /\ Len(Saved(t).nodes) \in Nat
              /\ Len(files[c].nodes) <= Len(Saved(t).nodes)
              /\ Len(Saved(t).nodes) = Cardinality(Nodes(t))
              /\ ToSet(files[c].nodes) \subseteq ToSet(Saved(t).nodes)
  <2>1. Keeps(t, Loaded(files[c]))
    BY <1>9, <1>10
  <2> QED BY <2>1, <1>0, <1>1, <1>4, <1>6, SaveAdds
<1>11. ASSUME c \notin shared PROVE AtHome(c)'
  <2>1. OpenOn(c)' \subseteq {w}
    BY <1>2, <1>9, <1>11 DEF OpenOn
  <2>2. Keeps(Settled(window'[w]), Loaded(files'[c]))
    <3>1. Settled(window'[w]) = t
      BY <1>2 DEF t
    <3>2. CASE done = "none"
      BY <3>1, <3>2, <1>3, <1>9, <1>11
    <3>3. CASE done # "none"
      BY <3>1, <3>3, <1>3, <1>5, KeepsItself
    <3> QED BY <3>2, <3>3
  <2>3. Saved(t).nodes # <<>>
    <3>1. Nodes(t) # {}
      BY DEF t
    <3> QED BY <3>1, <1>0, <1>4, SavedLists
  <2>4. ~Exists(c)' => index'[c] = 0
    BY <2>3, <1>3, <1>9, <1>11 DEF Exists, Saves
  <2>5. Exists(c)' => index'[c] <= Len(files'[c].nodes)
    <3>1. index[c] \in Nat
      BY <1>0, <1>1
    <3>2. CASE done = "none"
      BY <3>2, <1>3, <1>9, <1>11 DEF Exists
    <3>3. CASE done = "file"
      <4>1. files'[c] = Saved(t) /\ index'[c] = index[c]
        BY <3>3, <1>3
      <4>2. index[c] <= Len(Saved(t).nodes)
        BY <3>1, <1>9, <1>10, <1>11
      <4> QED BY <4>1, <4>2
    <3>4. CASE done = "all"
      BY <3>4, <1>3, <1>10, <1>11
    <3> QED BY <3>2, <3>3, <3>4 DEF Saves
  <2> QED BY <2>1, <2>2, <2>4, <2>5 DEF AtHome
<1>12. ASSUME NEW d \in Chats, d # c, d \notin shared PROVE AtHome(d)'
  <2>1. AtHome(d) /\ files'[d] = files[d] /\ index'[d] = index[d]
    BY <1>3, <1>12 DEF IInv
  <2>2. OpenOn(d)' \subseteq OpenOn(d) /\ \A u \in OpenOn(d)' : window'[u] = window[u]
    BY <1>2, <1>12 DEF OpenOn, c
  <2>3. \A u \in OpenOn(d)' : Settled(window'[u]) = Settled(window[u])
    BY <2>2
  <2> QED BY <2>1, <2>2, <2>3 DEF AtHome, Exists
<1>13. Adds
  <2> SUFFICES ASSUME NEW d \in Chats, d \notin shared
               PROVE  ToSet(files[d].nodes) \subseteq ToSet(files'[d].nodes)
    BY DEF Adds
  <2> QED BY <1>3, <1>10
<1> QED
  <2>1. Typed'
    BY DEF Later
  <2> QED BY <2>1, <1>6, <1>7, <1>8, <1>11, <1>12, <1>13 DEF IInv

-----------------------------------------------------------------------------
(* The steps. *)

\* The types after a step on a window, whatever it saves.
LEMMA TypesStay ==
    ASSUME Typed, NEW w \in Windows, NEW v, window' = [window EXCEPT ![w] = v], UNCHANGED begun,
           UNCHANGED <<files, index>>
              \/ \E c, done : Save(c, v.tree, done) /\ Cardinality(Nodes(v.tree)) \in Nat,
           prompt' \in Seq(Seq(Nat))
    PROVE  Typed' /\ begun <= begun'
<1>1. begun \in 0..MaxChats /\ begun <= begun'
  BY BoundsAssumption DEF Typed
<1>2. window' = [u \in Windows |-> window'[u]]
  BY DEF Typed
<1>3. files' = [c \in Chats |-> files'[c]] /\ index' \in [Chats -> Nat]
  <2>1. CASE UNCHANGED <<files, index>>
    BY <2>1 DEF Typed
  <2>2. CASE \E c, done : Save(c, v.tree, done) /\ Cardinality(Nodes(v.tree)) \in Nat
    <3>1. PICK c, done : Save(c, v.tree, done) /\ Cardinality(Nodes(v.tree)) \in Nat
      BY <2>2
    <3>2. DOMAIN files' = Chats /\ files' = [d \in DOMAIN files' |-> files'[d]]
      BY <3>1 DEF Save, Typed
    <3>3. index' \in [Chats -> Nat]
      BY <3>1 DEF Save, Typed
    <3> QED BY <3>2, <3>3
  <2> QED BY <2>1, <2>2
<1> QED BY <1>1, <1>2, <1>3 DEF Typed

LEMMA NoMessageMade ==
    ASSUME Typed, NEW w \in Windows, NEW v, window' = [window EXCEPT ![w] = v],
           UNCHANGED <<begun, prompt>>,
           UNCHANGED <<files, index>>
              \/ \E c, done : Save(c, v.tree, done) /\ Cardinality(Nodes(v.tree)) \in Nat
    PROVE  Later /\ Born' = Born /\ Born \in Nat
<1>1. prompt \in Seq(Seq(Nat)) /\ prompt' \in Seq(Seq(Nat)) /\ Born \in Nat /\ Born' = Born
  BY LenProperties DEF Typed, Born
<1>2. Typed' /\ begun <= begun'
  BY <1>1, TypesStay
<1> QED BY <1>1, <1>2 DEF Later

\* What is asked, or answered, is appended to the history.
LEMMA MessageMade ==
    ASSUME Typed, NEW w \in Windows, NEW v, window' = [window EXCEPT ![w] = v],
           UNCHANGED begun, NEW x \in Seq(Nat), prompt' = Append(prompt, x),
           UNCHANGED <<files, index>>
              \/ \E c, done : Save(c, v.tree, done) /\ Cardinality(Nodes(v.tree)) \in Nat
    PROVE  Later /\ Born' = Born + 1 /\ Born \in Nat /\ prompt'[Born + 1] = x
<1>1. /\ prompt \in Seq(Seq(Nat)) /\ Len(prompt) \in Nat
      /\ prompt' \in Seq(Seq(Nat)) /\ Len(prompt') = Len(prompt) + 1
      /\ \A i \in 1..Len(prompt) : prompt'[i] = prompt[i]
      /\ prompt'[Len(prompt) + 1] = x
  BY AppendProperties, LenProperties DEF Typed
<1>2. Typed' /\ begun <= begun'
  BY <1>1, TypesStay
<1> QED BY <1>1, <1>2 DEF Later, Born

\* The shape of a window that is not asking.
LEMMA IdleWindow ==
    ASSUME IInv, NEW w \in Windows, Open(w), ~Busy(w)
    PROVE  /\ WindowOK(window[w]) /\ window[w].reply.state = "none" /\ ~window[w].reply.fresh
           /\ Settled(window[w]) = window[w].tree /\ Unanswered(window[w].tree) = {}
           /\ Born \in Nat /\ Tree(window[w].tree, Born)
<1>1. WindowOK(window[w]) /\ Typed /\ Born \in Nat
  BY LenProperties DEF IInv, Typed, Born
<1>2. window[w].reply.state = "none" /\ ~window[w].reply.fresh
  BY <1>1 DEF Busy, WindowOK, FreshIsLeaf
<1>3. Settled(window[w]) = window[w].tree
  BY <1>2 DEF Settled, UndoNewUser
<1> QED BY <1>1, <1>2, <1>3 DEF WindowOK, Sound

LEMMA CancelEditKeeps ==
    ASSUME IInv, NEW w \in Windows, CancelEdit(w)
    PROVE  IInv' /\ Adds
<1>1. PICK o : o = window[w]
  OBVIOUS
<1>2. Open(w) /\ WindowOK(o) /\ Shape(o) /\ Typed
  BY <1>1 DEF CancelEdit, IInv, WindowOK
<1>3. PICK v : v = [chat |-> o.chat, tree |-> o.tree, seen |-> o.seen, edit |-> NoEdit,
                    reply |-> o.reply]
  OBVIOUS
<1>4. window' = [window EXCEPT ![w] = v]
  <2>1. [o EXCEPT !.edit = NoEdit] = v
    BY <1>2, <1>3 DEF Shape
  <2> QED BY <1>1, <2>1 DEF CancelEdit
<1>5. Later
  BY <1>2, <1>4, NoMessageMade DEF CancelEdit
<1>6. WindowOK(v)
  BY <1>2, <1>3 DEF WindowOK, Shape, Sound, AsksItsPath, FreshIsLeaf, EditIsSafe, NoEdit, Settled, Root
<1>7. WindowOK(v)'
  BY <1>2, <1>5, <1>6, WindowStays
<1>8. Settled(v) = Settled(o)
  BY <1>3 DEF Settled
<1>9. v.chat = window[w].chat /\ Keeps(Settled(v), Settled(window[w]))
  BY <1>1, <1>3, <1>8, KeepsItself
<1>10. UNCHANGED <<files, index, shared>>
  BY DEF CancelEdit
<1> QED BY <1>4, <1>5, <1>7, <1>9, <1>10, NothingSaved

\* Stop and Run change nothing but the state of the reply.
LEMMA ReplyGoesOn ==
    ASSUME IInv, NEW w \in Windows, Open(w), window[w].reply.state # "none",
           NEW s \in Running \cup Ended,
           window' = [window EXCEPT ![w] =
                        [window[w] EXCEPT !.reply = [window[w].reply EXCEPT !.state = s]]],
           UNCHANGED <<files, index, begun, prompt, shared>>
    PROVE  IInv' /\ Adds
<1>1. PICK o : o = window[w]
  OBVIOUS
<1>2. WindowOK(o) /\ Shape(o) /\ Typed /\ o.reply.state # "none"
  BY <1>1 DEF IInv, WindowOK
<1>3. PICK r : r = [o.reply EXCEPT !.state = s]
  OBVIOUS
<1>4. /\ r \in Replies /\ r.state = s /\ r.question = o.reply.question
      /\ r.fresh = o.reply.fresh /\ r.sent = o.reply.sent
  <2>1. o.reply \in Replies
    BY <1>2 DEF Shape
  <2> QED BY <1>3, <2>1 DEF Replies
<1>5. PICK v : v = [chat |-> o.chat, tree |-> o.tree, seen |-> o.seen, edit |-> o.edit,
                    reply |-> r]
  OBVIOUS
<1>6. window' = [window EXCEPT ![w] = v]
  <2>1. [o EXCEPT !.reply = r] = v
    BY <1>2, <1>5 DEF Shape
  <2> QED BY <1>1, <1>3, <2>1
<1>7. Later
  BY <1>2, <1>6, NoMessageMade
<1>8. Settled(v) = Settled(o)
  BY <1>4, <1>5 DEF Settled, UndoNewUser
<1>9. WindowOK(v)
  <2>1. Shape(v)
    BY <1>2, <1>4, <1>5 DEF Shape
  <2>2. s # "none"
    BY DEF Running, Ended
  <2>3. AsksItsPath(v) /\ FreshIsLeaf(v) /\ EditIsSafe(v)
    BY <2>2, <1>2, <1>4, <1>5 DEF WindowOK, AsksItsPath, FreshIsLeaf, EditIsSafe
  <2> QED BY <2>1, <2>3, <1>2, <1>5, <1>8 DEF WindowOK
<1>10. WindowOK(v)'
  BY <1>2, <1>7, <1>9, WindowStays
<1>11. v.chat = window[w].chat /\ Keeps(Settled(v), Settled(window[w]))
  BY <1>1, <1>5, <1>8, KeepsItself
<1> QED BY <1>6, <1>7, <1>10, <1>11, NothingSaved

LEMMA StopKeeps ==
    ASSUME IInv, NEW w \in Windows, Stop(w)
    PROVE  IInv' /\ Adds
<1>1. /\ Open(w) /\ window[w].reply.state = "asking"
      /\ UNCHANGED <<files, index, begun, prompt, shared>>
      /\ window' = [window EXCEPT ![w] =
                      [window[w] EXCEPT !.reply = [window[w].reply EXCEPT !.state = "stopped"]]]
  BY DEF Stop, Halted
<1> QED BY <1>1, ReplyGoesOn DEF Running

LEMMA RunKeeps ==
    ASSUME IInv, NEW w \in Windows, NEW end \in Ended, Run(w, end)
    PROVE  IInv' /\ Adds
<1>1. /\ Open(w) /\ window[w].reply.state # "none"
      /\ UNCHANGED <<files, index, begun, prompt, shared>>
      /\ window' = [window EXCEPT ![w] =
                      [window[w] EXCEPT !.reply = [window[w].reply EXCEPT !.state = end]]]
  BY DEF Run, Running
<1> QED BY <1>1, ReplyGoesOn

LEMMA StartEditKeeps ==
    ASSUME IInv, NEW w \in Windows, NEW n, StartEdit(w, n)
    PROVE  IInv' /\ Adds
<1>1. PICK o : o = window[w]
  OBVIOUS
<1>2. /\ Open(w) /\ ~Busy(w) /\ n \in Nodes(o.tree) /\ Typed
      /\ window' = [window EXCEPT ![w].edit = [on |-> TRUE, parent |-> o.tree.parent[n]]]
      /\ UNCHANGED <<files, index, begun, prompt, shared>>
  BY <1>1 DEF StartEdit, Linked, IInv
<1>3. WindowOK(o) /\ Shape(o) /\ ~o.reply.fresh /\ Tree(o.tree, Born) /\ Born \in Nat
  BY <1>1, <1>2, IdleWindow DEF WindowOK
<1>4. PICK e : e = [on |-> TRUE, parent |-> o.tree.parent[n]]
  OBVIOUS
<1>5. CanAdd(o.tree, e.parent) /\ e \in [on : BOOLEAN, parent : Nat]
  <2>1. o.tree.parent[n] \in Nodes(o.tree) \cup {Root} /\ Nodes(o.tree) \subseteq Nat /\ Root \in Nat
    BY <1>2, <1>3 DEF Tree, Root
  <2> QED BY <2>1, <1>4 DEF CanAdd
<1>6. PICK v : v = [chat |-> o.chat, tree |-> o.tree, seen |-> o.seen, edit |-> e,
                    reply |-> o.reply]
  OBVIOUS
<1>7. window' = [window EXCEPT ![w] = v]
  <2>1. [o EXCEPT !.edit = e] = v
    BY <1>3, <1>6 DEF Shape
  <2> QED BY <1>1, <1>2, <1>4, <2>1
<1>8. Later
  BY <1>2, <1>7, NoMessageMade
<1>9. WindowOK(v)
  BY <1>3, <1>5, <1>6
  DEF WindowOK, Shape, Sound, AsksItsPath, FreshIsLeaf, EditIsSafe, Settled
<1>10. WindowOK(v)'
  BY <1>2, <1>8, <1>9, WindowStays
<1>11. v.chat = window[w].chat /\ Keeps(Settled(v), Settled(window[w]))
  BY <1>1, <1>6, KeepsItself DEF Settled
<1> QED BY <1>2, <1>7, <1>8, <1>10, <1>11, NothingSaved

\* A window that is open has these five fields, and the steps that replace some of them.
Framed(o) ==
    o = [chat |-> o.chat, tree |-> o.tree, seen |-> o.seen, edit |-> o.edit, reply |-> o.reply]

WithTree(o, t, s)           == [o EXCEPT !.tree = t, !.seen = s]
WithReply(o, t, s, r)       == [o EXCEPT !.tree = t, !.seen = s, !.reply = r]
WithQuestion(o, t, s, e, r) == [o EXCEPT !.tree = t, !.seen = s, !.edit = e, !.reply = r]
WithChat(o, c, t, s, e, r) ==
    [o EXCEPT !.chat = c, !.tree = t, !.seen = s, !.edit = e, !.reply = r]

LEMMA Redrawn ==
    ASSUME NEW o, NEW t, NEW s, Framed(o)
    PROVE  WithTree(o, t, s)
             = [chat |-> o.chat, tree |-> t, seen |-> s, edit |-> o.edit, reply |-> o.reply]
<1>1. PICK a : a = [o EXCEPT !.tree = t]
  OBVIOUS
<1>2. a = [chat |-> o.chat, tree |-> t, seen |-> o.seen, edit |-> o.edit, reply |-> o.reply]
  BY <1>1 DEF Framed
<1>3. WithTree(o, t, s) = [a EXCEPT !.seen = s]
  BY <1>1, Zenon DEF WithTree
<1> QED BY <1>2, <1>3

LEMMA RedrawnWithReply ==
    ASSUME NEW o, NEW t, NEW s, NEW r, Framed(o)
    PROVE  WithReply(o, t, s, r)
             = [chat |-> o.chat, tree |-> t, seen |-> s, edit |-> o.edit, reply |-> r]
<1>1. PICK a : a = WithTree(o, t, s)
  OBVIOUS
<1>2. a = [chat |-> o.chat, tree |-> t, seen |-> s, edit |-> o.edit, reply |-> o.reply]
  BY <1>1, Redrawn
<1>3. WithReply(o, t, s, r) = [a EXCEPT !.reply = r]
  BY <1>1, Zenon DEF WithTree, WithReply
<1> QED BY <1>2, <1>3

LEMMA RedrawnForQuestion ==
    ASSUME NEW o, NEW t, NEW s, NEW e, NEW r, Framed(o)
    PROVE  WithQuestion(o, t, s, e, r)
             = [chat |-> o.chat, tree |-> t, seen |-> s, edit |-> e, reply |-> r]
<1>1. PICK a : a = WithTree(o, t, s)
  OBVIOUS
<1>2. a = [chat |-> o.chat, tree |-> t, seen |-> s, edit |-> o.edit, reply |-> o.reply]
  BY <1>1, Redrawn
<1>3. PICK b : b = [a EXCEPT !.edit = e]
  OBVIOUS
<1>4. b = [chat |-> o.chat, tree |-> t, seen |-> s, edit |-> e, reply |-> o.reply]
  BY <1>2, <1>3
<1>5. WithQuestion(o, t, s, e, r) = [b EXCEPT !.reply = r]
  BY <1>1, <1>3, Zenon DEF WithTree, WithQuestion
<1> QED BY <1>4, <1>5

LEMMA RedrawnForChat ==
    ASSUME NEW o, NEW c, NEW t, NEW s, NEW e, NEW r, Framed(o)
    PROVE  WithChat(o, c, t, s, e, r)
             = [chat |-> c, tree |-> t, seen |-> s, edit |-> e, reply |-> r]
<1>1. PICK a : a = [o EXCEPT !.chat = c]
  OBVIOUS
<1>2. a = [chat |-> c, tree |-> o.tree, seen |-> o.seen, edit |-> o.edit, reply |-> o.reply]
  BY <1>1 DEF Framed
<1>3. Framed(a) /\ a.chat = c
  BY <1>2 DEF Framed
<1>4. WithQuestion(a, t, s, e, r)
        = [chat |-> a.chat, tree |-> t, seen |-> s, edit |-> e, reply |-> r]
  BY <1>3, RedrawnForQuestion
<1>5. WithChat(o, c, t, s, e, r) = WithQuestion(a, t, s, e, r)
  BY <1>1, Zenon DEF WithChat, WithQuestion
<1> QED BY <1>3, <1>4, <1>5

\* Selecting a message changes nothing but the selection.
LEMMA Selecting ==
    ASSUME Typed, NEW t, Sound(t), NEW m \in Nodes(t) \cup {Root}
    PROVE  LET u == Select(t, m)
           IN  /\ Sound(u) /\ Keeps(u, t) /\ Unanswered(u) = Unanswered(t)
               /\ Nodes(u) = Nodes(t) /\ u.current = m
               /\ \A p : IsLeaf(u, p) <=> IsLeaf(t, p)
<1> DEFINE u == Select(t, m)
<1>0. Born \in Nat /\ Tree(t, Born)
  BY LenProperties DEF Typed, Born, Sound
<1>1. /\ Tree(u, Born) /\ Nodes(u) = Nodes(t) /\ u.parent = t.parent /\ u.role = t.role
      /\ u.kids = t.kids /\ u.current = m
  BY <1>0, SelectIsTree
<1> HIDE DEF u
<1>2. Keeps(u, t) /\ Keeps(t, u)
  BY <1>1 DEF Keeps
<1>3. AnswersIts(u)
  BY <1>0, <1>1, <1>2, AnswersKept DEF Sound
<1>4. Unanswered(u) = Unanswered(t) /\ \A p : IsLeaf(u, p) <=> IsLeaf(t, p)
  BY <1>1 DEF Unanswered, IsLeaf
<1> QED BY <1>1, <1>2, <1>3, <1>4 DEF Sound, u

LEMMA RegenerateKeeps ==
    ASSUME IInv, NEW w \in Windows, NEW n, NEW goes \in BOOLEAN, Regenerate(w, n, goes)
    PROVE  IInv' /\ Adds
<1>1. PICK o : o = window[w]
  OBVIOUS
<1>2. /\ Open(w) /\ ~Busy(w) /\ n \in Nodes(o.tree) /\ o.tree.role[n] = "assistant" /\ Typed
      /\ UNCHANGED <<files, index, begun, prompt, shared>>
  BY <1>1 DEF Regenerate, Linked, IInv
<1>3. /\ WindowOK(o) /\ Shape(o) /\ Sound(o.tree) /\ ~o.reply.fresh /\ o.reply.state = "none"
      /\ Tree(o.tree, Born) /\ Born \in Nat
      /\ Settled(o) = o.tree /\ Unanswered(o.tree) = {}
  BY <1>1, <1>2, IdleWindow DEF WindowOK
<1>4. PICK q : q = o.tree.parent[n]
  OBVIOUS
<1>5. q \in Nodes(o.tree) /\ q \in 1..Born /\ q \in Nat
  BY <1>2, <1>3, <1>4 DEF Tree
<1>6. PICK t : t = Select(o.tree, q)
  OBVIOUS
<1>7. /\ Sound(t) /\ Keeps(t, o.tree) /\ Unanswered(t) = {} /\ Nodes(t) = Nodes(o.tree)
      /\ t.current = q /\ Path(t, q) \in Seq(Nat)
  <2>1. /\ Sound(t) /\ Keeps(t, o.tree) /\ Unanswered(t) = Unanswered(o.tree)
        /\ Nodes(t) = Nodes(o.tree) /\ t.current = q
    BY <1>2, <1>3, <1>5, <1>6, Selecting
  <2>2. Path(t, q) \in Seq(Nat)
    BY <2>1, <1>3, <1>5, PathIsSeq DEF Sound
  <2> QED BY <2>1, <2>2, <1>3
<1>8. PICK r : r = IF goes THEN Asking(t, q, FALSE) ELSE o.reply
  OBVIOUS
<1>9. r \in Replies /\ ~r.fresh
  <2>1. CASE goes
    BY <2>1, <1>5, <1>7, <1>8 DEF Replies, Asking, Running
  <2>2. CASE ~goes
    BY <2>2, <1>3, <1>8 DEF Shape
  <2> QED BY <2>1, <2>2
<1>10. PICK v : v = [chat |-> o.chat, tree |-> t, seen |-> IF goes THEN Path(t, q) ELSE o.seen,
                     edit |-> o.edit, reply |-> r]
  OBVIOUS
<1>11. window' = [window EXCEPT ![w] = v]
  <2>1. Framed(o)
    BY <1>3 DEF Shape, Framed
  <2>2. CASE goes
    <3>1. PICK s : s = Path(t, q)
      OBVIOUS
    <3>2. r = Asking(t, q, FALSE)
      BY <2>2, <1>8
    <3>3. v = [chat |-> o.chat, tree |-> t, seen |-> s, edit |-> o.edit, reply |-> r]
      BY <2>2, <3>1, <1>10
    <3>4. WithReply(o, t, s, r) = v
      BY <2>1, <3>3, RedrawnWithReply
    <3>5. window' = [window EXCEPT ![w] = WithReply(o, t, Path(t, q), Asking(t, q, FALSE))]
      BY <2>2, <1>1, <1>4, <1>6 DEF Regenerate, WithReply
    <3> QED BY <3>1, <3>2, <3>4, <3>5
  <2>3. CASE ~goes
    <3>1. [o EXCEPT !.tree = t] = v
      BY <2>1, <2>3, <1>8, <1>10 DEF Framed
    <3> QED BY <3>1, <2>3, <1>1, <1>4, <1>6 DEF Regenerate
  <2> QED BY <2>2, <2>3
<1>12. Later
  BY <1>2, <1>11, NoMessageMade
<1>13. Settled(v) = t
  BY <1>9, <1>10 DEF Settled, UndoNewUser
<1>14. WindowOK(v)
  <2>1. Shape(v)
    BY <1>3, <1>9, <1>10 DEF Shape
  <2>2. AsksItsPath(v)
    <3>1. CASE goes
      BY <3>1, <1>5, <1>8, <1>10 DEF AsksItsPath, Asking
    <3>2. CASE ~goes
      BY <3>2, <1>3, <1>8, <1>10 DEF AsksItsPath
    <3> QED BY <3>1, <3>2
  <2>3. FreshIsLeaf(v) /\ EditIsSafe(v)
    BY <1>3, <1>7, <1>9, <1>10 DEF WindowOK, FreshIsLeaf, EditIsSafe, CanAdd
  <2> QED BY <2>1, <2>2, <2>3, <1>7, <1>10, <1>13 DEF WindowOK
<1>15. WindowOK(v)'
  BY <1>2, <1>12, <1>14, WindowStays
<1>16. v.chat = window[w].chat /\ Keeps(Settled(v), Settled(window[w]))
  BY <1>1, <1>3, <1>7, <1>10, <1>13
<1> QED BY <1>2, <1>11, <1>12, <1>15, <1>16, NothingSaved

LEMMA SwitchKeeps ==
    ASSUME IInv, NEW w \in Windows, NEW n, NEW step \in {-1, 1}, NEW done \in Saves,
           Switch(w, n, step, done)
    PROVE  IInv' /\ Adds
<1>1. PICK o : o = window[w]
  OBVIOUS
<1>2. Open(w) /\ ~Busy(w) /\ n \in Nodes(o.tree) /\ Typed /\ UNCHANGED <<begun, prompt, shared>>
  BY <1>1 DEF Switch, Linked, IInv
<1>3. /\ WindowOK(o) /\ Shape(o) /\ Sound(o.tree) /\ ~o.reply.fresh /\ o.reply.state = "none"
      /\ Tree(o.tree, Born) /\ Born \in Nat
      /\ Settled(o) = o.tree /\ Unanswered(o.tree) = {}
  BY <1>1, <1>2, IdleWindow DEF WindowOK
<1>4. PICK t : t = SwitchSibling(o.tree, n, step)
  OBVIOUS
<1>5. PICK m \in Nodes(o.tree) : IsLeaf(o.tree, m) /\ t = Select(o.tree, m)
  BY <1>2, <1>3, <1>4, SwitchSelects
<1>6. /\ Sound(t) /\ Keeps(t, o.tree) /\ Unanswered(t) = {} /\ Nodes(t) = Nodes(o.tree)
      /\ t.current = m /\ IsLeaf(t, m)
  BY <1>2, <1>3, <1>5, Selecting
<1>7. PICK v : v = [chat |-> o.chat, tree |-> t, seen |-> Path(t, t.current), edit |-> o.edit,
                    reply |-> o.reply]
  OBVIOUS
<1>8. window' = [window EXCEPT ![w] = v] /\ Save(v.chat, v.tree, done)
  <2>1. Framed(o)
    BY <1>3 DEF Shape, Framed
  <2>2. WithTree(o, t, Path(t, t.current)) = v
    BY <2>1, <1>7, Redrawn
  <2>3. v.chat = o.chat /\ v.tree = t
    BY <1>7
  <2> QED BY <2>2, <2>3, <1>1, <1>4 DEF Switch, WithTree
<1>9. Later
  <2>1. Cardinality(Nodes(v.tree)) \in Nat
    BY <1>3, <1>6, <1>7, KeepsCount, KeepsItself DEF Sound
  <2> QED BY <2>1, <1>2, <1>8, NoMessageMade
<1>10. Settled(v) = t
  BY <1>3, <1>7 DEF Settled, UndoNewUser
<1>11. WindowOK(v)
  <2>1. Shape(v)
    BY <1>3, <1>7 DEF Shape
  <2>2. AsksItsPath(v) /\ FreshIsLeaf(v) /\ EditIsSafe(v)
    BY <1>3, <1>6, <1>7 DEF WindowOK, AsksItsPath, FreshIsLeaf, EditIsSafe, CanAdd
  <2> QED BY <2>1, <2>2, <1>6, <1>7, <1>10 DEF WindowOK
<1>12. WindowOK(v)'
  BY <1>2, <1>9, <1>11, WindowStays
<1>13. /\ v.chat = window[w].chat /\ Settled(v) = v.tree
       /\ Keeps(v.tree, Settled(window[w])) /\ Finished(v.tree) /\ Nodes(v.tree) # {}
  <2>1. v.tree = t
    BY <1>7
  <2>2. Finished(t)
    BY <1>6 DEF Finished
  <2> QED BY <2>1, <2>2, <1>1, <1>3, <1>5, <1>6, <1>7, <1>10
<1> QED BY <1>2, <1>8, <1>9, <1>12, <1>13, SomethingSaved

\* A message added to a tree, by its number: the path to it is asked or has been answered.
LEMMA Adding ==
    ASSUME Typed, Later, Born' = Born + 1, NEW t, Sound(t), NEW p \in Nodes(t) \cup {Root},
           NEW role \in Roles, role = "assistant" => p # Root /\ prompt'[Born + 1] = Path(t, p),
           NEW b, b = Born + 1, NEW u, u = Add(t, b, p, role)
    PROVE  /\ Sound(u)' /\ Keeps(u, t) /\ Nodes(u) = Nodes(t) \cup {b} /\ b \notin Nodes(t)
           /\ b \in Nat /\ b \in 1..Born' /\ u.current = b
           /\ IsLeaf(u, b) /\ RemoveLeaf(u, b) = Select(t, p)
           /\ \A n \in Nodes(u) \cup {Root} : Path(u, n) \in Seq(Nat)
           /\ role = "assistant" => Unanswered(u) \subseteq Unanswered(t) \ {p}
<1>1. Born \in Nat /\ b \in Nat /\ Tree(t, Born)
  BY LenProperties DEF Typed, Born, Sound
<1>2. /\ Tree(u, b) /\ Nodes(u) = Nodes(t) \cup {b} /\ b \notin Nodes(t) /\ u.current = b
      /\ u.parent[b] = p /\ u.role[b] = role
      /\ \A m \in Nodes(t) : u.parent[m] = t.parent[m] /\ u.role[m] = t.role[m]
  BY <1>1, AddIsTree
<1>3. Keeps(u, t)
  BY <1>2 DEF Keeps
<1>4. \A n \in Nodes(t) \cup {Root} : Path(t, n) = Path(u, n)
  BY <1>1, <1>2, PathsAgree
<1>5. AnswersIts(u)'
  <2> SUFFICES ASSUME NEW n \in Nodes(u), u.role[n] = "assistant"
               PROVE  prompt'[n] = Path(u, u.parent[n])
    BY DEF AnswersIts
  <2>1. CASE n = b
    BY <2>1, <1>2, <1>4
  <2>2. CASE n # b
    <3>1. /\ n \in Nodes(t) /\ t.role[n] = "assistant" /\ u.parent[n] = t.parent[n]
          /\ t.parent[n] \in Nodes(t) \cup {Root} /\ n \in 1..Born
      BY <2>2, <1>1, <1>2 DEF Tree
    <3>2. prompt[n] = Path(t, t.parent[n]) /\ prompt'[n] = prompt[n]
      BY <3>1 DEF Sound, AnswersIts, Later
    <3> QED BY <3>1, <3>2, <1>4
  <2> QED BY <2>1, <2>2
<1>6. Sound(u)'
  BY <1>2, <1>5 DEF Sound
<1>7. IsLeaf(u, b) /\ RemoveLeaf(u, b) = Select(t, p)
  BY <1>1, RemoveUndoesAdd
<1>8. \A n \in Nodes(u) \cup {Root} : Path(u, n) \in Seq(Nat)
  BY <1>1, <1>2, PathIsSeq
<1>9. ASSUME role = "assistant"
      PROVE  Unanswered(u) \subseteq Unanswered(t) \ {p}
  <2> SUFFICES ASSUME NEW n \in Unanswered(u) PROVE n \in Unanswered(t) /\ n # p
    OBVIOUS
  <2>1. n \in Nodes(u) /\ u.role[n] = "user" /\ \A m \in Nodes(u) : u.parent[m] # n
    BY <1>1, <1>2, UnansweredHasNone
  <2>2. n \in Nodes(t) /\ t.role[n] = "user" /\ \A m \in Nodes(t) : t.parent[m] # n
    BY <2>1, <1>2, <1>9
  <2>3. n \in Unanswered(t)
    BY <2>2, <1>1, UnansweredHasNone
  <2> QED BY <2>1, <2>3, <1>2
<1>10. b \in 1..Born'
  BY <1>1
<1> QED BY <1>1, <1>2, <1>3, <1>6, <1>7, <1>8, <1>9, <1>10

LEMMA SendKeeps ==
    ASSUME IInv, NEW w \in Windows, Send(w)
    PROVE  IInv' /\ Adds
<1>1. PICK o : o = window[w]
  OBVIOUS
<1>2. PICK p : p = IF o.edit.on THEN o.edit.parent ELSE o.tree.current
  OBVIOUS
<1>3. PICK b : b = Born + 1
  OBVIOUS
<1>4. PICK t : t = Add(o.tree, b, p, "user")
  OBVIOUS
<1>5. /\ Open(w) /\ ~Busy(w) /\ Typed /\ CanAdd(o.tree, p) /\ prompt' = Append(prompt, <<>>)
      /\ UNCHANGED <<files, index, begun, shared>>
      /\ window' = [window EXCEPT ![w] = WithQuestion(o, t, Path(t, b), NoEdit, Asking(t, b, TRUE))]
  BY <1>1, <1>2, <1>3, <1>4 DEF Send, IInv, WithQuestion
<1>6. /\ WindowOK(o) /\ Shape(o) /\ Sound(o.tree)
      /\ Settled(o) = o.tree /\ Unanswered(o.tree) = {} /\ Born \in Nat
  BY <1>1, <1>5, IdleWindow DEF WindowOK
<1>7. PICK r : r = Asking(t, b, TRUE)
  OBVIOUS
<1>8. PICK v : v = [chat |-> o.chat, tree |-> t, seen |-> Path(t, b), edit |-> NoEdit, reply |-> r]
  OBVIOUS
<1>9. window' = [window EXCEPT ![w] = v]
  <2>1. Framed(o)
    BY <1>6 DEF Shape, Framed
  <2>2. PICK s, e : s = Path(t, b) /\ e = NoEdit
    OBVIOUS
  <2>3. WithQuestion(o, t, s, e, r) = v
    BY <2>1, <2>2, <1>8, RedrawnForQuestion
  <2> QED BY <2>2, <2>3, <1>5, <1>7
<1>10. Later /\ Born' = Born + 1
  <2>1. <<>> \in Seq(Nat)
    BY EmptySeq
  <2> QED BY <2>1, <1>5, <1>9, MessageMade
<1>11. /\ Sound(t)' /\ Keeps(t, o.tree) /\ b \in Nodes(t) /\ b \in Nat /\ b \in 1..Born'
       /\ IsLeaf(t, b) /\ RemoveLeaf(t, b) = Select(o.tree, p) /\ Path(t, b) \in Seq(Nat)
  <2>1. p \in Nodes(o.tree) \cup {Root} /\ "user" \in Roles
    BY <1>5 DEF CanAdd, Roles
  <2> QED BY <2>1, <1>3, <1>4, <1>5, <1>6, <1>10, Adding
<1>12. /\ r \in Replies /\ r.state = "asking" /\ r.question = b /\ r.fresh
       /\ r.sent = Path(t, b)
  BY <1>7, <1>11 DEF Asking, Replies, Running
<1>13. Settled(v) = Select(o.tree, p)
  BY <1>8, <1>11, <1>12 DEF Settled, UndoNewUser
<1>14. Keeps(Settled(v), o.tree) /\ Unanswered(Settled(v)) = {}
  <2>1. p \in Nodes(o.tree) \cup {Root}
    BY <1>5 DEF CanAdd
  <2> QED BY <2>1, <1>5, <1>6, <1>13, Selecting
<1>15. WindowOK(v)'
  <2>1. Shape(v)'
    <3>1. v.chat \in 1..begun'
      BY <1>5, <1>6, <1>8 DEF Shape
    <3>2. v.edit \in [on : BOOLEAN, parent : Nat]
      BY <1>8 DEF NoEdit, Root
    <3> QED BY <3>1, <3>2, <1>8, <1>12 DEF Shape
  <2>2. AsksItsPath(v)' /\ FreshIsLeaf(v)' /\ EditIsSafe(v)'
    BY <1>8, <1>11, <1>12 DEF AsksItsPath, FreshIsLeaf, EditIsSafe, NoEdit
  <2>3. Sound(v.tree)'
    BY <1>8, <1>11
  <2>4. (Unanswered(Settled(v)) = {})'
    BY <1>14 DEF Unanswered, Settled
  <2> QED BY <2>1, <2>2, <2>3, <2>4 DEF WindowOK
<1>16. v.chat = window[w].chat /\ Keeps(Settled(v), Settled(window[w]))
  BY <1>1, <1>6, <1>8, <1>14
<1>17. UNCHANGED <<files, index, shared>>
  BY <1>5
<1> QED BY <1>9, <1>10, <1>15, <1>16, <1>17, NothingSaved

\* OnDone, when the window still has the question.
LEMMA AnswerKeeps ==
    ASSUME IInv, NEW w \in Windows, NEW done \in Saves, OnDone(w, done),
           CanAdd(window[w].tree, window[w].reply.question)
    PROVE  IInv' /\ Adds
<1>1. PICK o : o = window[w]
  OBVIOUS
<1>2. PICK q : q = o.reply.question
  OBVIOUS
<1>3. PICK b : b = Born + 1
  OBVIOUS
<1>4. PICK t : t = Add(o.tree, b, q, "assistant")
  OBVIOUS
<1>5. /\ Open(w) /\ Typed /\ WindowOK(o) /\ Shape(o) /\ o.reply.state = "answered"
      /\ prompt' = Append(prompt, o.reply.sent) /\ Save(o.chat, t, done)
      /\ UNCHANGED <<begun, shared>>
      /\ window' = [window EXCEPT ![w] = WithReply(o, t, Path(t, b), NoReply)]
  BY <1>1, <1>2, <1>3, <1>4 DEF OnDone, IInv, WithReply, WindowOK
<1>6. /\ q \in Nodes(o.tree) /\ o.reply.sent = Path(o.tree, q) /\ o.reply.sent \in Seq(Nat)
      /\ q # Root /\ Sound(o.tree)
  <2>1. q \in Nodes(o.tree) \cup {Root} /\ q \in 1..Born
    BY <1>1, <1>2, <1>5 DEF CanAdd, WindowOK, AsksItsPath
  <2>2. q \in Nodes(o.tree) /\ q # Root
    BY <2>1 DEF Root
  <2>3. o.reply.sent = Path(o.tree, q) /\ o.reply.sent \in Seq(Nat)
    BY <2>2, <1>2, <1>5 DEF WindowOK, AsksItsPath, Shape, Replies
  <2> QED BY <2>2, <2>3, <1>5 DEF WindowOK
<1>7. Keeps(o.tree, Settled(o)) /\ Unanswered(o.tree) \subseteq {q}
  <2>1. FreshIsLeaf(o) /\ Unanswered(Settled(o)) = {}
    BY <1>5 DEF WindowOK
  <2> QED BY <2>1, <1>2, <1>5, <1>6, Settling
<1>8. PICK v : v = [chat |-> o.chat, tree |-> t, seen |-> Path(t, b), edit |-> o.edit,
                    reply |-> NoReply]
  OBVIOUS
<1>9. window' = [window EXCEPT ![w] = v] /\ Save(v.chat, v.tree, done)
  <2>1. Framed(o)
    BY <1>5 DEF Shape, Framed
  <2>2. PICK s, r : s = Path(t, b) /\ r = NoReply
    OBVIOUS
  <2>3. WithReply(o, t, s, r) = v
    BY <2>1, <2>2, <1>8, RedrawnWithReply
  <2>4. v.chat = o.chat /\ v.tree = t
    BY <1>8
  <2> QED BY <2>2, <2>3, <2>4, <1>5
<1>10. Later /\ Born' = Born + 1 /\ prompt'[Born + 1] = Path(o.tree, q)
  <2>1. Cardinality(Nodes(v.tree)) \in Nat
    <3>1. Born \in Nat /\ Tree(o.tree, Born)
      BY <1>5, <1>6, LenProperties DEF Typed, Born, Sound
    <3>2. Tree(t, b) /\ b \in Nat
      <4>1. q \in Nodes(o.tree) \cup {Root} /\ "assistant" \in Roles
        BY <1>6 DEF Roles
      <4> QED BY <4>1, <3>1, <1>3, <1>4, <1>6, AddIsTree
    <3>3. Nodes(t) \in SUBSET (1..b)
      BY <3>2 DEF Tree
    <3>4. Cardinality(Nodes(t)) \in Nat
      BY <3>2, <3>3, Places
    <3> QED BY <3>4, <1>8
  <2> QED BY <2>1, <1>5, <1>6, <1>9, MessageMade
<1>11. /\ Sound(t)' /\ Keeps(t, o.tree) /\ Nodes(t) # {} /\ b \in Nodes(t)
       /\ t.current = b /\ IsLeaf(t, b) /\ Unanswered(t) = {}
  <2>1. PICK a : a = "assistant"
    OBVIOUS
  <2>2. /\ q \in Nodes(o.tree) \cup {Root} /\ a \in Roles /\ t = Add(o.tree, b, q, a)
        /\ q # Root /\ prompt'[Born + 1] = Path(o.tree, q)
    BY <2>1, <1>4, <1>6, <1>10 DEF Roles
  <2>3. Typed /\ Later /\ Born' = Born + 1 /\ Sound(o.tree) /\ b = Born + 1
    BY <1>3, <1>5, <1>6, <1>10
  <2>4. /\ Sound(t)' /\ Keeps(t, o.tree) /\ Nodes(t) = Nodes(o.tree) \cup {b}
        /\ t.current = b /\ IsLeaf(t, b) /\ Unanswered(t) \subseteq Unanswered(o.tree) \ {q}
    BY <2>1, <2>2, <2>3, Adding
  <2> QED BY <2>4, <1>7
<1>12. NoReply \in Replies /\ NoReply.state = "none" /\ ~NoReply.fresh
  BY EmptySeq DEF NoReply, Replies, Root
<1>13. Settled(v) = t
  BY <1>8, <1>12 DEF Settled, UndoNewUser
<1>14. WindowOK(v)'
  <2>1. Shape(v)'
    BY <1>5, <1>8, <1>12 DEF Shape
  <2>2. AsksItsPath(v)' /\ FreshIsLeaf(v)'
    BY <1>8, <1>12 DEF AsksItsPath, FreshIsLeaf
  <2>3. EditIsSafe(v)'
    BY <1>5, <1>8, <1>11, <1>12 DEF WindowOK, EditIsSafe, CanAdd, Keeps
  <2>4. Sound(v.tree)'
    BY <1>8, <1>11
  <2>5. (Unanswered(Settled(v)) = {})'
    BY <1>11, <1>13 DEF Unanswered, Settled
  <2> QED BY <2>1, <2>2, <2>3, <2>4, <2>5 DEF WindowOK
<1>15. /\ v.chat = window[w].chat /\ Settled(v) = v.tree
       /\ Keeps(v.tree, Settled(window[w])) /\ Finished(v.tree) /\ Nodes(v.tree) # {}
  <2>1. v.tree = t /\ v.chat = o.chat
    BY <1>8
  <2>2. Finished(t)
    BY <1>11 DEF Finished
  <2>3. Keeps(t, Settled(o))
    BY <1>7, <1>11, KeepsOn
  <2> QED BY <2>1, <2>2, <2>3, <1>1, <1>11, <1>13
<1> QED BY <1>5, <1>9, <1>10, <1>14, <1>15, SomethingSaved

\* A window that gives up its question, whether or not it takes it back.
LEMMA GivingUp ==
    ASSUME IInv, NEW w \in Windows, Open(w), NEW t, NEW s,
           t = Settled(window[w]),
           window' = [window EXCEPT ![w] =
                        [chat |-> window[w].chat, tree |-> t, seen |-> s,
                         edit |-> window[w].edit, reply |-> NoReply]],
           UNCHANGED <<files, index, begun, prompt, shared>>
    PROVE  IInv' /\ Adds
<1>1. PICK o : o = window[w]
  OBVIOUS
<1>2. Typed /\ WindowOK(o) /\ Shape(o) /\ t = Settled(o)
  BY <1>1 DEF IInv, WindowOK
<1>3. /\ Sound(t) /\ Unanswered(t) = {}
      /\ ~o.reply.fresh => t = o.tree
  <2>1. Sound(o.tree) /\ FreshIsLeaf(o) /\ Unanswered(Settled(o)) = {}
    BY <1>2 DEF WindowOK
  <2> QED BY <2>1, <1>2, Settling
<1>4. PICK v : v = [chat |-> o.chat, tree |-> t, seen |-> s, edit |-> o.edit, reply |-> NoReply]
  OBVIOUS
<1>5. window' = [window EXCEPT ![w] = v]
  BY <1>1, <1>4
<1>6. Later
  BY <1>2, <1>5, NoMessageMade
<1>7. NoReply \in Replies /\ NoReply.state = "none" /\ ~NoReply.fresh
  BY EmptySeq DEF NoReply, Replies, Root
<1>8. Settled(v) = t
  BY <1>4, <1>7 DEF Settled, UndoNewUser
<1>9. WindowOK(v)
  <2>1. Shape(v)
    BY <1>2, <1>4, <1>7 DEF Shape
  <2>2. AsksItsPath(v) /\ FreshIsLeaf(v)
    BY <1>4, <1>7 DEF AsksItsPath, FreshIsLeaf
  <2>3. EditIsSafe(v)
    BY <1>2, <1>3, <1>4, <1>7 DEF WindowOK, EditIsSafe
  <2> QED BY <2>1, <2>2, <2>3, <1>3, <1>4, <1>8 DEF WindowOK
<1>10. WindowOK(v)'
  BY <1>2, <1>6, <1>9, WindowStays
<1>11. v.chat = window[w].chat /\ Keeps(Settled(v), Settled(window[w]))
  BY <1>1, <1>2, <1>4, <1>8, KeepsItself
<1> QED BY <1>5, <1>6, <1>10, <1>11, NothingSaved

LEMMA OnNothingKeeps ==
    ASSUME IInv, NEW w \in Windows, OnNothing(w)
    PROVE  IInv' /\ Adds
<1>1. PICK o : o = window[w]
  OBVIOUS
<1>2. PICK t : t = UndoNewUser(o.tree, o.reply)
  OBVIOUS
<1>3. /\ Open(w) /\ Shape(o) /\ UNCHANGED <<files, index, begun, prompt, shared>>
      /\ window' = [window EXCEPT ![w] = WithReply(o, t, Path(t, t.current), NoReply)]
  BY <1>1, <1>2 DEF OnNothing, WithReply, IInv, WindowOK
<1>4. PICK s, r : s = Path(t, t.current) /\ r = NoReply
  OBVIOUS
<1>5. Framed(o)
  BY <1>3 DEF Shape, Framed
<1>6. WithReply(o, t, s, r) = [chat |-> o.chat, tree |-> t, seen |-> s, edit |-> o.edit, reply |-> r]
  BY <1>5, RedrawnWithReply
<1>7. t = Settled(window[w])
  BY <1>1, <1>2 DEF Settled
<1> QED BY <1>1, <1>3, <1>4, <1>6, <1>7, GivingUp

LEMMA OnDoneKeeps ==
    ASSUME IInv, NEW w \in Windows, NEW done \in Saves, OnDone(w, done)
    PROVE  IInv' /\ Adds
<1>1. CASE CanAdd(window[w].tree, window[w].reply.question)
  BY <1>1, AnswerKeeps
<1>2. CASE ~CanAdd(window[w].tree, window[w].reply.question)
  <2>1. PICK o : o = window[w]
    OBVIOUS
  <2>2. /\ Open(w) /\ WindowOK(o) /\ Shape(o)
        /\ UNCHANGED <<files, index, begun, prompt, shared>>
        /\ window' = [window EXCEPT ![w] = [o EXCEPT !.reply = NoReply]]
    BY <2>1, <1>2 DEF OnDone, IInv, WindowOK
  <2>3. Settled(o) = o.tree
    BY <2>1, <1>2 DEF Settled, UndoNewUser, CanAdd
  <2>4. [o EXCEPT !.reply = NoReply]
          = [chat |-> o.chat, tree |-> o.tree, seen |-> o.seen, edit |-> o.edit, reply |-> NoReply]
    BY <2>2 DEF Shape
  <2>5. PICK t, s : t = o.tree /\ s = o.seen
    OBVIOUS
  <2>6. /\ t = Settled(window[w])
        /\ window' = [window EXCEPT ![w] =
                        [chat |-> window[w].chat, tree |-> t, seen |-> s,
                         edit |-> window[w].edit, reply |-> NoReply]]
    BY <2>1, <2>2, <2>3, <2>4, <2>5
  <2> QED BY <2>2, <2>6, GivingUp
<1> QED BY <1>1, <1>2

\* A window is given another chat, or none: only that chat has to be looked at.
LEMMA ChatsGoOn ==
    ASSUME Typed, NEW w \in Windows, NEW v, window' = [window EXCEPT ![w] = v],
           begun' \in 0..MaxChats, begun <= begun', UNCHANGED <<files, index, prompt>>
    PROVE  Later /\ Born' = Born
<1>1. window' = [u \in Windows |-> window'[u]]
  BY DEF Typed
<1>2. Typed'
  BY <1>1 DEF Typed
<1>3. Born \in Nat /\ Born' = Born
  BY LenProperties DEF Typed, Born
<1> QED BY <1>2, <1>3 DEF Later

LEMMA WindowTurns ==
    ASSUME IInv, Later, NEW w \in Windows, NEW v,
           window' = [window EXCEPT ![w] = v], UNCHANGED <<files, index>>,
           v.chat # 0 => WindowOK(v)', shared \subseteq shared',
           v.chat \in Chats /\ v.chat \notin shared' =>
              /\ OpenOn(v.chat) = {}
              /\ Keeps(Settled(v), Loaded(files[v.chat]))
              /\ ~Exists(v.chat) => index[v.chat] = 0
    PROVE  IInv' /\ Adds
<1>1. DOMAIN window = Windows
  BY DEF IInv, Typed
<1>2. window'[w] = v /\ \A u \in Windows : u # w => window'[u] = window[u]
  BY <1>1
<1>3. \A u \in Windows : Open(u)' => WindowOK(window[u])'
  BY OthersStay
<1>4. ASSUME NEW c \in Chats, c \notin shared' PROVE AtHome(c)'
  <2>1. AtHome(c)
    BY <1>4 DEF IInv
  <2>2. CASE c # v.chat
    BY <2>1, <2>2, HomeStays
  <2>3. CASE c = v.chat
    <3>1. OpenOn(c) = {} /\ Keeps(Settled(v), Loaded(files[c])) /\ (~Exists(c) => index[c] = 0)
      BY <2>3, <1>4
    <3>2. OpenOn(c)' \subseteq {w}
      BY <3>1, <1>2 DEF OpenOn
    <3>3. Settled(window'[w]) = Settled(v)
      BY <1>2
    <3>4. Exists(c)' = Exists(c) /\ files'[c] = files[c] /\ index'[c] = index[c]
      BY DEF Exists
    <3> QED BY <2>1, <3>1, <3>2, <3>3, <3>4 DEF AtHome
  <2> QED BY <2>2, <2>3
<1> QED BY <1>3, <1>4, FilesStay DEF IInv, Later

\* Nothing is open on a chat before it is begun, and it has no file.
LEMMA NothingBefore ==
    ASSUME IInv, begun < MaxChats, NEW c, c = begun + 1
    PROVE  /\ c \in Chats /\ c \in 1..c /\ c # 0 /\ c \in 0..MaxChats /\ begun <= c
           /\ OpenOn(c) = {} /\ ~Exists(c) /\ index[c] = 0
           /\ \A t : Keeps(t, Loaded(files[c]))
<1>1. begun \in Nat /\ c \in Chats /\ c \in 1..c /\ c # 0 /\ c \in 0..MaxChats /\ begun <= c /\ c > begun
  BY BoundsAssumption DEF IInv, Typed, Chats
<1>2. ~Exists(c) /\ index[c] = 0
  BY <1>1 DEF IInv
<1>3. OpenOn(c) = {}
  <2> SUFFICES ASSUME NEW w \in OpenOn(c) PROVE FALSE
    OBVIOUS
  <2>1. w \in Windows /\ Open(w) /\ window[w].chat = c
    BY <1>1 DEF OpenOn, Open
  <2>2. window[w].chat \in 1..begun
    BY <2>1 DEF IInv, WindowOK, Shape
  <2> QED BY <2>1, <2>2, <1>1
<1>4. Nodes(Loaded(files[c])) = {}
  <2>1. FileOK(files[c]) /\ Born \in Nat
    BY <1>1, LenProperties DEF IInv, Typed, Born
  <2> QED BY <1>2, <2>1, FileTells DEF FileOK, Sound, Exists
<1>5. \A t : Keeps(t, Loaded(files[c]))
  BY <1>4 DEF Keeps
<1> QED BY <1>1, <1>2, <1>3, <1>5

\* A chat that has just been begun.
LEMMA NewTreeIsFine ==
    ASSUME Typed
    PROVE  /\ Sound(NewTree) /\ Nodes(NewTree) = {} /\ Unanswered(NewTree) = {}
           /\ \A r : UndoNewUser(NewTree, r) = NewTree
<1>1. Born \in Nat /\ Tree(NewTree, Born) /\ Nodes(NewTree) = {}
  BY LenProperties, NewTreeIsTree DEF Typed, Born
<1>2. AnswersIts(NewTree) /\ Unanswered(NewTree) = {} /\ \A r : UndoNewUser(NewTree, r) = NewTree
  BY <1>1 DEF AnswersIts, Unanswered, UndoNewUser
<1> QED BY <1>1, <1>2 DEF Sound

LEMMA OpenNewKeeps ==
    ASSUME IInv, NEW w \in Windows, OpenNew(w)
    PROVE  IInv' /\ Adds
<1>1. PICK c : c = begun + 1
  OBVIOUS
<1>2. PICK v : v = [chat |-> c, tree |-> NewTree, seen |-> Path(NewTree, NewTree.current),
                    edit |-> NoEdit, reply |-> NoReply]
  OBVIOUS
<1>3. /\ Typed /\ begun < MaxChats /\ begun' = c /\ UNCHANGED <<files, index, prompt, shared>>
      /\ window' = [window EXCEPT ![w] = v]
  BY <1>1, <1>2 DEF OpenNew, Show, IInv
<1>4. /\ c \in Chats /\ c \in 1..c /\ c # 0 /\ c \in 0..MaxChats /\ begun <= c
      /\ OpenOn(c) = {} /\ ~Exists(c) /\ index[c] = 0
      /\ \A t : Keeps(t, Loaded(files[c]))
  BY <1>1, <1>3, NothingBefore
<1>5. Later
  BY <1>3, <1>4, ChatsGoOn
<1>6. Sound(NewTree)' /\ Unanswered(NewTree) = {} /\ \A r : UndoNewUser(NewTree, r) = NewTree
  BY <1>3, <1>5, NewTreeIsFine, SoundStays
<1>7. WindowOK(v)'
  <2>1. NoReply \in Replies /\ NoReply.state = "none" /\ ~NoReply.fresh
    BY EmptySeq DEF NoReply, Replies, Root
  <2>2. Shape(v)'
    BY <2>1, <1>2, <1>3, <1>4 DEF Shape, NoEdit, Root
  <2>3. AsksItsPath(v)' /\ FreshIsLeaf(v)' /\ EditIsSafe(v)'
    BY <2>1, <1>2 DEF AsksItsPath, FreshIsLeaf, EditIsSafe, NoEdit
  <2>4. Sound(v.tree)' /\ (Unanswered(Settled(v)) = {})'
    BY <1>2, <1>6 DEF Settled, Unanswered
  <2> QED BY <2>2, <2>3, <2>4 DEF WindowOK
<1>8. v.chat = c
  BY <1>2
<1> QED BY <1>3, <1>4, <1>5, <1>7, <1>8, WindowTurns

LEMMA NewChatKeeps ==
    ASSUME IInv, NEW w \in Windows, NewChat(w)
    PROVE  IInv' /\ Adds
<1>1. PICK o : o = window[w]
  OBVIOUS
<1>2. PICK c : c = begun + 1
  OBVIOUS
<1>3. PICK r : r = Halted(o.reply)
  OBVIOUS
<1>4. /\ Typed /\ begun < MaxChats /\ begun' = c /\ UNCHANGED <<files, index, prompt, shared>>
      /\ WindowOK(o) /\ Shape(o)
      /\ window' = [window EXCEPT ![w] = WithChat(o, c, NewTree, <<>>, NoEdit, r)]
  BY <1>1, <1>2, <1>3 DEF NewChat, IInv, WindowOK, WithChat
<1>5. /\ c \in Chats /\ c \in 1..c /\ c # 0 /\ c \in 0..MaxChats /\ begun <= c
      /\ OpenOn(c) = {} /\ ~Exists(c) /\ index[c] = 0
      /\ \A t : Keeps(t, Loaded(files[c]))
  BY <1>2, <1>4, NothingBefore
<1>6. PICK v : v = [chat |-> c, tree |-> NewTree, seen |-> <<>>, edit |-> NoEdit, reply |-> r]
  OBVIOUS
<1>7. window' = [window EXCEPT ![w] = v]
  <2>1. Framed(o)
    BY <1>4 DEF Shape, Framed
  <2>2. PICK t, s, e : t = NewTree /\ s = <<>> /\ e = NoEdit
    OBVIOUS
  <2>3. WithChat(o, c, t, s, e, r) = v
    BY <2>1, <2>2, <1>6, RedrawnForChat
  <2> QED BY <2>2, <2>3, <1>4
<1>8. Later /\ Born' = Born
  BY <1>4, <1>5, <1>7, ChatsGoOn
<1>9. /\ Sound(NewTree)' /\ Nodes(NewTree) = {} /\ Unanswered(NewTree) = {}
      /\ \A x : UndoNewUser(NewTree, x) = NewTree
  BY <1>4, <1>8, NewTreeIsFine, SoundStays
<1>10. /\ r \in Replies
       /\ r.state = "none" <=> o.reply.state = "none"
       /\ r.question = o.reply.question /\ r.fresh = o.reply.fresh
  BY <1>3, <1>4 DEF Halted, Shape, Replies, Running
<1>11. WindowOK(v)'
  <2>1. Shape(v)'
    <3>1. /\ v = [chat |-> v.chat, tree |-> v.tree, seen |-> v.seen, edit |-> v.edit,
                  reply |-> v.reply]
          /\ v.chat = c /\ v.edit = NoEdit /\ v.reply = r
      BY <1>6
    <3>2. NoEdit \in [on : BOOLEAN, parent : Nat]
      BY DEF NoEdit, Root
    <3>3. c \in 1..begun'
      BY <1>4, <1>5
    <3> QED BY <3>1, <3>2, <3>3, <1>10 DEF Shape
  <2>2. AsksItsPath(v)' /\ FreshIsLeaf(v)' /\ EditIsSafe(v)'
    <3>1. v.tree = NewTree /\ v.reply = r /\ ~v.edit.on
      BY <1>6 DEF NoEdit
    <3>2. AsksItsPath(o) /\ FreshIsLeaf(o)
      BY <1>4 DEF WindowOK
    <3> QED BY <3>1, <3>2, <1>8, <1>9, <1>10 DEF AsksItsPath, FreshIsLeaf, EditIsSafe
  <2>3. Sound(v.tree)' /\ (Unanswered(Settled(v)) = {})'
    BY <1>6, <1>9 DEF Settled, Unanswered
  <2> QED BY <2>1, <2>2, <2>3 DEF WindowOK
<1>12. v.chat = c
  BY <1>6
<1> QED BY <1>4, <1>5, <1>7, <1>8, <1>11, <1>12, WindowTurns

LEMMA CloseKeeps ==
    ASSUME IInv, NEW w \in Windows, Close(w)
    PROVE  IInv' /\ Adds
<1>1. /\ Typed /\ window' = [window EXCEPT ![w] = Closed]
      /\ UNCHANGED <<files, index, begun, prompt, shared>>
  BY DEF Close, IInv
<1>2. PICK v : v = Closed
  OBVIOUS
<1>3. Later
  <2>1. begun' \in 0..MaxChats /\ begun <= begun'
    BY <1>1, BoundsAssumption DEF Typed
  <2> QED BY <2>1, <1>1, ChatsGoOn
<1>4. v.chat = 0 /\ v.chat \notin Chats
  BY <1>2, BoundsAssumption DEF Closed, Chats
<1> QED BY <1>1, <1>2, <1>3, <1>4, WindowTurns

LEMMA OpenSavedKeeps ==
    ASSUME IInv, NEW w \in Windows, NEW c \in Chats, OpenSaved(w, c)
    PROVE  IInv' /\ Adds
<1>1. PICK t : t = Loaded(files[c])
  OBVIOUS
<1>2. PICK v : v = [chat |-> c, tree |-> t, seen |-> Path(t, t.current),
                    edit |-> NoEdit, reply |-> NoReply]
  OBVIOUS
<1>3. /\ Typed /\ Exists(c) /\ window' = [window EXCEPT ![w] = v]
      /\ shared' = IF OpenOn(c) = {} THEN shared ELSE shared \cup {c}
      /\ UNCHANGED <<files, index, begun, prompt>>
  BY <1>1, <1>2 DEF OpenSaved, Show, IInv
<1>4. c \in 1..begun
  BY <1>3, BoundsAssumption DEF IInv, Typed, Chats
<1>5. Later
  <2>1. begun' \in 0..MaxChats /\ begun <= begun'
    BY <1>3, BoundsAssumption DEF Typed
  <2> QED BY <2>1, <1>3, ChatsGoOn
<1>6. Sound(t)' /\ Unanswered(t) = {}
  <2>1. Sound(t) /\ Unanswered(t) = {}
    BY <1>1 DEF IInv, FileOK, Finished
  <2> QED BY <2>1, <1>3, <1>5, SoundStays
<1>7. NoReply \in Replies /\ NoReply.state = "none" /\ ~NoReply.fresh
  BY EmptySeq DEF NoReply, Replies, Root
<1>8. Settled(v) = t
  BY <1>2, <1>7 DEF Settled, UndoNewUser
<1>9. WindowOK(v)'
  <2>1. Shape(v)'
    BY <1>2, <1>3, <1>4, <1>7 DEF Shape, NoEdit, Root
  <2>2. AsksItsPath(v)' /\ FreshIsLeaf(v)' /\ EditIsSafe(v)'
    BY <1>2, <1>7 DEF AsksItsPath, FreshIsLeaf, EditIsSafe, NoEdit
  <2>3. Sound(v.tree)' /\ (Unanswered(Settled(v)) = {})'
    BY <1>2, <1>6, <1>8 DEF Settled, Unanswered
  <2> QED BY <2>1, <2>2, <2>3 DEF WindowOK
<1>10. v.chat = c
  BY <1>2
<1>11. Keeps(Settled(v), Loaded(files[v.chat]))
  BY <1>1, <1>8, <1>10, KeepsItself
<1> QED BY <1>3, <1>5, <1>9, <1>10, <1>11, WindowTurns

\* What is left of a deleted chat.
LEMMA NoFileIsFine ==
    ASSUME Typed
    PROVE  FileOK(NoFile)
<1>1. Born \in Nat /\ Tree(NewTree, Born) /\ Nodes(NewTree) = {}
  BY LenProperties, NewTreeIsTree DEF Typed, Born
<1>2. NoFile = Saved(NewTree)
  <2>1. Saved(NewTree).nodes = <<>> /\ Saved(NewTree).current = Root
    BY <1>1, SavedLists DEF NewTree
  <2>2. Saved(NewTree) = [nodes |-> Saved(NewTree).nodes, current |-> Saved(NewTree).current]
    BY DEF Saved
  <2> QED BY <2>1, <2>2 DEF NoFile
<1>3. Loaded(NoFile) = NewTree
  BY <1>1, <1>2, LoadedIsSaved
<1>4. Sound(NewTree) /\ Finished(NewTree)
  BY <1>1, NewTreeIsFine DEF Finished
<1> QED BY <1>2, <1>3, <1>4 DEF FileOK

LEMMA DeleteKeeps ==
    ASSUME IInv, NEW c \in Chats, NEW done \in Saves, Delete(c, done)
    PROVE  IInv' /\ Adds
<1>1. /\ Typed /\ index[c] > 0 /\ UNCHANGED <<window, begun, prompt>>
      /\ DOMAIN files = Chats /\ index \in [Chats -> Nat]
  BY DEF Delete, IInv, Typed
<1>2. /\ \A d \in Chats : d # c => files'[d] = files[d] /\ index'[d] = index[d]
      /\ files'[c] = IF done = "none" THEN files[c] ELSE NoFile
      /\ index'[c] = IF done = "all" THEN 0 ELSE index[c]
      /\ shared' = IF OpenOn(c) = {} \/ done = "none" THEN shared ELSE shared \cup {c}
  BY <1>1 DEF Delete
<1>3. Later
  <2>1. files' = [d \in Chats |-> files'[d]] /\ index' \in [Chats -> Nat]
    <3>1. files' = [d \in Chats |-> files'[d]]
      BY DEF Delete, IInv, Typed
    <3>2. index' \in [Chats -> Nat]
      BY <1>1 DEF Delete
    <3> QED BY <3>1, <3>2
  <2>2. begun <= begun' /\ Born' = Born /\ Born \in Nat
    BY <1>1, LenProperties, BoundsAssumption DEF Typed, Born
  <2> QED BY <2>1, <2>2, <1>1 DEF Later, Typed
<1>4. NoFile.nodes = <<>>
  BY DEF NoFile
<1>5. \A d \in Chats : FileOK(files[d])'
  <2>1. \A f : FileOK(f) => FileOK(f)'
    BY <1>1, <1>3, FileStays
  <2>2. FileOK(NoFile)
    BY <1>1, NoFileIsFine
  <2>3. \A d \in Chats : files'[d] = files[d] \/ files'[d] = NoFile
    BY <1>2
  <2>4. \A d \in Chats : FileOK(files'[d])
    BY <2>2, <2>3 DEF IInv
  <2>5. \A d \in Chats : FileOK(files[d])'
    <3> TAKE d \in Chats
    <3>1. FileOK(files[d])
      BY DEF IInv
    <3>2. CASE files'[d] = files[d]
      BY <3>1, <3>2, <2>1
    <3>3. CASE files'[d] = NoFile
      <4>1. FileOK(NoFile)'
        BY <2>1, <2>2
      <4> QED BY <4>1, <3>3 DEF FileOK
    <3> QED BY <3>2, <3>3, <2>3
  <2> QED BY <2>5
<1>6. \A w \in Windows : Open(w)' => WindowOK(window[w])'
  <2>1. \A x : WindowOK(x) => WindowOK(x)'
    BY <1>1, <1>3, WindowStays
  <2>2. \A w \in Windows : window'[w] = window[w] /\ (Open(w)' => Open(w))
    BY <1>1 DEF Open
  <2> QED BY <2>1, <2>2 DEF IInv
<1>7. \A d \in Chats : d > begun' => ~Exists(d)' /\ index'[d] = 0
  BY <1>1, <1>2, <1>4 DEF IInv, Exists
<1>8. \A d : OpenOn(d)' = OpenOn(d)
  BY <1>1 DEF OpenOn
<1>9. ASSUME NEW d \in Chats, d \notin shared' PROVE AtHome(d)'
  <2>1. AtHome(d)
    BY <1>2, <1>9 DEF IInv
  <2>2. CASE d # c \/ done = "none"
    <3>1. files'[d] = files[d] /\ index'[d] = index[d] /\ Exists(d)' = Exists(d)
      BY <2>2, <1>2 DEF Exists
    <3>2. \A w \in OpenOn(d) : Settled(window'[w]) = Settled(window[w])
      BY <1>1
    <3> QED BY <2>1, <3>1, <3>2, <1>8 DEF AtHome
  <2>3. CASE d = c /\ done # "none"
    <3>1. OpenOn(d) = {} /\ ~Exists(d)'
      BY <2>3, <1>2, <1>4, <1>9 DEF Exists
    <3> QED BY <3>1, <1>8 DEF AtHome
  <2> QED BY <2>2, <2>3
<1>10. Adds
  BY <1>2, <1>4 DEF Adds, Exists
<1> QED BY <1>3, <1>5, <1>6, <1>7, <1>9, <1>10 DEF IInv, Later

-----------------------------------------------------------------------------
(* The theorems. *)

LEMMA InitIsFine == Init => IInv
<1> SUFFICES ASSUME Init PROVE IInv
  OBVIOUS
<1>1. Typed
  BY EmptySeq, BoundsAssumption DEF Init, Typed
<1>2. \A w \in Windows : ~Open(w)
  BY DEF Init, Open, Closed
<1>3. \A c \in Chats : files[c] = NoFile /\ ~Exists(c) /\ index[c] = 0
  BY DEF Init, Exists, NoFile
<1>4. \A c \in Chats : FileOK(files[c])
  BY <1>1, <1>3, NoFileIsFine
<1>5. \A c \in Chats : OpenOn(c) = {}
  BY BoundsAssumption DEF Init, OpenOn, Closed, Chats
<1>6. \A c \in Chats : AtHome(c)
  BY <1>3, <1>5 DEF AtHome
<1> QED BY <1>1, <1>2, <1>3, <1>4, <1>6 DEF IInv

LEMMA NothingHappens ==
    ASSUME IInv, UNCHANGED vars
    PROVE  IInv' /\ Adds
<1>1. Typed /\ UNCHANGED <<window, files, index, begun, prompt, shared>>
  BY DEF IInv, vars
<1>2. Later
  <2>1. Born' = Born /\ Born \in Nat /\ begun <= begun'
    BY <1>1, LenProperties, BoundsAssumption DEF Typed, Born
  <2> QED BY <1>1, <2>1 DEF Later, Typed
<1>3. \A w \in Windows : Open(w)' => WindowOK(window[w])'
  <2>1. \A x : WindowOK(x) => WindowOK(x)'
    BY <1>1, <1>2, WindowStays
  <2>2. \A w \in Windows : window'[w] = window[w] /\ (Open(w)' => Open(w))
    BY <1>1 DEF Open
  <2> QED BY <2>1, <2>2 DEF IInv
<1>4. \A c \in Chats : c \notin shared => AtHome(c)'
  <2>1. \A c \in Chats : OpenOn(c)' = OpenOn(c) /\ Exists(c)' = Exists(c)
    BY <1>1 DEF OpenOn, Exists
  <2> QED BY <2>1, <1>1 DEF IInv, AtHome, Settled
<1> QED BY <1>1, <1>2, <1>3, <1>4, FilesStay DEF IInv, Later

\* The invariant is kept by every step, and no step takes anything from a chat's file.
LEMMA StepsKeep ==
    ASSUME IInv, [Next]_vars
    PROVE  IInv' /\ Adds
<1>1. CASE UNCHANGED vars
  BY <1>1, NothingHappens
<1>2. ASSUME NEW c \in Chats, NEW done \in Saves, Delete(c, done) PROVE IInv' /\ Adds
  BY <1>2, DeleteKeeps
<1>3. ASSUME NEW w \in Windows,
             OpenNew(w) \/ Close(w) \/ NewChat(w) \/ Send(w) \/ CancelEdit(w) \/ Stop(w) \/ OnNothing(w)
      PROVE  IInv' /\ Adds
  BY <1>3, OpenNewKeeps, CloseKeeps, NewChatKeeps, SendKeeps, CancelEditKeeps, StopKeeps,
     OnNothingKeeps
<1>4. ASSUME NEW w \in Windows, NEW c \in Chats, OpenSaved(w, c) PROVE IInv' /\ Adds
  BY <1>4, OpenSavedKeeps
<1>5. ASSUME NEW w \in Windows, NEW n \in 1..Born, NEW goes \in BOOLEAN, Regenerate(w, n, goes)
      PROVE  IInv' /\ Adds
  BY <1>5, RegenerateKeeps
<1>6. ASSUME NEW w \in Windows, NEW n \in 1..Born, StartEdit(w, n) PROVE IInv' /\ Adds
  BY <1>6, StartEditKeeps
<1>7. ASSUME NEW w \in Windows, NEW n \in 1..Born, NEW step \in {-1, 1}, NEW done \in Saves,
             Switch(w, n, step, done)
      PROVE  IInv' /\ Adds
  BY <1>7, SwitchKeeps
<1>8. ASSUME NEW w \in Windows, NEW end \in Ended, Run(w, end) PROVE IInv' /\ Adds
  BY <1>8, RunKeeps
<1>9. ASSUME NEW w \in Windows, NEW done \in Saves, OnDone(w, done) PROVE IInv' /\ Adds
  BY <1>9, OnDoneKeeps
<1> QED BY <1>1, <1>2, <1>3, <1>4, <1>5, <1>6, <1>7, <1>8, <1>9 DEF Next

LEMMA IInvHolds == Spec => []IInv
<1>1. Init => IInv
  BY InitIsFine
<1>2. IInv /\ [Next]_vars => IInv'
  BY StepsKeep
<1> QED BY <1>1, <1>2, PTL DEF Spec

\* Every assistant message, in a window or in a file, is the answer to exactly the
\* conversation it hangs under: _on_done adds it under the question that was sent, and
\* no other handler moves a message or lets a stopped question's answer go astray.
THEOREM RepliesStay == Spec => []RepliesAnswerTheirPath
<1>1. IInv => RepliesAnswerTheirPath
  BY DEF IInv, WindowOK, Sound, FileOK, RepliesAnswerTheirPath
<1> QED BY <1>1, IInvHolds, PTL

\* No half conversation is kept: a question without an answer is being asked, what is
\* saved ends in replies, and from_dict makes of what to_dict writes the same tree.
THEOREM TreesStayWhole == Spec => []TreesAreWhole
<1>1. ASSUME IInv PROVE NothingUnanswered
  <2> SUFFICES ASSUME NEW w \in Windows, Open(w)
               PROVE  Unanswered(window[w].tree) \subseteq
                        (IF Busy(w) /\ window[w].reply.fresh THEN {window[w].reply.question} ELSE {})
    BY DEF NothingUnanswered
  <2>1. WindowOK(window[w]) /\ Typed
    BY <1>1 DEF IInv
  <2>2. Unanswered(window[w].tree) \subseteq
          IF window[w].reply.fresh THEN {window[w].reply.question} ELSE {}
    BY <2>1, Settling DEF WindowOK
  <2>3. window[w].reply.fresh => Busy(w)
    BY <2>1 DEF WindowOK, FreshIsLeaf, Busy
  <2> QED BY <2>2, <2>3
<1>2. ASSUME IInv PROVE FilesEndInReplies
  <2> SUFFICES ASSUME NEW c \in Chats, Exists(c), NEW t, t = Loaded(files[c])
               PROVE  Unanswered(t) = {} /\ t.current # Root /\ IsLeaf(t, t.current)
    BY DEF FilesEndInReplies
  <2>1. FileOK(files[c]) /\ Born \in Nat
    BY <1>2, LenProperties DEF IInv, Typed, Born
  <2>2. Nodes(t) # {} /\ Tree(t, Born)
    BY <2>1, FileTells DEF FileOK, Sound, Exists
  <2>3. Unanswered(t) = {} /\ t.current \in Nodes(t) /\ IsLeaf(t, t.current)
    BY <2>1, <2>2 DEF FileOK, Finished
  <2> QED BY <2>2, <2>3 DEF Tree, Root
<1>3. ASSUME IInv PROVE SavedIsWhole
  <2>1. \A w \in Windows : Open(w) => Tree(window[w].tree, Born)
    BY <1>3 DEF IInv, WindowOK, Sound
  <2>2. Born \in Nat
    BY <1>3, LenProperties DEF IInv, Typed, Born
  <2> QED BY <2>1, <2>2, LoadedIsSaved DEF SavedIsWhole
<1>4. IInv => TreesAreWhole
  BY <1>1, <1>2, <1>3 DEF TreesAreWhole
<1> QED BY <1>4, IInvHolds, PTL

\* The message an edit will branch from belongs to the chat of the window: starting an
\* edit, taking a question back and New chat leave no edit on a message that is gone.
THEOREM EditsStay == Spec => []EditsStayHome
<1>1. IInv => EditsStayHome
  BY DEF IInv, WindowOK, EditIsSafe, EditsStayHome
<1> QED BY <1>1, IInvHolds, PTL

\* A save broken off between the file and the index leaves the index behind, never ahead.
THEOREM IndexStaysBehind == Spec => []IndexNeverAhead
<1>1. IInv => IndexNeverAhead
  BY DEF IInv, AtHome, IndexNeverAhead
<1> QED BY <1>1, IInvHolds, PTL

\* A save of a chat that one window has keeps every message that its file had.
THEOREM SavesAdd == Spec => SavesOnlyAdd
<1>1. IInv /\ [Next]_vars => Adds
  BY StepsKeep
<1>2. IInv /\ [Next]_vars =>
        [\A c \in Chats : Exists(c) /\ Exists(c)' /\ c \notin shared =>
            ToSet(files[c].nodes) \subseteq ToSet(files'[c].nodes)]_vars
  BY <1>1 DEF Adds
<1> QED BY <1>2, IInvHolds, PTL DEF Spec, SavesOnlyAdd
=============================================================================
