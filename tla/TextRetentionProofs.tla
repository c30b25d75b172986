------------------------ MODULE TextRetentionProofs ------------------------
(***************************************************************************)
(* Proofs about TextRetention, for any posts and sources, any sizes of the *)
(* batches and any number of transactions, failures and waits.             *)
(***************************************************************************)
EXTENDS Integers, TextRetention, FiniteSetTheorems, FunctionTheorems, WellFoundedInduction, TLAPS

---------------------------------------------------------------------------
(* Transactions.                                                           *)

RealSources == {TrSources[i] : i \in DOMAIN TrSources}
IsTxn(t) == t = [on |-> t.on, posts |-> t.posts, todo |-> t.todo, held |-> t.held]

\* What a transaction is. What compaction has still to lock is the sequence of
\* several batches, of which nothing is said.
TxnTypes ==
    /\ txn = [w \in Writers |-> txn[w]]
    /\ \A w \in Writers : /\ IsTxn(txn[w]) /\ txn[w].posts \subseteq TrPosts
                          /\ w # "compaction" => txn[w].todo \in Seq(Rows)
                          /\ ~txn[w].on => txn[w] = NoTxn
    /\ toVisit \in Seq(RealSources) /\ (txn["retention"].on => toVisit # <<>>)
    /\ items \subseteq TrPosts

\* What a lock that is granted changes of its transaction.
LEMMA LockedTxn ==
    ASSUME TxnTypes, NEW w \in Writers, LockNext(w)
    PROVE  /\ txn' = [o \in Writers |-> txn'[o]] /\ IsTxn(txn'[w])
           /\ \A o \in Writers : o # w => txn'[o] = txn[o]
           /\ txn'[w].on /\ txn[w].on /\ txn'[w].posts = txn[w].posts /\ txn[w].todo # <<>>
           /\ txn'[w].held = txn[w].held \cup {Head(txn[w].todo)} /\ txn'[w].todo = Tail(txn[w].todo)
<1>1. /\ IsTxn(txn[w]) /\ txn[w].on /\ txn[w].todo # <<>>
      /\ txn' = [txn EXCEPT ![w].held = @ \cup {Head(txn[w].todo)}, ![w].todo = Tail(@)]
  BY DEF LockNext, TxnTypes
<1>2. PICK t : t = [txn[w] EXCEPT !.held = @ \cup {Head(txn[w].todo)}, !.todo = Tail(@)]
  OBVIOUS
<1>3. /\ IsTxn(t) /\ t.on = txn[w].on /\ t.posts = txn[w].posts
      /\ t.held = txn[w].held \cup {Head(txn[w].todo)} /\ t.todo = Tail(txn[w].todo)
  BY <1>1, <1>2 DEF IsTxn
<1>4. txn' = [txn EXCEPT ![w] = t]
  BY <1>1, <1>2 DEF TxnTypes
<1> QED BY <1>1, <1>3, <1>4 DEF TxnTypes

\* What the start of a transaction changes.
LEMMA BegunTxn ==
    ASSUME TxnTypes, NEW w \in Writers, NEW posts, NEW rows, NEW held, TrBegins(w, posts, rows, held)
    PROVE  /\ txn' = [o \in Writers |-> txn'[o]] /\ IsTxn(txn'[w])
           /\ \A o \in Writers : o # w => txn'[o] = txn[o]
           /\ txn'[w].on /\ txn'[w].posts = posts /\ txn'[w].todo = rows /\ txn'[w].held = held
<1>1. PICK t : t = [on |-> TRUE, posts |-> posts, todo |-> rows, held |-> held]
  OBVIOUS
<1>2. IsTxn(t) /\ t.on /\ t.posts = posts /\ t.todo = rows /\ t.held = held
  BY <1>1 DEF IsTxn
<1>3. txn' = [txn EXCEPT ![w] = t]
  BY <1>1 DEF TrBegins
<1> QED BY <1>2, <1>3 DEF TxnTypes

\* What the end of a transaction changes.
LEMMA EndedTxn ==
    ASSUME TxnTypes, NEW w \in Writers, txn' = [txn EXCEPT ![w] = NoTxn]
    PROVE  /\ txn' = [o \in Writers |-> txn'[o]] /\ IsTxn(txn'[w])
           /\ \A o \in Writers : o # w => txn'[o] = txn[o]
           /\ txn'[w] = NoTxn /\ ~NoTxn.on /\ NoTxn.posts = {} /\ NoTxn.todo = <<>> /\ NoTxn.held = {}
<1>1. IsTxn(NoTxn) /\ ~NoTxn.on /\ NoTxn.posts = {} /\ NoTxn.todo = <<>> /\ NoTxn.held = {}
  BY DEF NoTxn, IsTxn
<1> QED BY <1>1 DEF TxnTypes

\* The enumerations of a set of posts are sequences, in which all of them are.
LEMMA Enumerated ==
    ASSUME NEW S \in SUBSET TrPosts, NEW o \in SetToSeqs(S)
    PROVE  /\ o \in Seq(S) /\ \A p \in S : \E i \in DOMAIN o : o[i] = p
           /\ DOMAIN o = 1 .. Len(o) /\ Len(o) \in Nat
<1> DEFINE n == Cardinality(S)
<1>1. IsFiniteSet(S) /\ n \in Nat
  BY TextRetentionAssumption, FS_Subset, FS_CardinalityType
<1>2. o \in [1 .. n -> S] /\ \A i, j \in 1 .. n : i # j => o[i] # o[j]
  BY DEF SetToSeqs
<1> HIDE DEF n
<1>3. o \in Injection(1 .. n, S)
  BY <1>2, Fun_IsInj
<1>4. IsFiniteSet(1 .. n) /\ Cardinality(1 .. n) = n
  BY <1>1, FS_Interval
<1>5. o \in Surjection(1 .. n, S)
  BY <1>1, <1>3, <1>4, FS_Injection DEF n
<1>6. \A p \in S : \E i \in 1 .. n : o[i] = p
  BY <1>5 DEF Surjection
<1>7. o \in Seq(S) /\ DOMAIN o = 1 .. n /\ Len(o) = n
  BY <1>1, <1>2
<1> QED BY <1>1, <1>6, <1>7

\* Rows in an order of their posts are rows.
LEMMA RowsTyped ==
    ASSUME NEW S \in SUBSET TrPosts
    PROVE  /\ \A o \in SetToSeqs(S) : PostRows(o) \in Seq(Rows) /\ ItemRows(o) \in Seq(Rows)
           /\ IdOrders(S) \subseteq SetToSeqs(S)
           /\ BatchOrders(S) \subseteq Seq(Rows)
<1>1. IdOrders(S) \subseteq SetToSeqs(S)
  BY DEF IdOrders
<1>2. ASSUME NEW o \in SetToSeqs(S) PROVE PostRows(o) \in Seq(Rows) /\ ItemRows(o) \in Seq(Rows)
  <2>1. o \in Seq(S) /\ DOMAIN o = 1 .. Len(o) /\ Len(o) \in Nat
    BY <1>2, Enumerated
  <2>2. \A i \in 1 .. Len(o) : <<"post", o[i]>> \in Rows /\ <<"item", o[i]>> \in Rows
    BY <2>1 DEF Rows
  <2>3. /\ PostRows(o) = [i \in 1 .. Len(o) |-> <<"post", o[i]>>]
        /\ ItemRows(o) = [i \in 1 .. Len(o) |-> <<"item", o[i]>>]
    BY <2>1 DEF PostRows, ItemRows
  <2> QED BY <2>1, <2>2, <2>3
<1>3. BatchOrders(S) \subseteq Seq(Rows)
  <2> SUFFICES ASSUME NEW rows \in BatchOrders(S) PROVE rows \in Seq(Rows)
    OBVIOUS
  <2>1. PICK ids \in IdOrders(S), o \in SetToSeqs(S) : rows = PostRows(ids) \o ItemRows(o)
    BY DEF BatchOrders
  <2>2. PostRows(ids) \in Seq(Rows) /\ ItemRows(o) \in Seq(Rows)
    BY <1>1, <1>2
  <2> QED BY <2>1, <2>2
<1> QED BY <1>1, <1>2, <1>3

\* The transactions are what they are, in every step.
LEMMA TxnStep == TxnTypes /\ [TextRetentionNext]_TextRetentionVars => TxnTypes'
<1> SUFFICES ASSUME TxnTypes, [TextRetentionNext]_TextRetentionVars PROVE TxnTypes'
  OBVIOUS
<1>a. ASSUME UNCHANGED <<txn, toVisit, items>> PROVE TxnTypes'
  BY <1>a DEF TxnTypes
<1>b. ASSUME NEW w \in Writers, NEW posts \in SUBSET TrPosts, NEW rows, NEW held, TrBegins(w, posts, rows, held),
             w # "compaction" => rows \in Seq(Rows), UNCHANGED <<toVisit, items>>, w = "retention" => toVisit # <<>>
      PROVE  TxnTypes'
  <2>1. /\ txn' = [o \in Writers |-> txn'[o]] /\ IsTxn(txn'[w])
        /\ \A o \in Writers : o # w => txn'[o] = txn[o]
        /\ txn'[w].on /\ txn'[w].posts = posts /\ txn'[w].todo = rows
    BY <1>b, BegunTxn
  <2>2. txn'["retention"].on => toVisit # <<>>
    BY <1>b, <2>1 DEF TxnTypes, Writers
  <2> QED BY <1>b, <2>1, <2>2 DEF TxnTypes
<1>c. ASSUME NEW w \in Writers, txn' = [txn EXCEPT ![w] = NoTxn], toVisit' \in Seq(RealSources),
             w = "retention" \/ UNCHANGED toVisit, items' \subseteq TrPosts
      PROVE  TxnTypes'
  <2>0. <<>> \in Seq(Rows)
    OBVIOUS
  <2>1. /\ txn' = [o \in Writers |-> txn'[o]] /\ IsTxn(txn'[w])
        /\ \A o \in Writers : o # w => txn'[o] = txn[o]
        /\ txn'[w] = NoTxn /\ NoTxn.posts = {} /\ NoTxn.todo = <<>> /\ ~NoTxn.on
    BY <1>c, EndedTxn
  <2>2. \A o \in Writers : /\ IsTxn(txn'[o]) /\ txn'[o].posts \subseteq TrPosts
                           /\ o # "compaction" => txn'[o].todo \in Seq(Rows)
                           /\ ~txn'[o].on => txn'[o] = NoTxn
    <3> TAKE o \in Writers
    <3>1. CASE o = w
      BY <2>0, <2>1, <3>1
    <3>2. CASE o # w
      BY <2>1, <3>2 DEF TxnTypes
    <3> QED BY <3>1, <3>2
  <2>3. txn'["retention"].on => toVisit' # <<>>
    BY <1>c, <2>1 DEF TxnTypes, Writers
  <2> QED BY <1>c, <2>1, <2>2, <2>3 DEF TxnTypes
<1>0. /\ toVisit \in Seq(RealSources) /\ TrSources \in Seq(RealSources)
      /\ items \subseteq TrPosts /\ \A w \in Writers : txn[w].posts \subseteq TrPosts
  BY TextRetentionAssumption DEF TxnTypes, RealSources
<1>1. ASSUME NEW w \in Writers, LockNext(w) PROVE TxnTypes'
  <2>1. /\ txn' = [o \in Writers |-> txn'[o]] /\ IsTxn(txn'[w]) /\ UNCHANGED <<toVisit, items>>
        /\ \A o \in Writers : o # w => txn'[o] = txn[o]
        /\ txn'[w].on /\ txn[w].on /\ txn'[w].posts = txn[w].posts /\ txn[w].todo # <<>>
        /\ txn'[w].todo = Tail(txn[w].todo)
    BY <1>1, LockedTxn DEF LockNext, trDerived
  <2>2. w # "compaction" => Tail(txn[w].todo) \in Seq(Rows)
    BY <2>1 DEF TxnTypes
  <2>3. txn'["retention"].on => toVisit # <<>>
    BY <2>1 DEF TxnTypes, Writers
  <2> QED BY <2>1, <2>2, <2>3 DEF TxnTypes
<1>2. ASSUME NEW w \in Writers, Abort(w) PROVE TxnTypes'
  <2>1. /\ txn' = [txn EXCEPT ![w] = NoTxn] /\ toVisit' = IF w = "retention" THEN <<>> ELSE toVisit
        /\ UNCHANGED items
    BY <1>2 DEF Abort, trDerived
  <2>2. <<>> \in Seq(RealSources)
    OBVIOUS
  <2> QED BY <1>0, <1>c, <2>1, <2>2
<1>3. CASE StartRetention
  <2>1. UNCHANGED <<txn, items>> /\ toVisit' = TrSources /\ ~txn["retention"].on
    BY <1>3 DEF StartRetention, Idle, trDerived
  <2> QED BY <1>0, <2>1 DEF TxnTypes
<1>4. CASE PickBatch
  <2>1. PICK batch \in SUBSET TrPosts : \E o \in SetToSeqs(batch) :
            TrBegins("retention", batch, ItemRows(o), {<<"post", p>> : p \in batch})
    BY <1>4 DEF PickBatch
  <2>2. UNCHANGED <<toVisit, items>> /\ toVisit # <<>>
    BY <1>4 DEF PickBatch, trRun, trDerived
  <2> QED BY <1>b, <2>1, <2>2, RowsTyped DEF Writers
<1>5. CASE CommitBatch
  <2>1. txn' = [txn EXCEPT !["retention"] = NoTxn] /\ toVisit' \in {toVisit, Tail(toVisit)} /\ txn["retention"].on
        /\ items' \subseteq items
    BY <1>5 DEF CommitBatch, Commits, Removes
  <2>2. toVisit # <<>>
    BY <2>1 DEF TxnTypes
  <2>3. Tail(toVisit) \in Seq(RealSources)
    BY <1>0, <2>2
  <2> QED BY <1>0, <1>c, <2>1, <2>3 DEF Writers
<1>6. CASE StartRecheck
  <2>1. PICK S \in SUBSET TrPosts : \E rows \in BatchOrders(S) : TrBegins("recheck", S, rows, {})
    BY <1>6 DEF StartRecheck
  <2> QED BY <1>6, <1>b, <2>1, RowsTyped DEF StartRecheck, trRun, trDerived, Writers
<1>7. CASE StartErasure
  <2>1. PICK p \in TrPosts : \E rows \in BatchOrders({p}) : TrBegins("erasure", {p}, rows, {})
    BY <1>7 DEF StartErasure
  <2>2. {p} \in SUBSET TrPosts
    OBVIOUS
  <2> QED BY <1>7, <1>b, <2>1, <2>2, RowsTyped DEF StartErasure, trRun, trDerived, Writers
<1>8. CASE StartCompaction
  <2>1. PICK left \in SUBSET TrPosts : \E rows : TrBegins("compaction", left, rows, {})
    BY <1>8 DEF StartCompaction
  <2> QED BY <1>8, <1>b, <2>1 DEF StartCompaction, trRun, trDerived, Writers
<1>9. CASE StartPurge \/ StartSample
  <2>1. PICK w \in {"purge", "sampler"}, S \in SUBSET TrPosts :
            \E ids \in IdOrders(S) : TrBegins(w, S, PostRows(ids), {})
    BY <1>9 DEF StartPurge, StartSample
  <2>2. \A ids \in IdOrders(S) : PostRows(ids) \in Seq(Rows)
    BY RowsTyped
  <2> QED BY <1>9, <1>b, <2>1, <2>2 DEF StartPurge, StartSample, trRun, trDerived, Writers
<1>10. CASE StartImport
  <2>1. PICK S \in SUBSET items : \E o \in SetToSeqs(S) : TrBegins("import", S, ItemRows(o), {})
    BY <1>10 DEF StartImport
  <2>2. S \in SUBSET TrPosts
    BY <1>0, <2>1
  <2> QED BY <1>10, <1>b, <2>1, <2>2, RowsTyped DEF StartImport, trRun, trDerived, Writers
<1>11. CASE CommitRecheck \/ CommitErasure \/ CommitCompaction \/ CommitPurge \/ CommitSample \/ CommitImport
  <2>1. PICK w \in {"recheck", "erasure", "compaction", "purge", "sampler", "import"} :
            txn' = [txn EXCEPT ![w] = NoTxn] /\ UNCHANGED toVisit
    BY <1>11 DEF CommitRecheck, CommitErasure, CommitCompaction, CommitPurge, CommitSample, CommitImport, Commits,
                 trRun
  <2>2. items' \subseteq TrPosts
    BY <1>0, <1>11 DEF CommitRecheck, CommitErasure, CommitCompaction, CommitPurge, CommitSample, CommitImport, Removes,
                       Writers
  <2> QED BY <1>0, <1>c, <2>1, <2>2 DEF Writers
<1>12. CASE \/ GrowOld \/ UNCHANGED TextRetentionVars
            \/ \E p \in TrPosts : StartEmbed(p) \/ SaveEmbedding(p) \/ ShowText(p) \/ RecordLabel(p)
  BY <1>a, <1>12 DEF GrowOld, StartEmbed, SaveEmbedding, ShowText, RecordLabel, TextRetentionVars, trRun, trDerived
<1> QED BY <1>1, <1>2, <1>3, <1>4, <1>5, <1>6, <1>7, <1>8, <1>9, <1>10, <1>11, <1>12 DEF TextRetentionNext

---------------------------------------------------------------------------
(* Text and what is made from it.                                          *)

\* Whose posts a transaction works on, what is a gold item, and what is left of
\* a month that compaction has closed or is about to close.
TextInv ==
    /\ NothingOutlivesText
    /\ labels \subseteq items /\ \A p \in items : ~IsDemo(p)
    /\ \A p \in TrPosts : IsDemo(p) => text[p] # "notice"
    /\ \A w \in Writers : \A p \in txn[w].posts : IsDemo(p) <=> w = "purge"
    /\ compacted => \A p \in TrPosts : Stored(p) => IsDemo(p)
    /\ txn["compaction"].on => \A p \in TrPosts : Stored(p) => IsDemo(p) \/ p \in txn["compaction"].posts

\* Text that goes takes with it what was made from it.
LEMMA TextGoes ==
    ASSUME TextInv, NEW S \in SUBSET TrPosts, NEW what \in {"notice", "erased", "purged"},
           \A p \in TrPosts : text'[p] = IF p \in S THEN what ELSE text[p],
           what = "notice" => \A p \in S : ~IsDemo(p),
           items' \subseteq items \ S, labels' \subseteq labels \ S, labels' \subseteq items', vectors' \subseteq vectors,
           \A p \in vectors' \cap S : what = "notice" /\ ~UnderTerms(p) /\ ~compacted',
           \/ compacted' = compacted
           \/ (\A p \in vectors' : IsDemo(p)) /\ (\A p \in TrPosts : Stored(p) /\ p \notin S => IsDemo(p)),
           \A w \in Writers : txn'[w].posts \subseteq txn[w].posts,
           txn'["compaction"].on => txn'["compaction"] = txn["compaction"]
    PROVE  TextInv'
<1>1. \A p \in TrPosts : Stored(p)' => Stored(p) /\ p \notin S
  BY DEF Stored
<1>2. \A p \in TrPosts : IsDemo(p) => text'[p] # "notice"
  BY DEF TextInv
<1>3. NothingOutlivesText'
  <2> SUFFICES ASSUME NEW p \in TrPosts, ~Stored(p)'
               PROVE  /\ p \notin items' /\ p \notin labels'
                      /\ p \in vectors' => ~UnderTerms(p) /\ text'[p] = "notice" /\ ~compacted'
    BY DEF NothingOutlivesText
  <2>1. CASE p \in S
    BY <2>1
  <2>2. CASE p \notin S
    <3>1. ~Stored(p) /\ text'[p] = text[p]
      BY <2>2 DEF Stored
    <3>2. /\ p \notin items /\ p \notin labels
          /\ p \in vectors => ~UnderTerms(p) /\ text[p] = "notice" /\ ~compacted
      BY <3>1 DEF TextInv, NothingOutlivesText
    <3>3. p \in vectors' /\ compacted' # compacted => FALSE
      BY <1>2, <3>1, <3>2
    <3> QED BY <3>1, <3>2, <3>3
  <2> QED BY <2>1, <2>2
<1>4. labels' \subseteq items' /\ \A p \in items' : ~IsDemo(p)
  BY DEF TextInv
<1>5. \A w \in Writers : \A p \in txn'[w].posts : IsDemo(p) <=> w = "purge"
  BY DEF TextInv
<1>6. compacted' => \A p \in TrPosts : Stored(p)' => IsDemo(p)
  BY <1>1 DEF TextInv
<1>7. txn'["compaction"].on => \A p \in TrPosts : Stored(p)' => IsDemo(p) \/ p \in txn'["compaction"].posts
  BY <1>1 DEF TextInv
<1> QED BY <1>2, <1>3, <1>4, <1>5, <1>6, <1>7 DEF TextInv, IsDemo

\* What is made, while no text goes, is made from a text that is there.
LEMMA TextMade ==
    ASSUME TextInv, UNCHANGED <<text, compacted>>, items \subseteq TrPosts,
           \A p \in items' : p \in items \/ (Stored(p) /\ ~IsDemo(p)), items \subseteq items',
           labels' \subseteq items', \A p \in vectors' : p \in vectors \/ Stored(p),
           \A w \in Writers : \A p \in txn'[w].posts : IsDemo(p) <=> w = "purge",
           txn'["compaction"].on
               => \/ txn["compaction"].on /\ txn'["compaction"].posts = txn["compaction"].posts
                  \/ \A p \in TrPosts : Stored(p) => IsDemo(p) \/ p \in txn'["compaction"].posts
    PROVE  TextInv'
<1>1. \A p \in TrPosts : Stored(p)' = Stored(p)
  BY DEF Stored
<1>2. \A p \in items' : ~IsDemo(p)
  BY DEF TextInv
<1>3. NothingOutlivesText'
  <2> SUFFICES ASSUME NEW p \in TrPosts, ~Stored(p)
               PROVE  /\ p \notin items' /\ p \notin labels'
                      /\ p \in vectors' => ~UnderTerms(p) /\ text[p] = "notice" /\ ~compacted
    BY <1>1 DEF NothingOutlivesText
  <2>1. /\ p \notin items /\ p \notin labels
        /\ p \in vectors => ~UnderTerms(p) /\ text[p] = "notice" /\ ~compacted
    BY DEF TextInv, NothingOutlivesText
  <2> QED BY <2>1
<1>4. txn'["compaction"].on => \A p \in TrPosts : Stored(p) => IsDemo(p) \/ p \in txn'["compaction"].posts
  BY DEF TextInv
<1>5. /\ \A p \in TrPosts : IsDemo(p) => text[p] # "notice"
      /\ compacted => \A p \in TrPosts : Stored(p) => IsDemo(p)
  BY DEF TextInv
<1> QED BY <1>1, <1>2, <1>3, <1>4, <1>5 DEF TextInv, IsDemo

\* The posts of real sources are not demo posts.
LEMMA RealIsNoDemo ==
    ASSUME NEW p \in TrPosts, TrSourceOf[p] \in RealSources \/ UnderTerms(p)
    PROVE  ~IsDemo(p)
BY TextRetentionAssumption DEF IsDemo, UnderTerms, RealSources

\* Every step keeps the text and what is made from it together.
LEMMA TextStep == TxnTypes /\ TextInv /\ [TextRetentionNext]_TextRetentionVars => TextInv'
<1> SUFFICES ASSUME TxnTypes, TextInv, [TextRetentionNext]_TextRetentionVars PROVE TextInv'
  OBVIOUS
<1>0. /\ items \subseteq TrPosts /\ labels \subseteq items /\ (\A p \in items : ~IsDemo(p))
      /\ \A w \in Writers : txn[w].posts \subseteq TrPosts
      /\ \A w \in Writers : \A p \in txn[w].posts : IsDemo(p) <=> w = "purge"
      /\ {"retention", "recheck", "erasure", "compaction", "purge", "sampler", "import"} = Writers
  BY DEF TxnTypes, TextInv, Writers
<1>a. ASSUME UNCHANGED <<text, compacted, items, labels, vectors>>,
             \A w \in Writers : txn'[w].posts \subseteq txn[w].posts,
             txn'["compaction"].on => txn["compaction"].on /\ txn'["compaction"].posts = txn["compaction"].posts
      PROVE  TextInv'
  BY <1>0, <1>a, TextMade
<1>b. ASSUME UNCHANGED <<text, compacted, items, labels, vectors>>,
             NEW w \in Writers, NEW posts \in SUBSET TrPosts, NEW rows, NEW held, TrBegins(w, posts, rows, held),
             \A p \in posts : IsDemo(p) <=> w = "purge",
             w = "compaction" => \A p \in TrPosts : Stored(p) => IsDemo(p) \/ p \in posts
      PROVE  TextInv'
  <2>1. (\A o \in Writers : o # w => txn'[o] = txn[o]) /\ txn'[w].posts = posts
    BY <1>b, BegunTxn
  <2>2. \A o \in Writers : \A p \in txn'[o].posts : IsDemo(p) <=> o = "purge"
    <3> TAKE o \in Writers
    <3>1. CASE o = w
      BY <1>b, <2>1, <3>1
    <3>2. CASE o # w
      BY <1>0, <2>1, <3>2
    <3> QED BY <3>1, <3>2
  <2>3. \/ w = "compaction"
        \/ txn'["compaction"] = txn["compaction"]
    BY <1>0, <2>1
  <2> QED BY <1>0, <1>b, <2>1, <2>2, <2>3, TextMade
<1>c. ASSUME NEW w \in Writers, txn' = [txn EXCEPT ![w] = NoTxn]
      PROVE  /\ \A o \in Writers : txn'[o].posts \subseteq txn[o].posts
             /\ txn'["compaction"].on => w # "compaction" /\ txn'["compaction"] = txn["compaction"]
             /\ \A o \in Writers : \A p \in txn'[o].posts : IsDemo(p) <=> o = "purge"
  <2>1. (\A o \in Writers : o # w => txn'[o] = txn[o]) /\ txn'[w] = NoTxn /\ ~NoTxn.on /\ NoTxn.posts = {}
    BY <1>c, EndedTxn
  <2>2. \A o \in Writers : txn'[o].posts \subseteq txn[o].posts
    <3> TAKE o \in Writers
    <3>1. CASE o = w
      BY <2>1, <3>1
    <3>2. CASE o # w
      BY <2>1, <3>2
    <3> QED BY <3>1, <3>2
  <2>3. txn'["compaction"].on => w # "compaction" /\ txn'["compaction"] = txn["compaction"]
    BY <1>0, <2>1
  <2> QED BY <1>0, <2>2, <2>3
<1>1. ASSUME NEW w \in Writers, LockNext(w) PROVE TextInv'
  <2>1. /\ (\A o \in Writers : o # w => txn'[o] = txn[o]) /\ txn'[w].posts = txn[w].posts /\ txn[w].on
        /\ UNCHANGED <<text, compacted, items, labels, vectors>>
    BY <1>1, LockedTxn DEF LockNext, trDerived
  <2>2. /\ \A o \in Writers : txn'[o].posts \subseteq txn[o].posts
        /\ txn'["compaction"].on => txn["compaction"].on /\ txn'["compaction"].posts = txn["compaction"].posts
    BY <1>0, <2>1
  <2> QED BY <1>a, <2>1, <2>2
<1>2. ASSUME NEW w \in Writers, Abort(w) PROVE TextInv'
  <2>1. UNCHANGED <<text, compacted, items, labels, vectors>> /\ txn' = [txn EXCEPT ![w] = NoTxn]
    BY <1>2 DEF Abort, trDerived
  <2> QED BY <1>a, <1>c, <2>1
<1>3. CASE PickBatch
  <2>1. /\ toVisit # <<>> /\ toVisit \in Seq(RealSources)
        /\ UNCHANGED <<text, compacted, items, labels, vectors>>
        /\ \E batch \in SUBSET {p \in TrPosts : TrSourceOf[p] = Head(toVisit)} : \E o \in SetToSeqs(batch) :
               TrBegins("retention", batch, ItemRows(o), {<<"post", p>> : p \in batch})
    BY <1>3 DEF PickBatch, trDerived, TxnTypes
  <2>2. PICK batch \in SUBSET {p \in TrPosts : TrSourceOf[p] = Head(toVisit)} : \E o \in SetToSeqs(batch) :
               TrBegins("retention", batch, ItemRows(o), {<<"post", p>> : p \in batch})
    BY <2>1
  <2>3. Head(toVisit) \in RealSources
    BY <2>1
  <2>4. \A p \in batch : ~IsDemo(p)
    BY <2>2, <2>3, RealIsNoDemo
  <2>5. batch \in SUBSET TrPosts
    BY <2>2
  <2> QED BY <1>0, <1>b, <2>1, <2>2, <2>4, <2>5
<1>4. CASE StartRecheck
  <2>1. PICK s \in TermsSources, S \in SUBSET TrPosts :
            /\ \A p \in S : TrSourceOf[p] = s
            /\ \E rows \in BatchOrders(S) : TrBegins("recheck", S, rows, {})
    BY <1>4 DEF StartRecheck
  <2>2. \A p \in S : ~IsDemo(p)
    BY <2>1, RealIsNoDemo DEF UnderTerms
  <2>3. UNCHANGED <<text, compacted, items, labels, vectors>>
    BY <1>4 DEF StartRecheck, trDerived
  <2> QED BY <1>0, <1>b, <2>1, <2>2, <2>3
<1>5. CASE StartErasure
  <2>1. PICK p \in TrPosts : ~IsDemo(p) /\ \E rows \in BatchOrders({p}) : TrBegins("erasure", {p}, rows, {})
    BY <1>5 DEF StartErasure
  <2>2. UNCHANGED <<text, compacted, items, labels, vectors>> /\ {p} \in SUBSET TrPosts
    BY <1>5 DEF StartErasure, trDerived
  <2>3. \A q \in {p} : ~IsDemo(q)
    BY <2>1
  <2> QED BY <1>0, <1>b, <2>1, <2>2, <2>3
<1>6. CASE StartCompaction
  <2> DEFINE left == {p \in TrPosts : ~IsDemo(p) /\ Stored(p)}
  <2>1. (\E rows : TrBegins("compaction", left, rows, {})) /\ UNCHANGED <<text, compacted, items, labels, vectors>>
    BY <1>6 DEF StartCompaction, trDerived
  <2>2. \A p \in TrPosts : Stored(p) => IsDemo(p) \/ p \in left
    OBVIOUS
  <2>3. left \in SUBSET TrPosts /\ \A p \in left : ~IsDemo(p)
    OBVIOUS
  <2> HIDE DEF left
  <2> QED BY <1>0, <1>b, <2>1, <2>2, <2>3
<1>7. CASE StartPurge
  <2>1. PICK S \in SUBSET {p \in TrPosts : IsDemo(p)} : \E ids \in IdOrders(S) : TrBegins("purge", S, PostRows(ids), {})
    BY <1>7 DEF StartPurge
  <2>2. UNCHANGED <<text, compacted, items, labels, vectors>> /\ S \in SUBSET TrPosts /\ \A p \in S : IsDemo(p)
    BY <1>7, <2>1 DEF StartPurge, trDerived
  <2> QED BY <1>0, <1>b, <2>1, <2>2
<1>8. CASE StartSample
  <2>1. PICK S \in SUBSET {p \in TrPosts : ~IsDemo(p)} :
            \E ids \in IdOrders(S) : TrBegins("sampler", S, PostRows(ids), {})
    BY <1>8 DEF StartSample
  <2>2. UNCHANGED <<text, compacted, items, labels, vectors>> /\ S \in SUBSET TrPosts /\ \A p \in S : ~IsDemo(p)
    BY <1>8, <2>1 DEF StartSample, trDerived
  <2> QED BY <1>0, <1>b, <2>1, <2>2
<1>9. CASE StartImport
  <2>1. PICK S \in SUBSET items : \E o \in SetToSeqs(S) : TrBegins("import", S, ItemRows(o), {})
    BY <1>9 DEF StartImport
  <2>2. UNCHANGED <<text, compacted, items, labels, vectors>> /\ S \in SUBSET TrPosts /\ \A p \in S : ~IsDemo(p)
    BY <1>0, <1>9, <2>1 DEF StartImport, trDerived
  <2> QED BY <1>0, <1>b, <2>1, <2>2
<1>10. ASSUME NEW w \in {"retention", "recheck"}, NEW drop \in BOOLEAN,
              txn' = [txn EXCEPT ![w] = NoTxn], Removes(txn[w].posts, drop, "notice"), UNCHANGED compacted
       PROVE  TextInv'
  <2>1. PICK gone : gone = {p \in txn[w].posts : Stored(p)}
    OBVIOUS
  <2>2. /\ \A p \in TrPosts : text'[p] = IF p \in gone THEN "notice" ELSE text[p]
        /\ vectors' = vectors \ {p \in gone : drop \/ UnderTerms(p)}
        /\ items' = items \ gone /\ labels' = labels \ gone
    BY <1>10, <2>1 DEF Removes
  <2>3. gone \in SUBSET TrPosts /\ \A p \in gone : ~IsDemo(p) /\ Stored(p)
    BY <1>0, <1>10, <2>1
  <2>4. ASSUME NEW p \in vectors' \cap gone PROVE ~UnderTerms(p) /\ ~compacted'
    BY <1>10, <2>2, <2>3, <2>4 DEF TextInv
  <2>5. /\ \A o \in Writers : txn'[o].posts \subseteq txn[o].posts
        /\ txn'["compaction"].on => txn'["compaction"] = txn["compaction"]
    BY <1>0, <1>10, <1>c
  <2> QED BY <1>0, <1>10, <2>2, <2>3, <2>4, <2>5, TextGoes
<1>11. CASE CommitBatch \/ CommitRecheck
  <2>1. PICK w \in {"retention", "recheck"}, drop \in BOOLEAN :
            txn' = [txn EXCEPT ![w] = NoTxn] /\ Removes(txn[w].posts, drop, "notice") /\ UNCHANGED compacted
    BY <1>11 DEF CommitBatch, CommitRecheck, Commits
  <2> QED BY <1>10, <2>1
<1>12. CASE CommitErasure
  <2>1. PICK S : S = txn["erasure"].posts
    OBVIOUS
  <2>2. /\ \A p \in TrPosts : text'[p] = IF p \in S THEN "erased" ELSE text[p]
        /\ vectors' = vectors \ S /\ items' = items \ S /\ labels' = labels \ S /\ UNCHANGED compacted
        /\ txn' = [txn EXCEPT !["erasure"] = NoTxn]
    BY <1>12, <2>1 DEF CommitErasure, Commits
  <2>3. S \in SUBSET TrPosts
    BY <1>0, <2>1
  <2>4. /\ \A o \in Writers : txn'[o].posts \subseteq txn[o].posts
        /\ txn'["compaction"].on => txn'["compaction"] = txn["compaction"]
    BY <1>0, <1>c, <2>2
  <2> QED BY <1>0, <2>2, <2>3, <2>4, TextGoes
<1>13. CASE CommitCompaction
  <2>1. PICK gone : gone = {p \in txn["compaction"].posts : Stored(p)}
    OBVIOUS
  <2>2. /\ \A p \in TrPosts : text'[p] = IF p \in gone THEN "notice" ELSE text[p]
        /\ items' = items \ gone /\ labels' = labels \ gone
        /\ vectors' = {p \in vectors : IsDemo(p)} /\ compacted'
        /\ txn' = [txn EXCEPT !["compaction"] = NoTxn] /\ txn["compaction"].on
    BY <1>13, <2>1 DEF CommitCompaction, Commits
  <2>3. gone \in SUBSET TrPosts /\ \A p \in gone : ~IsDemo(p)
    BY <1>0, <2>1
  <2>4. \A p \in TrPosts : Stored(p) /\ p \notin gone => IsDemo(p)
    BY <2>1, <2>2 DEF TextInv
  <2>5. /\ \A o \in Writers : txn'[o].posts \subseteq txn[o].posts
        /\ txn'["compaction"].on => txn'["compaction"] = txn["compaction"]
    BY <1>0, <1>c, <2>2
  <2> QED BY <1>0, <2>2, <2>3, <2>4, <2>5, TextGoes
<1>14. CASE CommitPurge
  <2>1. PICK S : S = txn["purge"].posts
    OBVIOUS
  <2>2. /\ \A p \in TrPosts : text'[p] = IF p \in S THEN "purged" ELSE text[p]
        /\ vectors' = vectors \ S /\ UNCHANGED <<items, labels, compacted>>
        /\ txn' = [txn EXCEPT !["purge"] = NoTxn]
    BY <1>14, <2>1 DEF CommitPurge, Commits
  <2>3. S \in SUBSET TrPosts /\ \A p \in S : IsDemo(p)
    BY <1>0, <2>1
  <2>4. items' \subseteq items \ S /\ labels' \subseteq labels \ S
    BY <1>0, <2>2, <2>3
  <2>5. /\ \A o \in Writers : txn'[o].posts \subseteq txn[o].posts
        /\ txn'["compaction"].on => txn'["compaction"] = txn["compaction"]
    BY <1>0, <1>c, <2>2
  <2> QED BY <1>0, <2>2, <2>3, <2>4, <2>5, TextGoes
<1>15. CASE CommitSample
  <2>1. /\ UNCHANGED <<text, compacted, labels, vectors>> /\ txn' = [txn EXCEPT !["sampler"] = NoTxn]
        /\ items \subseteq items'
        /\ \A p \in items' : p \in items \/ (p \in txn["sampler"].posts /\ Stored(p))
    BY <1>15 DEF CommitSample, Commits
  <2>2. \A p \in txn["sampler"].posts : ~IsDemo(p)
    BY <1>0
  <2> QED BY <1>0, <1>c, <2>1, <2>2, TextMade
<1>16. CASE CommitImport
  <2>1. /\ UNCHANGED <<text, compacted, items, vectors>> /\ txn' = [txn EXCEPT !["import"] = NoTxn]
        /\ labels' \subseteq items
    BY <1>0, <1>16 DEF CommitImport, Commits
  <2> QED BY <1>0, <1>c, <2>1, TextMade
<1>17. ASSUME NEW p \in TrPosts, StartEmbed(p) \/ SaveEmbedding(p) \/ ShowText(p) \/ RecordLabel(p) PROVE TextInv'
  <2>1. /\ UNCHANGED <<text, compacted, items, txn>> /\ labels' \subseteq items
        /\ \A q \in vectors' : q \in vectors \/ Stored(q)
    BY <1>0, <1>17 DEF StartEmbed, SaveEmbedding, ShowText, RecordLabel, trDerived
  <2> QED BY <1>0, <2>1, TextMade
<1>18. CASE GrowOld \/ StartRetention \/ UNCHANGED TextRetentionVars
  <2>1. UNCHANGED <<text, compacted, items, labels, vectors, txn>>
    BY <1>18 DEF GrowOld, StartRetention, TextRetentionVars, trDerived
  <2> QED BY <1>a, <2>1
<1> QED BY <1>1, <1>2, <1>3, <1>4, <1>5, <1>6, <1>7, <1>8, <1>9, <1>11, <1>12, <1>13, <1>14, <1>15, <1>16, <1>17,
           <1>18 DEF TextRetentionNext

\* At the start nothing is on its way.
LEMMA TextInit == TextRetentionInit => TxnTypes /\ TextInv
<1> SUFFICES ASSUME TextRetentionInit PROVE TxnTypes /\ TextInv
  OBVIOUS
<1>1. /\ txn = [w \in Writers |-> NoTxn] /\ toVisit = <<>> /\ ~compacted /\ labels = {}
      /\ items \in {{}, {p \in TrPosts : TrSourceOf[p] # DemoSource}}
      /\ text = [p \in TrPosts |-> "stored"]
      /\ IsTxn(NoTxn) /\ ~NoTxn.on /\ NoTxn.posts = {} /\ NoTxn.todo = <<>>
  BY DEF TextRetentionInit, NoTxn, IsTxn
<1>2. <<>> \in Seq(Rows) /\ <<>> \in Seq(RealSources)
  OBVIOUS
<1>3. \A w \in Writers : txn[w] = NoTxn
  BY <1>1
<1>4. "retention" \in Writers /\ "compaction" \in Writers
  BY DEF Writers
<1>5. TxnTypes
  <2>1. txn = [w \in Writers |-> txn[w]]
    BY <1>1
  <2>2. items \subseteq TrPosts
    BY <1>1
  <2> QED BY <1>1, <1>2, <1>3, <1>4, <2>1, <2>2 DEF TxnTypes
<1>6. \A p \in TrPosts : Stored(p) /\ text[p] # "notice"
  BY <1>1 DEF Stored
<1>7. \A p \in items : ~IsDemo(p)
  BY <1>1 DEF IsDemo
<1> QED BY <1>1, <1>3, <1>4, <1>5, <1>6, <1>7 DEF TextInv, NothingOutlivesText

\* Nothing that was made from a text outlives it, whoever read the text before it
\* went and wherever the transactions wait, fail or commit in between
\* (src/collectors/retention.js, src/pipeline/embeddings.js, src/gold/store.js).
THEOREM NothingOutlivesItsText == TextRetentionSpec => []NothingOutlivesText
<1>1. TextInv => NothingOutlivesText
  BY DEF TextInv
<1> QED BY <1>1, TextInit, TxnStep, TextStep, PTL DEF TextRetentionSpec

---------------------------------------------------------------------------
(* The order in which rows are locked.                                     *)

\* The writers that lock in order: all but compaction, whose batches follow one
\* another, and the import of labels.
Orderly == {"retention", "recheck", "erasure", "purge", "sampler"}

IsPost(row) == row[1] = "post"

\* All that a transaction has locked or will lock.
LocksOf(todo, held) == held \cup {todo[i] : i \in DOMAIN todo}

\* Posts before gold items, in the order of their ids, and an item only with its post.
InOrder(todo, held) ==
    /\ held \subseteq Rows
    /\ \A i, j \in DOMAIN todo : i < j /\ IsPost(todo[j]) => IsPost(todo[i]) /\ todo[i][2] < todo[j][2]
    /\ \A i \in DOMAIN todo, row \in held : IsPost(todo[i]) => IsPost(row) /\ row[2] < todo[i][2]
    /\ \A row \in LocksOf(todo, held) : <<"post", row[2]>> \in LocksOf(todo, held)

\* A row is held by one transaction, or by several that share it.
Exclusive ==
    \A w, o \in Writers : \A row \in txn[w].held \cap txn[o].held : w = o \/ (Shares(w) /\ Shares(o))

LockInv ==
    /\ Exclusive
    /\ \A w \in Orderly : InOrder(txn[w].todo, txn[w].held)
    /\ \A i \in DOMAIN txn["retention"].todo : ~IsPost(txn["retention"].todo[i])
    /\ \A row \in LocksOf(txn["sampler"].todo, txn["sampler"].held) : IsPost(row)

\* The next lock keeps the order.
LEMMA OrderGoesOn ==
    ASSUME NEW todo \in Seq(Rows), todo # <<>>, NEW held, InOrder(todo, held)
    PROVE  /\ InOrder(Tail(todo), held \cup {Head(todo)})
           /\ LocksOf(Tail(todo), held \cup {Head(todo)}) = LocksOf(todo, held)
           /\ \A i \in DOMAIN Tail(todo) : \E j \in DOMAIN todo : Tail(todo)[i] = todo[j]
<1> DEFINE rest == Tail(todo)
           more == held \cup {Head(todo)}
<1>1. /\ DOMAIN todo = 1 .. Len(todo) /\ Len(todo) \in Nat /\ 1 \in DOMAIN todo /\ Head(todo) = todo[1]
      /\ Head(todo) \in Rows
      /\ DOMAIN rest = 1 .. (Len(todo) - 1)
      /\ \A i \in DOMAIN rest : i + 1 \in DOMAIN todo /\ rest[i] = todo[i + 1]
  OBVIOUS
<1> HIDE DEF rest
<1>2. \A i \in DOMAIN todo : i = 1 \/ (i - 1 \in DOMAIN rest /\ rest[i - 1] = todo[i])
  BY <1>1
<1>3. LocksOf(rest, more) = LocksOf(todo, held)
  BY <1>1, <1>2 DEF LocksOf
<1>4. \A i, j \in DOMAIN rest : i < j /\ IsPost(rest[j]) => IsPost(rest[i]) /\ rest[i][2] < rest[j][2]
  <2> SUFFICES ASSUME NEW i \in DOMAIN rest, NEW j \in DOMAIN rest, i < j, IsPost(rest[j])
               PROVE  IsPost(rest[i]) /\ rest[i][2] < rest[j][2]
    OBVIOUS
  <2>1. i + 1 \in DOMAIN todo /\ j + 1 \in DOMAIN todo /\ i + 1 < j + 1
        /\ rest[i] = todo[i + 1] /\ rest[j] = todo[j + 1]
    BY <1>1
  <2> QED BY <2>1 DEF InOrder
<1>5. \A i \in DOMAIN rest, row \in more : IsPost(rest[i]) => IsPost(row) /\ row[2] < rest[i][2]
  <2> SUFFICES ASSUME NEW i \in DOMAIN rest, NEW row \in more, IsPost(rest[i])
               PROVE  IsPost(row) /\ row[2] < rest[i][2]
    OBVIOUS
  <2>1. i + 1 \in DOMAIN todo /\ 1 < i + 1 /\ rest[i] = todo[i + 1]
    BY <1>1
  <2>2. CASE row \in held
    BY <2>1, <2>2 DEF InOrder
  <2>3. CASE row = todo[1]
    BY <1>1, <2>1, <2>3 DEF InOrder
  <2> QED BY <1>1, <2>2, <2>3
<1>6. more \subseteq Rows
  BY <1>1 DEF InOrder
<1>7. \A row \in LocksOf(rest, more) : <<"post", row[2]>> \in LocksOf(rest, more)
  BY <1>3 DEF InOrder
<1> HIDE DEF more
<1>8. InOrder(rest, more)
  BY <1>4, <1>5, <1>6, <1>7 DEF InOrder
<1> QED BY <1>1, <1>3, <1>8 DEF rest, more

\* An enumeration in the order of the ids goes up.
LEMMA IdsGoUp ==
    ASSUME NEW S \in SUBSET TrPosts, NEW ids \in IdOrders(S)
    PROVE  /\ DOMAIN ids = 1 .. Len(ids) /\ Len(ids) \in Nat /\ \A i \in DOMAIN ids : ids[i] \in S
           /\ \A p \in S : \E i \in DOMAIN ids : ids[i] = p
           /\ \A i, j \in DOMAIN ids : i < j => ids[i] < ids[j]
<1>1. ids \in SetToSeqs(S) /\ \A i, j \in DOMAIN ids : i < j => ids[i] < ids[j]
  BY DEF IdOrders
<1>2. /\ ids \in Seq(S) /\ DOMAIN ids = 1 .. Len(ids) /\ Len(ids) \in Nat
      /\ \A p \in S : \E i \in DOMAIN ids : ids[i] = p
  BY <1>1, Enumerated
<1> QED BY <1>1, <1>2

\* The posts of a set in the order of their ids are in order.
LEMMA PostsInOrder ==
    ASSUME NEW S \in SUBSET TrPosts, NEW ids \in IdOrders(S)
    PROVE  /\ InOrder(PostRows(ids), {})
           /\ \A row \in LocksOf(PostRows(ids), {}) : IsPost(row)
<1>1. /\ DOMAIN ids = 1 .. Len(ids) /\ \A i \in DOMAIN ids : ids[i] \in S
      /\ \A i, j \in DOMAIN ids : i < j => ids[i] < ids[j]
  BY IdsGoUp
<1>2. DOMAIN PostRows(ids) = DOMAIN ids /\ \A i \in DOMAIN ids : PostRows(ids)[i] = <<"post", ids[i]>>
  BY DEF PostRows
<1>3. \A i \in DOMAIN ids : /\ PostRows(ids)[i][2] = ids[i] /\ IsPost(PostRows(ids)[i])
                            /\ <<"post", PostRows(ids)[i][2]>> = PostRows(ids)[i]
  BY <1>2 DEF IsPost
<1> QED BY <1>1, <1>2, <1>3 DEF InOrder, LocksOf

\* A batch is locked in order: its posts, then their gold items.
LEMMA BatchInOrder ==
    ASSUME NEW S \in SUBSET TrPosts, NEW rows \in BatchOrders(S)
    PROVE  InOrder(rows, {})
<1>1. PICK ids \in IdOrders(S), o \in SetToSeqs(S) : rows = PostRows(ids) \o ItemRows(o)
  BY DEF BatchOrders
<1> DEFINE n == Len(ids)
           m == Len(o)
<1>2. /\ DOMAIN ids = 1 .. n /\ n \in Nat /\ \A i \in DOMAIN ids : ids[i] \in S
      /\ \A p \in S : \E i \in DOMAIN ids : ids[i] = p
      /\ \A i, j \in DOMAIN ids : i < j => ids[i] < ids[j]
  BY IdsGoUp
<1>3. o \in Seq(S) /\ DOMAIN o = 1 .. m /\ m \in Nat
  BY Enumerated
<1> HIDE DEF n, m
<1>4. PostRows(ids) \in Seq(Rows) /\ ItemRows(o) \in Seq(Rows)
  BY RowsTyped
<1>5. /\ DOMAIN PostRows(ids) = 1 .. n /\ \A i \in 1 .. n : PostRows(ids)[i] = <<"post", ids[i]>>
      /\ DOMAIN ItemRows(o) = 1 .. m /\ \A i \in 1 .. m : ItemRows(o)[i] = <<"item", o[i]>>
  BY <1>2, <1>3 DEF PostRows, ItemRows
<1>6. Len(PostRows(ids)) = n /\ Len(ItemRows(o)) = m
  BY <1>2, <1>3, <1>4, <1>5
<1>7. /\ DOMAIN rows = 1 .. (n + m)
      /\ \A i \in 1 .. n : rows[i] = <<"post", ids[i]>>
      /\ \A i \in 1 .. (n + m) : i > n => i - n \in 1 .. m /\ rows[i] = <<"item", o[i - n]>>
  <2>1. /\ DOMAIN rows = 1 .. (n + m)
        /\ \A i \in 1 .. (n + m) : rows[i] = IF i <= n THEN PostRows(ids)[i] ELSE ItemRows(o)[i - n]
    BY <1>1, <1>2, <1>3, <1>4, <1>6
  <2>2. \A i \in 1 .. (n + m) : i > n => i - n \in 1 .. m
    BY <1>2, <1>3
  <2>3. \A i \in 1 .. n : i \in 1 .. (n + m) /\ i <= n
    BY <1>2, <1>3
  <2>4. \A i \in 1 .. n : rows[i] = <<"post", ids[i]>>
    BY <1>5, <2>1, <2>3
  <2>5. ASSUME NEW i \in 1 .. (n + m), i > n PROVE rows[i] = <<"item", o[i - n]>>
    <3>1. ~(i <= n)
      BY <1>2, <1>3, <2>5
    <3>2. rows[i] = ItemRows(o)[i - n]
      BY <2>1, <3>1
    <3>3. i - n \in 1 .. m
      BY <2>2, <2>5
    <3> QED BY <1>5, <3>2, <3>3
  <2> QED BY <2>1, <2>2, <2>4, <2>5
<1>8. ASSUME NEW i \in DOMAIN rows
      PROVE  \/ i \in 1 .. n /\ IsPost(rows[i]) /\ rows[i][2] = ids[i]
             \/ i > n /\ ~IsPost(rows[i]) /\ rows[i][2] \in S
  <2>1. CASE i \in 1 .. n
    BY <1>7, <2>1 DEF IsPost
  <2>2. CASE i > n
    BY <1>3, <1>7, <1>8, <2>2 DEF IsPost
  <2> QED BY <1>2, <1>3, <1>7, <1>8, <2>1, <2>2
<1>9. \A i, j \in DOMAIN rows : i < j /\ IsPost(rows[j]) => IsPost(rows[i]) /\ rows[i][2] < rows[j][2]
  <2> SUFFICES ASSUME NEW i \in DOMAIN rows, NEW j \in DOMAIN rows, i < j, IsPost(rows[j])
               PROVE  IsPost(rows[i]) /\ rows[i][2] < rows[j][2]
    OBVIOUS
  <2>1. j \in 1 .. n /\ rows[j][2] = ids[j]
    BY <1>8
  <2>2. i \in 1 .. n
    BY <1>2, <1>3, <1>7, <2>1
  <2>3. IsPost(rows[i]) /\ rows[i][2] = ids[i]
    BY <1>2, <1>8, <2>2
  <2> QED BY <1>2, <2>1, <2>2, <2>3
<1>10. ASSUME NEW i \in DOMAIN rows PROVE <<"post", rows[i][2]>> \in LocksOf(rows, {})
  <2>1. rows[i][2] \in S
    BY <1>2, <1>8
  <2>2. PICK k \in 1 .. n : ids[k] = rows[i][2]
    BY <1>2, <2>1
  <2>3. k \in DOMAIN rows /\ rows[k] = <<"post", ids[k]>>
    BY <1>2, <1>3, <1>7, <2>2
  <2> QED BY <2>2, <2>3 DEF LocksOf
<1> QED BY <1>9, <1>10 DEF InOrder, LocksOf

\* What retention has locked when it begins, and what it locks after it.
LEMMA RetentionInOrder ==
    ASSUME NEW S \in SUBSET TrPosts, NEW o \in SetToSeqs(S)
    PROVE  /\ InOrder(ItemRows(o), {<<"post", p>> : p \in S})
           /\ \A i \in DOMAIN ItemRows(o) : ~IsPost(ItemRows(o)[i])
<1>1. DOMAIN ItemRows(o) = DOMAIN o /\ \A i \in DOMAIN o : ItemRows(o)[i] = <<"item", o[i]>>
  BY DEF ItemRows
<1>2. \A i \in DOMAIN o : o[i] \in S
  BY Enumerated
<1>3. \A i \in DOMAIN o : ~IsPost(ItemRows(o)[i]) /\ ItemRows(o)[i][2] = o[i]
  BY <1>1 DEF IsPost
<1>4. \A p \in S : <<"post", p>> \in Rows /\ <<"post", p>>[2] = p
  BY DEF Rows
<1> QED BY <1>1, <1>2, <1>3, <1>4 DEF InOrder, LocksOf

\* At first nothing is locked.
LEMMA LockInit == TextRetentionInit => LockInv
<1> SUFFICES ASSUME TextRetentionInit PROVE LockInv
  OBVIOUS
<1>1. \A w \in Writers : txn[w].held = {} /\ txn[w].todo = <<>>
  BY DEF TextRetentionInit, NoTxn
<1>2. \A w \in Orderly : w \in Writers
  BY DEF Orderly, Writers
<1>3. InOrder(<<>>, {})
  BY DEF InOrder, LocksOf
<1>4. Exclusive
  BY <1>1 DEF Exclusive
<1>5. \A w \in Orderly : InOrder(txn[w].todo, txn[w].held)
  BY <1>1, <1>2, <1>3
<1>6. "retention" \in Writers /\ "sampler" \in Writers
  BY DEF Writers
<1>7. DOMAIN txn["retention"].todo = {} /\ DOMAIN txn["sampler"].todo = {}
  BY <1>1, <1>6
<1> QED BY <1>1, <1>4, <1>5, <1>6, <1>7 DEF LockInv, LocksOf

\* What the transaction of a writer has to be for a step of it to keep the order.
KeepsOrder(w, todo, held) ==
    /\ \A o \in Writers \ {w} : \A row \in held \cap txn[o].held : Shares(w) /\ Shares(o)
    /\ w \in Orderly => InOrder(todo, held)
    /\ w = "retention" => \A i \in DOMAIN todo : ~IsPost(todo[i])
    /\ w = "sampler" => \A row \in LocksOf(todo, held) : IsPost(row)

\* A step of one transaction keeps the order of all if it keeps its own.
LEMMA OneTxn ==
    ASSUME LockInv, NEW w \in Writers, KeepsOrder(w, txn'[w].todo, txn'[w].held),
           \A o \in Writers : o # w => txn'[o] = txn[o]
    PROVE  LockInv'
<1>1. \A o \in Orderly : o \in Writers
  BY DEF Orderly, Writers
<1>2. Exclusive'
  <2> SUFFICES ASSUME NEW v \in Writers, NEW o \in Writers,
                      NEW row, row \in txn'[v].held, row \in txn'[o].held, v # o
               PROVE  Shares(v) /\ Shares(o)
    BY DEF Exclusive, Shares
  <2>1. CASE v = w
    BY <2>1 DEF KeepsOrder
  <2>2. CASE o = w
    BY <2>2 DEF KeepsOrder
  <2>3. CASE v # w /\ o # w
    BY <2>3 DEF LockInv, Exclusive
  <2> QED BY <2>1, <2>2, <2>3
<1>3. \A o \in Orderly : InOrder(txn'[o].todo, txn'[o].held)
  BY <1>1 DEF KeepsOrder, LockInv
<1>4. \A i \in DOMAIN txn'["retention"].todo : ~IsPost(txn'["retention"].todo[i])
  BY <1>1 DEF KeepsOrder, LockInv, Orderly
<1>5. \A row \in LocksOf(txn'["sampler"].todo, txn'["sampler"].held) : IsPost(row)
  BY <1>1 DEF KeepsOrder, LockInv, Orderly
<1> QED BY <1>2, <1>3, <1>4, <1>5 DEF LockInv

\* The end of a transaction keeps the order.
LEMMA EndKeepsOrder ==
    ASSUME LockInv, TxnTypes, NEW w \in Writers, txn' = [txn EXCEPT ![w] = NoTxn]
    PROVE  LockInv'
<1>1. txn'[w] = NoTxn /\ \A o \in Writers : o # w => txn'[o] = txn[o]
  BY DEF TxnTypes
<1>2. KeepsOrder(w, <<>>, {})
  BY DEF KeepsOrder, InOrder, LocksOf
<1>3. NoTxn.todo = <<>> /\ NoTxn.held = {}
  BY DEF NoTxn
<1>4. KeepsOrder(w, txn'[w].todo, txn'[w].held)
  BY <1>1, <1>2, <1>3
<1> QED BY <1>1, <1>4, OneTxn

\* The beginning of one that has locked nothing.
LEMMA BeginKeepsOrder ==
    ASSUME LockInv, TxnTypes, NEW w \in Writers, w # "retention", NEW S, NEW rows, TrBegins(w, S, rows, {}),
           w \in Orderly => InOrder(rows, {}),
           w = "sampler" => \A row \in LocksOf(rows, {}) : IsPost(row)
    PROVE  LockInv'
<1>1. txn'[w] = [on |-> TRUE, posts |-> S, todo |-> rows, held |-> {}]
      /\ \A o \in Writers : o # w => txn'[o] = txn[o]
  BY DEF TxnTypes, TrBegins
<1>2. KeepsOrder(w, rows, {})
  BY DEF KeepsOrder
<1>3. txn'[w].todo = rows /\ txn'[w].held = {}
  BY <1>1
<1>4. KeepsOrder(w, txn'[w].todo, txn'[w].held)
  BY <1>2, <1>3
<1> QED BY <1>1, <1>4, OneTxn

\* Every step keeps the order of the locks.
LEMMA LockStep == TxnTypes /\ LockInv /\ [TextRetentionNext]_TextRetentionVars => LockInv'
<1> SUFFICES ASSUME TxnTypes, LockInv, [TextRetentionNext]_TextRetentionVars PROVE LockInv'
  OBVIOUS
<1>0. \A w \in Writers : txn[w].posts \subseteq TrPosts
  BY DEF TxnTypes
<1>a. ASSUME UNCHANGED txn PROVE LockInv'
  BY <1>a DEF LockInv, Exclusive, Shares
<1>1. CASE UNCHANGED TextRetentionVars
  BY <1>1, <1>a DEF TextRetentionVars
<1>2. CASE GrowOld
  BY <1>2, <1>a DEF GrowOld
<1>3. ASSUME NEW w \in Writers, LockNext(w) PROVE LockInv'
  <2> DEFINE row == Head(txn[w].todo)
  <2>1. /\ \A o \in Writers : o # w => txn'[o] = txn[o]
        /\ txn'[w].held = txn[w].held \cup {row} /\ txn'[w].todo = Tail(txn[w].todo)
    BY <1>3, LockedTxn
  <2>2. txn[w].todo # <<>> /\ ~Blocked(w, row)
    BY <1>3 DEF LockNext
  <2>3. \A o \in Writers \ {w} : \A r \in txn'[w].held \cap txn[o].held : Shares(w) /\ Shares(o)
    <3> SUFFICES ASSUME NEW o \in Writers, o # w, NEW r, r \in txn'[w].held, r \in txn[o].held
                 PROVE  Shares(w) /\ Shares(o)
      OBVIOUS
    <3>1. CASE r = row
      BY <2>2, <3>1 DEF Blocked, Blocks
    <3>2. CASE r \in txn[w].held
      BY <3>2 DEF LockInv, Exclusive
    <3> QED BY <2>1, <3>1, <3>2
  <2>4. ASSUME w \in Orderly
        PROVE  /\ InOrder(txn'[w].todo, txn'[w].held)
               /\ LocksOf(txn'[w].todo, txn'[w].held) = LocksOf(txn[w].todo, txn[w].held)
               /\ \A i \in DOMAIN txn'[w].todo : \E j \in DOMAIN txn[w].todo : txn'[w].todo[i] = txn[w].todo[j]
    <3>1. txn[w].todo \in Seq(Rows)
      BY <2>4 DEF TxnTypes, Orderly
    <3>2. InOrder(txn[w].todo, txn[w].held)
      BY <2>4 DEF LockInv
    <3> QED BY <2>1, <2>2, <3>1, <3>2, OrderGoesOn
  <2>5. KeepsOrder(w, txn'[w].todo, txn'[w].held)
    BY <2>3, <2>4 DEF KeepsOrder, LockInv, Orderly
  <2> QED BY <2>1, <2>5, OneTxn
<1>b. ASSUME NEW w \in Writers, txn' = [txn EXCEPT ![w] = NoTxn] PROVE LockInv'
  BY <1>b, EndKeepsOrder
<1>4. ASSUME NEW w \in Writers, Abort(w) PROVE LockInv'
  BY <1>4, <1>b DEF Abort
<1>c. ASSUME NEW w \in Writers, Commits(w) PROVE LockInv'
  BY <1>b, <1>c DEF Commits
<1>5. CASE StartRetention
  BY <1>5, <1>a DEF StartRetention
<1>6. CASE PickBatch
  <2> DEFINE free == {p \in TrPosts : /\ TrSourceOf[p] = Head(toVisit) /\ Stored(p) /\ ExpiredAt(p, age)
                                      /\ \A o \in Writers : <<"post", p>> \notin txn[o].held}
             batch == {p \in free : Cardinality({q \in free : q < p}) < TrBatch}
             held == {<<"post", p>> : p \in batch}
  <2>1. PICK o \in SetToSeqs(batch) : TrBegins("retention", batch, ItemRows(o), held)
    BY <1>6 DEF PickBatch
  <2>2. batch \in SUBSET TrPosts /\ \A p \in batch : \A v \in Writers : <<"post", p>> \notin txn[v].held
    OBVIOUS
  <2> HIDE DEF batch
  <2>3. "retention" \in Writers
    BY DEF Writers
  <2>4. /\ \A v \in Writers : v # "retention" => txn'[v] = txn[v]
        /\ txn'["retention"].todo = ItemRows(o) /\ txn'["retention"].held = held
    BY <2>1, <2>3, BegunTxn
  <2>5. /\ InOrder(ItemRows(o), held)
        /\ \A i \in DOMAIN ItemRows(o) : ~IsPost(ItemRows(o)[i])
    BY <2>1, <2>2, RetentionInOrder
  <2>6. KeepsOrder("retention", ItemRows(o), held)
    BY <2>2, <2>5 DEF KeepsOrder
  <2>7. KeepsOrder("retention", txn'["retention"].todo, txn'["retention"].held)
    BY <2>4, <2>6
  <2> QED BY <2>3, <2>4, <2>7, OneTxn
<1>7. CASE CommitBatch
  BY <1>7, <1>c DEF CommitBatch, Writers
<1>8. CASE StartRecheck
  <2>1. PICK s \in TermsSources, S \in SUBSET TrPosts : \E rows \in BatchOrders(S) : TrBegins("recheck", S, rows, {})
    BY <1>8 DEF StartRecheck
  <2>2. PICK rows \in BatchOrders(S) : TrBegins("recheck", S, rows, {})
    BY <2>1
  <2>3. InOrder(rows, {})
    BY <2>2, BatchInOrder
  <2> QED BY <2>2, <2>3, BeginKeepsOrder DEF Writers
<1>9. CASE CommitRecheck
  BY <1>9, <1>c DEF CommitRecheck, Writers
<1>10. CASE StartErasure
  <2>1. PICK p \in TrPosts : \E rows \in BatchOrders({p}) : TrBegins("erasure", {p}, rows, {})
    BY <1>10 DEF StartErasure
  <2>2. PICK rows \in BatchOrders({p}) : TrBegins("erasure", {p}, rows, {})
    BY <2>1
  <2>3. InOrder(rows, {})
    BY <2>2, BatchInOrder
  <2> QED BY <2>2, <2>3, BeginKeepsOrder DEF Writers
<1>11. CASE CommitErasure
  BY <1>11, <1>c DEF CommitErasure, Writers
<1>12. CASE StartCompaction
  <2>1. PICK S, rows : TrBegins("compaction", S, rows, {})
    BY <1>12 DEF StartCompaction
  <2> QED BY <2>1, BeginKeepsOrder DEF Writers, Orderly
<1>13. CASE CommitCompaction
  BY <1>13, <1>c DEF CommitCompaction, Writers
<1>14. CASE StartPurge
  <2>1. PICK S \in SUBSET TrPosts : \E ids \in IdOrders(S) : TrBegins("purge", S, PostRows(ids), {})
    BY <1>14 DEF StartPurge
  <2>2. PICK ids \in IdOrders(S) : TrBegins("purge", S, PostRows(ids), {})
    BY <2>1
  <2>3. InOrder(PostRows(ids), {})
    BY <2>2, PostsInOrder
  <2> QED BY <2>2, <2>3, BeginKeepsOrder DEF Writers
<1>15. CASE CommitPurge
  BY <1>15, <1>c DEF CommitPurge, Writers
<1>16. CASE StartSample
  <2>1. PICK S \in SUBSET TrPosts : \E ids \in IdOrders(S) : TrBegins("sampler", S, PostRows(ids), {})
    BY <1>16 DEF StartSample
  <2>2. PICK ids \in IdOrders(S) : TrBegins("sampler", S, PostRows(ids), {})
    BY <2>1
  <2>3. InOrder(PostRows(ids), {}) /\ \A row \in LocksOf(PostRows(ids), {}) : IsPost(row)
    BY <2>2, PostsInOrder
  <2> QED BY <2>2, <2>3, BeginKeepsOrder DEF Writers
<1>17. CASE CommitSample
  BY <1>17, <1>c DEF CommitSample, Writers
<1>18. CASE StartImport
  <2>1. PICK S, rows : TrBegins("import", S, rows, {})
    BY <1>18 DEF StartImport
  <2> QED BY <2>1, BeginKeepsOrder DEF Writers, Orderly
<1>19. CASE CommitImport
  BY <1>19, <1>c DEF CommitImport, Writers
<1>20. ASSUME NEW p \in TrPosts, StartEmbed(p) \/ SaveEmbedding(p) \/ ShowText(p) \/ RecordLabel(p) PROVE LockInv'
  BY <1>20, <1>a DEF StartEmbed, SaveEmbedding, ShowText, RecordLabel
<1> QED BY <1>1, <1>2, <1>3, <1>4, <1>5, <1>6, <1>7, <1>8, <1>9, <1>10, <1>11, <1>12, <1>13, <1>14, <1>15,
           <1>16, <1>17, <1>18, <1>19, <1>20 DEF TextRetentionNext

\* A transaction that locks in order waits for a post only, and whoever holds that
\* post waits, if it waits, for one that comes after it.
LEMMA WaitsGoUp ==
    ASSUME TxnTypes, LockInv, NEW w \in Orderly, NEW o \in Orderly, WaitsFor(w, o)
    PROVE  /\ txn[w].todo # <<>> /\ Head(txn[w].todo) \in Rows /\ IsPost(Head(txn[w].todo)) /\ w # "retention"
           /\ txn[o].todo # <<>> /\ IsPost(Head(txn[o].todo)) => Head(txn[w].todo)[2] < Head(txn[o].todo)[2]
<1> DEFINE row == Head(txn[w].todo)
<1>1. /\ w \in Writers /\ o \in Writers /\ txn[w].todo \in Seq(Rows) /\ txn[o].todo \in Seq(Rows)
      /\ InOrder(txn[w].todo, txn[w].held) /\ InOrder(txn[o].todo, txn[o].held)
  BY DEF TxnTypes, LockInv, Orderly, Writers
<1>2. txn[w].todo # <<>> /\ o # w /\ row \in txn[o].held /\ ~(Shares(o) /\ Shares(w))
  BY DEF WaitsFor, Blocks
<1>3. row = txn[w].todo[1] /\ 1 \in DOMAIN txn[w].todo /\ row \in Rows /\ DOMAIN txn[w].todo = 1 .. Len(txn[w].todo)
      /\ Len(txn[w].todo) \in Nat
  BY <1>1, <1>2
<1> HIDE DEF row
<1>4. IsPost(row)
  <2> SUFFICES ASSUME ~IsPost(row) PROVE FALSE
    OBVIOUS
  <2>1. <<"post", row[2]>> \in LocksOf(txn[w].todo, txn[w].held) /\ <<"post", row[2]>> \in LocksOf(txn[o].todo, txn[o].held)
    BY <1>1, <1>2, <1>3 DEF InOrder, LocksOf
  <2>2. IsPost(<<"post", row[2]>>)
    BY DEF IsPost
  <2>3. \A i \in DOMAIN txn[w].todo : ~IsPost(txn[w].todo[i])
    <3> SUFFICES ASSUME NEW i \in DOMAIN txn[w].todo, IsPost(txn[w].todo[i]) PROVE FALSE
      OBVIOUS
    <3>1. i = 1 \/ 1 < i
      BY <1>3
    <3> QED BY <1>1, <1>3, <3>1 DEF InOrder
  <2>4. \A i \in DOMAIN txn[o].todo : ~IsPost(txn[o].todo[i])
    BY <1>1, <1>2 DEF InOrder
  <2>5. <<"post", row[2]>> \in txn[w].held /\ <<"post", row[2]>> \in txn[o].held
    BY <2>1, <2>2, <2>3, <2>4 DEF LocksOf
  <2> QED BY <1>1, <1>2, <2>5 DEF LockInv, Exclusive
<1>5. w # "retention"
  BY <1>3, <1>4 DEF LockInv
<1>6. ASSUME txn[o].todo # <<>>, IsPost(Head(txn[o].todo)) PROVE row[2] < Head(txn[o].todo)[2]
  <2>1. Head(txn[o].todo) = txn[o].todo[1] /\ 1 \in DOMAIN txn[o].todo
    BY <1>1, <1>6
  <2> QED BY <1>1, <1>2, <1>6, <2>1 DEF InOrder
<1> QED BY <1>2, <1>3, <1>4, <1>5, <1>6 DEF row

\* Where the order of the locks is kept, nobody waits in a circle.
LEMMA NoCircle == TxnTypes /\ LockInv => OrderedLocks
<1> SUFFICES ASSUME TxnTypes, LockInv, NEW S \in SUBSET (Waiting \ {"import", "compaction"}), Deadlocked(S)
             PROVE  FALSE
  BY DEF OrderedLocks
<1> DEFINE Key(w) == Head(txn[w].todo)[2]
           Rest == {"recheck", "erasure", "purge", "sampler"}
<1>1. \A w \in S : w \in Orderly
  BY DEF Waiting, Writers, Orderly
<1>2. ASSUME NEW w \in S
      PROVE  /\ w \in Rest /\ IsPost(Head(txn[w].todo)) /\ txn[w].todo # <<>>
             /\ Head(txn[w].todo) \in Rows
  <2>1. PICK o \in S : WaitsFor(w, o)
    BY DEF Deadlocked
  <2> QED BY <1>1, <2>1, WaitsGoUp DEF Orderly
<1>3. \A w \in S : Key(w) \in Nat
  BY <1>2, TextRetentionAssumption DEF Rows
<1>4. \A w \in S : \E o \in S : Key(w) < Key(o)
  <2> SUFFICES ASSUME NEW w \in S PROVE \E o \in S : Key(w) < Key(o)
    OBVIOUS
  <2>1. PICK o \in S : WaitsFor(w, o)
    BY DEF Deadlocked
  <2>2. Key(w) < Key(o)
    BY <1>1, <1>2, <2>1, WaitsGoUp
  <2> QED BY <2>2
<1> HIDE DEF Key
<1>5. PICK a \in S : TRUE
  BY DEF Deadlocked
<1>6. PICK b \in S : Key(a) < Key(b)
  BY <1>4
<1>7. PICK c \in S : Key(b) < Key(c)
  BY <1>4
<1>8. PICK d \in S : Key(c) < Key(d)
  BY <1>4
<1>9. PICK e \in S : Key(d) < Key(e)
  BY <1>4
<1>10. /\ a # b /\ a # c /\ a # d /\ a # e /\ b # c /\ b # d /\ b # e /\ c # d /\ c # e /\ d # e
  BY <1>3, <1>6, <1>7, <1>8, <1>9
<1>11. a \in Rest /\ b \in Rest /\ c \in Rest /\ d \in Rest /\ e \in Rest
  BY <1>2
<1> QED BY <1>10, <1>11

\* The transactions that remove text and the sampler never wait on each other in a
\* circle, whatever they chose to lock and in whatever order their locks are
\* granted (src/collectors/retention.js, src/gold/store.js).
THEOREM LocksAreOrdered == TextRetentionSpec => []OrderedLocks
BY TextInit, TxnStep, LockInit, LockStep, NoCircle, PTL DEF TextRetentionSpec

---------------------------------------------------------------------------
(* What a retention run has done.                                          *)

\* A post that this run has to deal with: it was past its window when the run
\* began, it still has its text, and nobody else has locked it since.
Due(p) == ~IsDemo(p) /\ ExpiredAt(p, runAge) /\ Stored(p) /\ p \notin touched

RunInv ==
    /\ abortsLeft \in Nat
    /\ \A p \in TrPosts : ExpiredAt(p, runAge) => ExpiredAt(p, age)
    /\ \A o \in Writers \ {"retention"} : \A p \in TrPosts : <<"post", p>> \in txn[o].held => p \in touched
    /\ toVisit # <<>> => \A p \in TrPosts : Due(p) => \E i \in DOMAIN toVisit : TrSourceOf[p] = toVisit[i]
    /\ txn["retention"].on /\ Cardinality(txn["retention"].posts) < TrBatch
           => \A p \in TrPosts : Due(p) /\ TrSourceOf[p] = Head(toVisit) => p \in txn["retention"].posts

\* What has its text after a step had it before, and was not touched before if it
\* is not after: a run has ever less to deal with.
Fewer == /\ \A p \in TrPosts : text'[p] = "stored" => text[p] = "stored"
         /\ touched \subseteq touched' /\ UNCHANGED runAge

\* A set of posts has a first: the smallest of the sets of those up to one of them.
LEMMA FirstPost ==
    ASSUME NEW S \in SUBSET TrPosts, S # {}
    PROVE  \E p \in S : \A q \in S : p <= q
<1> DEFINE Upto(p) == {q \in S : q <= p}
           T == {Upto(p) : p \in S}
<1>1. IsFiniteSet(TrPosts) /\ \A p \in S : p \in Nat
  BY TextRetentionAssumption
<1>2. T \subseteq FiniteSubsetsOf(TrPosts)
  BY <1>1, FS_FiniteSubsetsOfFinite
<1>3. IsWellFoundedOn(StrictSubsetOrdering(TrPosts), FiniteSubsetsOf(TrPosts)) /\ T # {}
  BY FS_StrictSubsetOrderingWellFounded
<1>4. PICK U \in T : \A V \in T : ~(<<V, U>> \in StrictSubsetOrdering(TrPosts))
  BY <1>2, <1>3, WFMin
<1>5. PICK p \in S : U = Upto(p)
  BY <1>4
<1>6. ASSUME NEW q \in S, q < p PROVE FALSE
  <2>1. \A r \in S : r <= q => r <= p
    BY <1>1, <1>6
  <2>2. Upto(q) \subseteq Upto(p) /\ p \in Upto(p) /\ p \notin Upto(q)
    BY <1>1, <1>6, <2>1
  <2>3. <<Upto(q), Upto(p)>> \in StrictSubsetOrdering(TrPosts)
    BY <2>2 DEF StrictSubsetOrdering
  <2> QED BY <1>4, <1>5, <2>3
<1> QED BY <1>1, <1>6

\* A batch that is not full has all that was free.
LEMMA ShortBatch ==
    ASSUME NEW free \in SUBSET TrPosts, NEW batch,
           batch = {p \in free : Cardinality({q \in free : q < p}) < TrBatch}, Cardinality(batch) < TrBatch
    PROVE  free \subseteq batch
<1> SUFFICES ASSUME free \ batch # {} PROVE FALSE
  OBVIOUS
<1>1. free \ batch \subseteq Nat /\ free \subseteq Nat /\ TrBatch \in Nat
  BY TextRetentionAssumption
<1>2. PICK p \in free \ batch : \A q \in free \ batch : p <= q
  BY FirstPost
<1> DEFINE below == {q \in free : q < p}
<1>3. below \subseteq batch
  BY <1>1, <1>2
<1>4. IsFiniteSet(batch)
  BY TextRetentionAssumption, FS_Subset
<1>5. Cardinality(below) <= Cardinality(batch) /\ Cardinality(below) \in Nat /\ Cardinality(batch) \in Nat
  BY <1>3, <1>4, FS_Subset, FS_CardinalityType
<1>6. Cardinality(below) < TrBatch
  BY <1>1, <1>5
<1> QED BY <1>2, <1>6

\* Posts that are past their window stay so.
LEMMA WindowsEnd ==
    ASSUME GrowOld, NEW p \in TrPosts, ExpiredAt(p, age) PROVE ExpiredAt(p, age')
<1>1. DOMAIN Ages = 1 .. 3 /\ Ages[1] = "young" /\ Ages[2] = "terms" /\ Ages[3] = "detail"
  BY DEF Ages
<1>2. PICK i \in 2 .. 3 : age = Ages[i - 1] /\ age' = Ages[i]
  BY <1>1 DEF GrowOld
<1>3. \A b : Reaches(Ages[i - 1], b) => Reaches(Ages[i], b)
  <2> SUFFICES ASSUME NEW b, Reaches(Ages[i - 1], b) PROVE Reaches(Ages[i], b)
    OBVIOUS
  <2>1. PICK k, j \in DOMAIN Ages : k >= j /\ Ages[k] = Ages[i - 1] /\ Ages[j] = b
    BY DEF Reaches
  <2>2. k = i - 1
    BY <1>1, <1>2, <2>1
  <2>3. i \in DOMAIN Ages /\ i >= j
    BY <1>1, <1>2, <2>1, <2>2
  <2> QED BY <2>1, <2>3 DEF Reaches
<1> QED BY <1>2, <1>3 DEF ExpiredAt

\* A step that leaves the run and its transaction alone, and locks nothing that it
\* does not count as touched.
LEMMA RunGoesOn ==
    ASSUME RunInv, Fewer, UNCHANGED <<age, toVisit>>, abortsLeft' \in Nat,
           \A o \in Writers \ {"retention"} : \A p \in TrPosts : <<"post", p>> \in txn'[o].held => p \in touched',
           txn'["retention"].on => txn["retention"].on /\ txn'["retention"].posts = txn["retention"].posts
    PROVE  RunInv'
<1>1. \A p \in TrPosts : Due(p)' => Due(p)
  BY DEF Fewer, Due, Stored, IsDemo, ExpiredAt, UnderTerms, Reaches
<1>2. \A p \in TrPosts : ExpiredAt(p, runAge') => ExpiredAt(p, age')
  BY DEF Fewer, RunInv
<1>3. toVisit' # <<>> => \A p \in TrPosts : Due(p)' => \E i \in DOMAIN toVisit' : TrSourceOf[p] = toVisit'[i]
  BY <1>1 DEF RunInv
<1>4. txn'["retention"].on /\ Cardinality(txn'["retention"].posts) < TrBatch
          => \A p \in TrPosts : Due(p)' /\ TrSourceOf[p] = Head(toVisit') => p \in txn'["retention"].posts
  BY <1>1 DEF RunInv
<1> QED BY <1>2, <1>3, <1>4 DEF RunInv, ExpiredAt, Reaches, UnderTerms

\* Every step keeps what is said of a run.
LEMMA RunStep == TxnTypes /\ RunInv /\ [TextRetentionNext]_TextRetentionVars => RunInv'
<1> SUFFICES ASSUME TxnTypes, RunInv, [TextRetentionNext]_TextRetentionVars PROVE RunInv'
  OBVIOUS
<1>0. /\ Writers = {"retention", "recheck", "erasure", "compaction", "purge", "sampler", "import"}
      /\ abortsLeft \in Nat /\ toVisit \in Seq(RealSources)
      /\ \A o \in Writers \ {"retention"} : \A p \in TrPosts : <<"post", p>> \in txn[o].held => p \in touched
      /\ \A w \in Writers : txn[w].posts \subseteq TrPosts
  BY DEF Writers, RunInv, TxnTypes
<1>a. ASSUME UNCHANGED <<age, toVisit, runAge, touched, abortsLeft, txn>>,
             \A p \in TrPosts : text'[p] = "stored" => text[p] = "stored"
      PROVE  RunInv'
  BY <1>0, <1>a, RunGoesOn DEF Fewer
<1>b. ASSUME UNCHANGED <<age, toVisit, runAge, touched, abortsLeft, text>>,
             NEW w \in Writers, w # "retention", NEW posts, NEW rows, TrBegins(w, posts, rows, {})
      PROVE  RunInv'
  <2>1. (\A o \in Writers : o # w => txn'[o] = txn[o]) /\ txn'[w].held = {}
    BY <1>b, BegunTxn
  <2>2. \A o \in Writers \ {"retention"} : \A p \in TrPosts : <<"post", p>> \in txn'[o].held => p \in touched
    BY <1>0, <2>1
  <2>3. txn'["retention"] = txn["retention"]
    BY <1>0, <1>b, <2>1
  <2> QED BY <1>0, <1>b, <2>2, <2>3, RunGoesOn DEF Fewer
<1>c. ASSUME UNCHANGED <<age, toVisit, runAge, touched>>, abortsLeft' \in Nat,
             \A p \in TrPosts : text'[p] = "stored" => text[p] = "stored",
             NEW w \in Writers, w # "retention", txn' = [txn EXCEPT ![w] = NoTxn]
      PROVE  RunInv'
  <2>1. (\A o \in Writers : o # w => txn'[o] = txn[o]) /\ txn'[w].held = {}
    BY <1>c, EndedTxn
  <2>2. \A o \in Writers \ {"retention"} : \A p \in TrPosts : <<"post", p>> \in txn'[o].held => p \in touched
    BY <1>0, <2>1
  <2>3. txn'["retention"] = txn["retention"]
    BY <1>0, <1>c, <2>1
  <2> QED BY <1>0, <1>c, <2>2, <2>3, RunGoesOn DEF Fewer
<1>1. CASE UNCHANGED TextRetentionVars
  BY <1>1, <1>a DEF TextRetentionVars, trRun
<1>2. CASE GrowOld
  <2>1. UNCHANGED <<text, txn, toVisit, runAge, touched, abortsLeft>>
    BY <1>2 DEF GrowOld, trRun
  <2>2. \A p \in TrPosts : ExpiredAt(p, runAge) => ExpiredAt(p, age')
    BY <1>2, WindowsEnd DEF RunInv
  <2> QED BY <2>1, <2>2 DEF RunInv, Due, Stored, IsDemo, ExpiredAt, Reaches, UnderTerms
<1>3. ASSUME NEW w \in Writers, LockNext(w) PROVE RunInv'
  <2> DEFINE row == Head(txn[w].todo)
  <2>1. /\ \A o \in Writers : o # w => txn'[o] = txn[o]
        /\ txn'[w].held = txn[w].held \cup {row} /\ txn[w].on /\ txn'[w].posts = txn[w].posts
    BY <1>3, LockedTxn
  <2>2. /\ UNCHANGED <<age, text, toVisit, runAge, abortsLeft>>
        /\ touched' = IF w # "retention" /\ row[1] = "post" THEN touched \cup {row[2]} ELSE touched
    BY <1>3 DEF LockNext
  <2>3. Fewer
    BY <2>2 DEF Fewer
  <2>4. \A o \in Writers \ {"retention"} : \A p \in TrPosts : <<"post", p>> \in txn'[o].held => p \in touched'
    <3> SUFFICES ASSUME NEW o \in Writers, o # "retention", NEW p \in TrPosts, <<"post", p>> \in txn'[o].held
                 PROVE  p \in touched'
      OBVIOUS
    <3>1. CASE <<"post", p>> \in txn[o].held
      BY <1>0, <2>2, <3>1
    <3>2. CASE o = w /\ row = <<"post", p>>
      BY <2>2, <3>2
    <3> QED BY <2>1, <3>1, <3>2
  <2>5. txn'["retention"].on => txn["retention"].on /\ txn'["retention"].posts = txn["retention"].posts
    BY <1>0, <2>1
  <2> QED BY <1>0, <2>2, <2>3, <2>4, <2>5, RunGoesOn
<1>4. ASSUME NEW w \in Writers, Abort(w) PROVE RunInv'
  <2>1. /\ UNCHANGED <<age, text, runAge, touched>> /\ txn' = [txn EXCEPT ![w] = NoTxn]
        /\ toVisit' = IF w = "retention" THEN <<>> ELSE toVisit
        /\ abortsLeft > 0 /\ abortsLeft' = abortsLeft - 1
    BY <1>4 DEF Abort
  <2>2. abortsLeft' \in Nat
    BY <1>0, <2>1
  <2>3. CASE w # "retention"
    BY <1>c, <2>1, <2>2, <2>3
  <2>4. CASE w = "retention"
    <3>1. /\ \A o \in Writers : o # w => txn'[o] = txn[o]
          /\ ~txn'["retention"].on
      BY <2>1, <2>4, EndedTxn
    <3> QED BY <1>0, <2>1, <2>2, <2>4, <3>1 DEF RunInv, ExpiredAt, Reaches, UnderTerms
  <2> QED BY <2>3, <2>4
<1>5. CASE StartRetention
  <2>1. /\ UNCHANGED <<age, text, txn, abortsLeft>> /\ toVisit' = TrSources /\ runAge' = age /\ ~txn["retention"].on
        /\ touched' = {p \in TrPosts : \E o \in Writers : <<"post", p>> \in txn[o].held}
    BY <1>5 DEF StartRetention, Idle
  <2>2. \A p \in TrPosts : ~IsDemo(p) => \E i \in DOMAIN TrSources : TrSourceOf[p] = TrSources[i]
    BY TextRetentionAssumption DEF IsDemo
  <2> QED BY <1>0, <2>1, <2>2 DEF RunInv, Due, Stored, IsDemo, ExpiredAt, Reaches, UnderTerms
<1>6. CASE PickBatch
  <2> DEFINE free == {p \in TrPosts : /\ TrSourceOf[p] = Head(toVisit) /\ Stored(p) /\ ExpiredAt(p, age)
                                      /\ \A o \in Writers : <<"post", p>> \notin txn[o].held}
             batch == {p \in free : Cardinality({q \in free : q < p}) < TrBatch}
             held == {<<"post", p>> : p \in batch}
  <2>1. PICK o \in SetToSeqs(batch) : TrBegins("retention", batch, ItemRows(o), held)
    BY <1>6 DEF PickBatch
  <2>2. UNCHANGED <<age, text, toVisit, runAge, touched, abortsLeft>> /\ ~txn["retention"].on
    BY <1>6 DEF PickBatch, trRun, Idle
  <2>3. free \in SUBSET TrPosts /\ (Cardinality(batch) < TrBatch => free \subseteq batch)
    <3>1. free \in SUBSET TrPosts
      OBVIOUS
    <3>2. batch = {p \in free : Cardinality({q \in free : q < p}) < TrBatch}
      OBVIOUS
    <3> HIDE DEF free, batch
    <3> QED BY <3>1, <3>2, ShortBatch
  <2>4. txn["retention"].held = {}
    BY <1>0, <2>2 DEF TxnTypes, NoTxn
  <2>5. ASSUME NEW p \in TrPosts, Due(p), TrSourceOf[p] = Head(toVisit) PROVE p \in free
    BY <1>0, <2>4, <2>5 DEF Due, RunInv
  <2> HIDE DEF free, batch, held
  <2>6. /\ \A v \in Writers : v # "retention" => txn'[v] = txn[v]
        /\ txn'["retention"].posts = batch
    BY <1>0, <2>1, BegunTxn
  <2>7. \A p \in TrPosts : Due(p)' = Due(p) /\ ExpiredAt(p, runAge)' = ExpiredAt(p, runAge)
                           /\ ExpiredAt(p, age)' = ExpiredAt(p, age)
    BY <2>2 DEF Due, Stored, IsDemo, ExpiredAt, Reaches, UnderTerms
  <2> QED BY <1>0, <2>2, <2>3, <2>5, <2>6, <2>7 DEF RunInv
<1>7. CASE CommitBatch
  <2> DEFINE batch == txn["retention"].posts
  <2>1. /\ txn["retention"].on /\ txn' = [txn EXCEPT !["retention"] = NoTxn]
        /\ UNCHANGED <<age, runAge, touched, abortsLeft>>
        /\ toVisit' = IF Cardinality(batch) < TrBatch THEN Tail(toVisit) ELSE toVisit
        /\ \A p \in TrPosts : text'[p] = IF p \in batch /\ Stored(p) THEN "notice" ELSE text[p]
    BY <1>7 DEF CommitBatch, Commits, Removes
  <2>2. toVisit # <<>>
    BY <2>1 DEF TxnTypes
  <2>3. \A p \in TrPosts : Due(p)' => Due(p) /\ p \notin batch
    BY <2>1 DEF Due, Stored, IsDemo, ExpiredAt, Reaches, UnderTerms
  <2>4. (\A o \in Writers : o # "retention" => txn'[o] = txn[o]) /\ ~txn'["retention"].on
    BY <1>0, <2>1, EndedTxn
  <2>5. ASSUME toVisit' # <<>>, NEW p \in TrPosts, Due(p)'
        PROVE  \E i \in DOMAIN toVisit' : TrSourceOf[p] = toVisit'[i]
    <3>1. PICK i \in DOMAIN toVisit : TrSourceOf[p] = toVisit[i]
      BY <2>2, <2>3, <2>5 DEF RunInv
    <3>2. CASE Cardinality(batch) < TrBatch
      <4>1. TrSourceOf[p] # Head(toVisit)
        BY <2>1, <2>3, <2>5, <3>2 DEF RunInv
      <4>2. i # 1
        BY <1>0, <2>2, <3>1, <4>1
      <4>3. i - 1 \in DOMAIN Tail(toVisit) /\ Tail(toVisit)[i - 1] = toVisit[i]
        BY <1>0, <2>2, <3>1, <4>2
      <4> QED BY <2>1, <3>1, <3>2, <4>3
    <3>3. CASE ~(Cardinality(batch) < TrBatch)
      BY <2>1, <3>1, <3>3
    <3> QED BY <3>2, <3>3
  <2>6. \A p \in TrPosts : ExpiredAt(p, runAge)' = ExpiredAt(p, runAge) /\ ExpiredAt(p, age)' = ExpiredAt(p, age)
    BY <2>1 DEF ExpiredAt, Reaches, UnderTerms
  <2> QED BY <1>0, <2>1, <2>4, <2>5, <2>6 DEF RunInv
<1>8. CASE StartRecheck
  <2>1. PICK S, rows : TrBegins("recheck", S, rows, {})
    BY <1>8 DEF StartRecheck
  <2> QED BY <1>0, <1>8, <1>b, <2>1 DEF StartRecheck, trRun
<1>9. CASE StartErasure
  <2>1. PICK S, rows : TrBegins("erasure", S, rows, {})
    BY <1>9 DEF StartErasure
  <2> QED BY <1>0, <1>9, <1>b, <2>1 DEF StartErasure, trRun
<1>10. CASE StartCompaction
  <2>1. PICK S, rows : TrBegins("compaction", S, rows, {})
    BY <1>10 DEF StartCompaction
  <2> QED BY <1>0, <1>10, <1>b, <2>1 DEF StartCompaction, trRun
<1>11. CASE StartPurge
  <2>1. PICK S, rows : TrBegins("purge", S, rows, {})
    BY <1>11 DEF StartPurge
  <2> QED BY <1>0, <1>11, <1>b, <2>1 DEF StartPurge, trRun
<1>12. CASE StartSample
  <2>1. PICK S, rows : TrBegins("sampler", S, rows, {})
    BY <1>12 DEF StartSample
  <2> QED BY <1>0, <1>12, <1>b, <2>1 DEF StartSample, trRun
<1>13. CASE StartImport
  <2>1. PICK S, rows : TrBegins("import", S, rows, {})
    BY <1>13 DEF StartImport
  <2> QED BY <1>0, <1>13, <1>b, <2>1 DEF StartImport, trRun
<1>14. CASE CommitRecheck \/ CommitErasure \/ CommitCompaction \/ CommitPurge \/ CommitSample \/ CommitImport
  <2>1. PICK w \in Writers \ {"retention"} : txn' = [txn EXCEPT ![w] = NoTxn]
    BY <1>0, <1>14 DEF CommitRecheck, CommitErasure, CommitCompaction, CommitPurge, CommitSample, CommitImport, Commits
  <2>2. UNCHANGED <<age, toVisit, runAge, touched, abortsLeft>>
    BY <1>14 DEF CommitRecheck, CommitErasure, CommitCompaction, CommitPurge, CommitSample, CommitImport, trRun
  <2>3. \A p \in TrPosts : text'[p] = "stored" => text[p] = "stored"
    BY <1>14 DEF CommitRecheck, CommitErasure, CommitCompaction, CommitPurge, CommitSample, CommitImport, Removes
  <2> QED BY <1>0, <1>c, <2>1, <2>2, <2>3
<1>15. ASSUME NEW p \in TrPosts, StartEmbed(p) \/ SaveEmbedding(p) \/ ShowText(p) \/ RecordLabel(p) PROVE RunInv'
  BY <1>15, <1>a DEF StartEmbed, SaveEmbedding, ShowText, RecordLabel, trRun
<1> QED BY <1>1, <1>2, <1>3, <1>4, <1>5, <1>6, <1>7, <1>8, <1>9, <1>10, <1>11, <1>12, <1>13, <1>14, <1>15
        DEF TextRetentionNext

\* At first no run is on and nothing is locked.
LEMMA RunInit == TextRetentionInit => RunInv
<1> SUFFICES ASSUME TextRetentionInit PROVE RunInv
  OBVIOUS
<1>1. /\ age = runAge /\ toVisit = <<>> /\ abortsLeft \in Nat
      /\ \A w \in Writers : txn[w].held = {} /\ ~txn[w].on
  BY TextRetentionAssumption DEF TextRetentionInit, NoTxn
<1> QED BY <1>1 DEF RunInv, Writers

\* The step that ends a run well is the commit of its last batch.
LEMMA RunEndsWell ==
    ASSUME TxnTypes, RunInv, TextRetentionNext, txn["retention"].on, ~txn'["retention"].on,
           toVisit' = <<>>, abortsLeft' = abortsLeft
    PROVE  CommitBatch
<1>0. /\ Writers = {"retention", "recheck", "erasure", "compaction", "purge", "sampler", "import"}
      /\ abortsLeft \in Nat
  BY DEF Writers, RunInv
<1>a. ASSUME NEW w \in Writers, w # "retention", txn' = [txn EXCEPT ![w] = NoTxn] PROVE FALSE
  BY <1>0, <1>a, EndedTxn
<1>b. ASSUME NEW w \in Writers, w # "retention", NEW posts, NEW rows, TrBegins(w, posts, rows, {}) PROVE FALSE
  BY <1>0, <1>b, BegunTxn
<1>1. ASSUME NEW w \in Writers, LockNext(w) PROVE FALSE
  BY <1>0, <1>1, LockedTxn
<1>2. ASSUME NEW w \in Writers, Abort(w) PROVE FALSE
  BY <1>0, <1>2 DEF Abort
<1>3. ASSUME PickBatch PROVE FALSE
  BY <1>3 DEF PickBatch, Idle
<1>4. ASSUME StartRecheck \/ StartErasure \/ StartCompaction \/ StartPurge \/ StartSample \/ StartImport PROVE FALSE
  <2>1. PICK w \in Writers \ {"retention"} : \E S, rows : TrBegins(w, S, rows, {})
    BY <1>0, <1>4 DEF StartRecheck, StartErasure, StartCompaction, StartPurge, StartSample, StartImport
  <2> QED BY <1>b, <2>1
<1>5. ASSUME CommitRecheck \/ CommitErasure \/ CommitCompaction \/ CommitPurge \/ CommitSample \/ CommitImport PROVE FALSE
  <2>1. PICK w \in Writers \ {"retention"} : txn' = [txn EXCEPT ![w] = NoTxn]
    BY <1>0, <1>5 DEF CommitRecheck, CommitErasure, CommitCompaction, CommitPurge, CommitSample, CommitImport, Commits
  <2> QED BY <1>a, <2>1
<1>6. ASSUME \/ GrowOld \/ StartRetention
             \/ \E p \in TrPosts : StartEmbed(p) \/ SaveEmbedding(p) \/ ShowText(p) \/ RecordLabel(p)
      PROVE  FALSE
  BY <1>6 DEF GrowOld, StartRetention, StartEmbed, SaveEmbedding, ShowText, RecordLabel
<1> QED BY <1>1, <1>2, <1>3, <1>4, <1>5, <1>6 DEF TextRetentionNext

\* When it ends well, nothing is left that the run had to deal with.
LEMMA NothingIsLeft ==
    ASSUME TxnTypes, RunInv, CommitBatch, Len(toVisit) = 1, toVisit' = <<>>,
           NEW p \in TrPosts, ~IsDemo(p), ExpiredAt(p, runAge), p \notin touched
    PROVE  text'[p] # "stored"
<1> DEFINE batch == txn["retention"].posts
<1>1. /\ txn["retention"].on /\ toVisit \in Seq(RealSources)
      /\ toVisit' = IF Cardinality(batch) < TrBatch THEN Tail(toVisit) ELSE toVisit
      /\ text'[p] = IF p \in batch /\ Stored(p) THEN "notice" ELSE text[p]
  BY DEF CommitBatch, Commits, Removes, TxnTypes
<1>2. toVisit # <<>>
  BY <1>1 DEF TxnTypes
<1>3. Cardinality(batch) < TrBatch
  BY <1>1, <1>2
<1>4. \A i \in DOMAIN toVisit : toVisit[i] = Head(toVisit)
  BY <1>1, <1>2
<1>5. CASE Stored(p)
  <2>1. Due(p)
    BY <1>5 DEF Due
  <2>2. TrSourceOf[p] = Head(toVisit)
    BY <1>2, <1>4, <2>1 DEF RunInv
  <2>3. p \in batch
    BY <1>1, <1>3, <2>1, <2>2 DEF RunInv
  <2> QED BY <1>1, <1>5, <2>3
<1>6. CASE ~Stored(p)
  BY <1>1, <1>6 DEF Stored
<1> QED BY <1>5, <1>6

\* A retention run that ends well has removed every text that was past its window
\* when it began and that nobody else had locked in the meantime: no batch stops
\* short, and no source is left out (src/collectors/retention.js).
THEOREM RunsAreThorough == TextRetentionSpec => RunIsThorough
<1>1. TxnTypes /\ RunInv /\ [TextRetentionNext]_TextRetentionVars
          => [txn["retention"].on /\ ~txn'["retention"].on /\ Len(toVisit) = 1 /\ toVisit' = <<>> /\ abortsLeft' = abortsLeft =>
                \A p \in TrPosts : ~IsDemo(p) /\ ExpiredAt(p, runAge) /\ p \notin touched => text'[p] # "stored"]_TextRetentionVars
  <2> SUFFICES ASSUME TxnTypes, RunInv, TextRetentionNext, txn["retention"].on, ~txn'["retention"].on,
                      Len(toVisit) = 1, toVisit' = <<>>, abortsLeft' = abortsLeft,
                      NEW p \in TrPosts, ~IsDemo(p), ExpiredAt(p, runAge), p \notin touched
               PROVE  text'[p] # "stored"
    OBVIOUS
  <2>1. CommitBatch
    BY RunEndsWell
  <2> QED BY <2>1, NothingIsLeft
<1> QED BY <1>1, TextInit, TxnStep, RunInit, RunStep, PTL DEF TextRetentionSpec, RunIsThorough
---------------------------------------------------------------------------
(* The types. What compaction locks is the rows of its batches, one batch   *)
(* after another; that this is a sequence of rows takes an induction, from  *)
(* the least index at which it would fail.                                  *)

\* Of the indices of a sequence that have a property, one is the least.
LEMMA LeastIndex ==
    ASSUME NEW n \in Nat, NEW S \in SUBSET (1 .. n), S # {}
    PROVE  \E m \in S : \A k \in S : m <= k
<1> DEFINE Upto(j) == {k \in S : k <= j}
           T == {Upto(j) : j \in S}
<1>0. IsFiniteSet(1 .. n)
  BY FS_Interval
<1>1. IsFiniteSet(S)
  BY <1>0, FS_Subset
<1>2. T \subseteq FiniteSubsetsOf(S)
  BY <1>1, FS_FiniteSubsetsOfFinite
<1>3. IsWellFoundedOn(StrictSubsetOrdering(S), FiniteSubsetsOf(S)) /\ T # {}
  BY FS_StrictSubsetOrderingWellFounded
<1>4. PICK U \in T : \A V \in T : ~(<<V, U>> \in StrictSubsetOrdering(S))
  BY <1>2, <1>3, WFMin
<1>5. PICK m \in S : U = Upto(m)
  BY <1>4
<1>6. ASSUME NEW k \in S, k < m PROVE FALSE
  <2>0. m \in Nat /\ k \in Nat /\ \A i \in S : i \in Nat
    OBVIOUS
  <2>1. ASSUME NEW i \in S, i <= k PROVE i <= m
    <3>1. i \in Nat
      BY <2>0
    <3> QED BY <1>6, <2>0, <2>1, <3>1
  <2>2. Upto(k) \subseteq Upto(m)
    BY <2>1
  <2>3. m \in Upto(m) /\ m \notin Upto(k)
    BY <1>6, <2>0
  <2>4. Upto(k) \in T
    OBVIOUS
  <2>5. Upto(k) # Upto(m) /\ Upto(k) \in SUBSET S /\ Upto(m) \in SUBSET S
    BY <2>3
  <2>6. <<Upto(k), U>> \in StrictSubsetOrdering(S)
    BY <1>5, <2>2, <2>5 DEF StrictSubsetOrdering
  <2> QED BY <1>4, <2>4, <2>6
<1>7. \A k \in S : m <= k
  BY <1>6
<1> QED BY <1>7

\* g concatenates the first m of the sequences, one index at a time.
Unfolds(g, seqs, m) == g = [i \in 1 .. m |-> IF i = 1 THEN seqs[i] ELSE g[i - 1] \o seqs[i]]

LEMMA UnfoldsFurther ==
    ASSUME NEW seqs, NEW n \in Nat, n >= 1, NEW g, Unfolds(g, seqs, n)
    PROVE  \E h : Unfolds(h, seqs, n + 1)
<1> DEFINE h == [i \in 1 .. n + 1 |-> IF i = 1 THEN seqs[i] ELSE g[i - 1] \o seqs[i]]
<1>1. \A i \in 1 .. n : g[i] = IF i = 1 THEN seqs[i] ELSE g[i - 1] \o seqs[i]
  BY DEF Unfolds
<1>2. \A i \in 1 .. n : h[i] = g[i]
  BY <1>1
<1>3. \A i \in 1 .. n + 1 : i # 1 => i - 1 \in 1 .. n
  OBVIOUS
<1>4. \A i \in 1 .. n + 1 : (IF i = 1 THEN seqs[i] ELSE g[i - 1] \o seqs[i])
                              = (IF i = 1 THEN seqs[i] ELSE h[i - 1] \o seqs[i])
  BY <1>2, <1>3
<1>5. h = [i \in 1 .. n + 1 |-> IF i = 1 THEN seqs[i] ELSE h[i - 1] \o seqs[i]]
  BY <1>4
<1> HIDE DEF h
<1> QED BY <1>5 DEF Unfolds

LEMMA UnfoldsAll ==
    ASSUME NEW seqs, NEW n \in Nat, n >= 1 PROVE \E g : Unfolds(g, seqs, n)
<1> DEFINE Bad == {m \in 1 .. n : ~ \E g : Unfolds(g, seqs, m)}
<1>1. CASE Bad = {}
  BY <1>1
<1>2. CASE Bad # {}
  <2>1. PICK m \in Bad : \A k \in Bad : m <= k
    BY <1>2, LeastIndex
  <2>2. m \in 1 .. n /\ ~ \E g : Unfolds(g, seqs, m)
    OBVIOUS
  <2>3. CASE m = 1
    <3> DEFINE g == [i \in 1 .. 1 |-> seqs[i]]
    <3>1. g = [i \in 1 .. 1 |-> IF i = 1 THEN seqs[i] ELSE g[i - 1] \o seqs[i]]
      OBVIOUS
    <3> HIDE DEF g
    <3> QED BY <2>2, <2>3, <3>1 DEF Unfolds
  <2>4. CASE m # 1
    <3>1. m - 1 \in 1 .. n /\ m - 1 \in Nat /\ m - 1 >= 1 /\ (m - 1) + 1 = m /\ ~(m <= m - 1)
      BY <2>2, <2>4
    <3>2. m - 1 \notin Bad
      BY <2>1, <3>1
    <3>3. \E g : Unfolds(g, seqs, m - 1)
      BY <3>1, <3>2
    <3>4. \E h : Unfolds(h, seqs, (m - 1) + 1)
      BY <3>1, <3>3, UnfoldsFurther
    <3> QED BY <2>2, <3>1, <3>4
  <2> QED BY <2>3, <2>4
<1> QED BY <1>1, <1>2

\* Sequences of rows, one after another, are a sequence of rows.
LEMMA FlattenTyped ==
    ASSUME NEW R, NEW seqs \in Seq(Seq(R)) PROVE FlattenSeq(seqs) \in Seq(R)
<1>1. CASE Len(seqs) = 0
  <2>1. seqs = <<>>
    BY <1>1
  <2> QED BY <1>1, <2>1 DEF FlattenSeq
<1>2. CASE Len(seqs) # 0
  <2> DEFINE n == Len(seqs)
             f == CHOOSE g : Unfolds(g, seqs, n)
  <2>1. n \in Nat /\ n >= 1 /\ \A i \in 1 .. n : seqs[i] \in Seq(R)
    BY <1>2
  <2>2. FlattenSeq(seqs) = f[n]
    BY <1>2 DEF FlattenSeq, Unfolds
  <2> HIDE DEF n
  <2>3. Unfolds(f, seqs, n)
    BY <2>1, UnfoldsAll
  <2> HIDE DEF f
  <2> DEFINE Bad == {m \in 1 .. n : f[m] \notin Seq(R)}
  <2>4. \A i \in 1 .. n : f[i] = IF i = 1 THEN seqs[i] ELSE f[i - 1] \o seqs[i]
    BY <2>3 DEF Unfolds
  <2>5. ASSUME Bad # {} PROVE FALSE
    <3>1. PICK m \in Bad : \A k \in Bad : m <= k
      BY <2>1, <2>5, LeastIndex
    <3>2. m \in 1 .. n /\ f[m] \notin Seq(R)
      OBVIOUS
    <3>3. m # 1
      BY <2>1, <2>4, <3>2
    <3>4. m - 1 \in 1 .. n /\ ~(m <= m - 1)
      BY <2>1, <3>2, <3>3
    <3>5. f[m - 1] \in Seq(R)
      BY <3>1, <3>4
    <3>6. f[m] = f[m - 1] \o seqs[m] /\ seqs[m] \in Seq(R)
      BY <2>1, <2>4, <3>2, <3>3
    <3> QED BY <3>2, <3>5, <3>6
  <2>6. n \in 1 .. n
    BY <2>1
  <2> QED BY <2>2, <2>5, <2>6
<1> QED BY <1>1, <1>2

\* What compaction locks, batch after batch.
LEMMA CompactionRows ==
    ASSUME NEW left \in SUBSET TrPosts, NEW groups \in SUBSET SUBSET left, NEW order \in SetToSeqs(groups),
           NEW batches, batches = [i \in DOMAIN order |-> batches[i]],
           \A i \in DOMAIN order : batches[i] \in BatchOrders(order[i])
    PROVE  FlattenSeq(batches) \in Seq(Rows)
<1> DEFINE n == Cardinality(groups)
<1>1. IsFiniteSet(left) /\ IsFiniteSet(SUBSET left)
  BY TextRetentionAssumption, FS_Subset, FS_SUBSET
<1>2. n \in Nat
  <2>1. IsFiniteSet(groups)
    BY <1>1, FS_Subset
  <2> QED BY <2>1, FS_CardinalityType
<1>3. order \in [1 .. n -> groups]
  BY DEF SetToSeqs
<1> HIDE DEF n
<1>4. \A i \in 1 .. n : batches[i] \in Seq(Rows)
  <2> TAKE i \in 1 .. n
  <2>1. order[i] \in SUBSET TrPosts /\ batches[i] \in BatchOrders(order[i])
    BY <1>3
  <2> QED BY <2>1, RowsTyped
<1>5. batches = [i \in 1 .. n |-> batches[i]]
  BY <1>3
<1>6. batches \in Seq(Seq(Rows))
  BY <1>2, <1>4, <1>5
<1> QED BY <1>6, FlattenTyped

\* What TxnTypes leaves out.
LockTypes ==
    \A w \in Writers : txn[w].on \in BOOLEAN /\ txn[w].todo \in Seq(Rows) /\ txn[w].held \subseteq Rows
TrAges == {Ages[i] : i \in DOMAIN Ages}
PostTypes ==
    /\ age \in TrAges /\ runAge \in TrAges
    /\ text \in [TrPosts -> {"stored", "notice", "erased", "purged"}]
    /\ vectors \subseteq TrPosts /\ labels \subseteq TrPosts /\ touched \subseteq TrPosts /\ purgedIn \subseteq TrPosts
    /\ embedding \subseteq TrPosts /\ labelling \subseteq TrPosts /\ compacted \in BOOLEAN
    /\ startsLeft \in 0 .. TrMaxStarts /\ abortsLeft \in 0 .. TrMaxAborts

\* A transaction begins with rows to lock, locks them in turn, and ends with none.
LEMMA LockTypesStep == TxnTypes /\ LockTypes /\ [TextRetentionNext]_TextRetentionVars => LockTypes'
<1> SUFFICES ASSUME TxnTypes, LockTypes, [TextRetentionNext]_TextRetentionVars PROVE LockTypes'
  OBVIOUS
<1>a. ASSUME UNCHANGED txn PROVE LockTypes'
  BY <1>a DEF LockTypes
<1>b. ASSUME NEW w \in Writers, NEW posts, NEW rows \in Seq(Rows), NEW held \in SUBSET Rows,
             TrBegins(w, posts, rows, held)
      PROVE  LockTypes'
  <2>1. /\ txn'[w].on = TRUE /\ txn'[w].todo = rows /\ txn'[w].held = held
        /\ \A o \in Writers : o # w => txn'[o] = txn[o]
    BY <1>b DEF TrBegins, TxnTypes
  <2> QED BY <2>1 DEF LockTypes
<1>c. ASSUME NEW w \in Writers, txn' = [txn EXCEPT ![w] = NoTxn] PROVE LockTypes'
  <2>1. txn'[w] = NoTxn /\ \A o \in Writers : o # w => txn'[o] = txn[o]
    BY <1>c, EndedTxn
  <2>2. NoTxn.on \in BOOLEAN /\ NoTxn.todo \in Seq(Rows) /\ NoTxn.held \subseteq Rows
    BY DEF NoTxn
  <2> QED BY <2>1, <2>2 DEF LockTypes
<1>1. ASSUME NEW w \in Writers, LockNext(w) PROVE LockTypes'
  <2>1. /\ \A o \in Writers : o # w => txn'[o] = txn[o]
        /\ txn[w].todo # <<>> /\ txn'[w].todo = Tail(txn[w].todo)
        /\ txn'[w].held = txn[w].held \cup {Head(txn[w].todo)}
    BY <1>1, LockedTxn
  <2>2. txn'[w].on = txn[w].on
    BY <1>1 DEF LockNext, TxnTypes, IsTxn
  <2>3. Head(txn[w].todo) \in Rows /\ Tail(txn[w].todo) \in Seq(Rows)
    BY <2>1 DEF LockTypes
  <2> QED BY <2>1, <2>2, <2>3 DEF LockTypes
<1>2. CASE \/ \E w \in Writers : Abort(w)
           \/ CommitBatch \/ CommitRecheck \/ CommitErasure \/ CommitCompaction \/ CommitPurge \/ CommitSample
           \/ CommitImport
  <2>1. \E w \in Writers : txn' = [txn EXCEPT ![w] = NoTxn]
    BY <1>2 DEF Abort, CommitBatch, CommitRecheck, CommitErasure, CommitCompaction, CommitPurge, CommitSample,
                CommitImport, Commits, Writers
  <2> QED BY <1>c, <2>1
<1>3. CASE PickBatch
  <2>1. PICK batch \in SUBSET TrPosts : \E o \in SetToSeqs(batch) :
            TrBegins("retention", batch, ItemRows(o), {<<"post", p>> : p \in batch})
    BY <1>3 DEF PickBatch
  <2>2. {<<"post", p>> : p \in batch} \in SUBSET Rows
    BY DEF Rows
  <2> QED BY <1>b, <2>1, <2>2, RowsTyped DEF Writers
<1>4. CASE StartRecheck \/ StartErasure
  <2>1. PICK w \in Writers, S \in SUBSET TrPosts : \E rows \in BatchOrders(S) : TrBegins(w, S, rows, {})
    <3>1. CASE StartRecheck
      BY <3>1 DEF StartRecheck, Writers
    <3>2. CASE StartErasure
      <4>1. PICK p \in TrPosts : \E rows \in BatchOrders({p}) : TrBegins("erasure", {p}, rows, {})
        BY <3>2 DEF StartErasure
      <4>2. {p} \in SUBSET TrPosts /\ "erasure" \in Writers
        BY DEF Writers
      <4> QED BY <4>1, <4>2
    <3> QED BY <1>4, <3>1, <3>2
  <2> QED BY <1>b, <2>1, RowsTyped
<1>5. CASE StartCompaction
  <2> DEFINE left == {p \in TrPosts : ~IsDemo(p) /\ Stored(p)}
             groups == {{p \in left : TrSourceOf[p] = s} : s \in {TrSourceOf[p] : p \in left}}
  <2>0. PICK order \in SetToSeqs(groups) :
            \E batches \in [DOMAIN order -> UNION {BatchOrders(g) : g \in groups}] :
                /\ \A i \in DOMAIN order : batches[i] \in BatchOrders(order[i])
                /\ TrBegins("compaction", left, FlattenSeq(batches), {})
    BY <1>5 DEF StartCompaction
  <2>1. PICK batches \in [DOMAIN order -> UNION {BatchOrders(g) : g \in groups}] :
            /\ \A i \in DOMAIN order : batches[i] \in BatchOrders(order[i])
            /\ TrBegins("compaction", left, FlattenSeq(batches), {})
    BY <2>0
  <2>2. left \in SUBSET TrPosts /\ groups \in SUBSET SUBSET left
    OBVIOUS
  <2>3. batches = [i \in DOMAIN order |-> batches[i]]
    OBVIOUS
  <2> HIDE DEF left, groups
  <2>4. FlattenSeq(batches) \in Seq(Rows)
    BY <2>1, <2>2, <2>3, CompactionRows
  <2> QED BY <1>b, <2>1, <2>4 DEF Writers
<1>6. CASE StartPurge \/ StartSample
  <2>1. PICK w \in {"purge", "sampler"}, S \in SUBSET TrPosts :
            \E ids \in IdOrders(S) : TrBegins(w, S, PostRows(ids), {})
    BY <1>6 DEF StartPurge, StartSample
  <2>2. \A ids \in IdOrders(S) : PostRows(ids) \in Seq(Rows)
    BY RowsTyped
  <2> QED BY <1>b, <2>1, <2>2 DEF Writers
<1>7. CASE StartImport
  <2>1. PICK S \in SUBSET items : \E o \in SetToSeqs(S) : TrBegins("import", S, ItemRows(o), {})
    BY <1>7 DEF StartImport
  <2>2. S \in SUBSET TrPosts
    BY <2>1 DEF TxnTypes
  <2> QED BY <1>b, <2>1, <2>2, RowsTyped DEF Writers
<1>8. CASE \/ GrowOld \/ StartRetention \/ UNCHANGED TextRetentionVars
           \/ \E p \in TrPosts : StartEmbed(p) \/ SaveEmbedding(p) \/ ShowText(p) \/ RecordLabel(p)
  BY <1>a, <1>8 DEF GrowOld, StartRetention, StartEmbed, SaveEmbedding, ShowText, RecordLabel, TextRetentionVars
<1> QED BY <1>1, <1>2, <1>3, <1>4, <1>5, <1>6, <1>7, <1>8 DEF TextRetentionNext

LEMMA PostTypesStep == TxnTypes /\ LockTypes /\ PostTypes /\ [TextRetentionNext]_TextRetentionVars => PostTypes'
<1> SUFFICES ASSUME TxnTypes, LockTypes, PostTypes, [TextRetentionNext]_TextRetentionVars PROVE PostTypes'
  OBVIOUS
<1>0. items \subseteq TrPosts /\ \A w \in Writers : txn[w].posts \subseteq TrPosts
  BY DEF TxnTypes
<1>s. ASSUME Spend PROVE startsLeft' \in 0 .. TrMaxStarts
  BY <1>s, TextRetentionAssumption DEF Spend, PostTypes
<1>1. ASSUME NEW w \in Writers, LockNext(w) PROVE PostTypes'
  <2>1. touched' \subseteq TrPosts
    <3>1. CASE w # "retention" /\ Head(txn[w].todo)[1] = "post"
      <4>1. Head(txn[w].todo) \in Rows
        BY <1>1 DEF LockNext, LockTypes
      <4>2. Head(txn[w].todo)[2] \in TrPosts
        BY <4>1 DEF Rows
      <4> QED BY <1>1, <3>1, <4>2 DEF LockNext, PostTypes
    <3>2. CASE ~(w # "retention" /\ Head(txn[w].todo)[1] = "post")
      BY <1>1, <3>2 DEF LockNext, PostTypes
    <3> QED BY <3>1, <3>2
  <2> QED BY <1>1, <2>1 DEF LockNext, PostTypes, trDerived, trWork
<1>2. ASSUME NEW w \in Writers, Abort(w) PROVE PostTypes'
  <2>1. abortsLeft' \in 0 .. TrMaxAborts
    BY <1>2, TextRetentionAssumption DEF Abort, PostTypes
  <2> QED BY <1>2, <2>1 DEF Abort, PostTypes, trDerived, trWork
<1>3. CASE GrowOld
  <2>1. age' \in TrAges
    BY <1>3 DEF GrowOld, TrAges
  <2> QED BY <1>3, <2>1 DEF GrowOld, PostTypes, trDerived, trRun, trWork
<1>4. CASE StartRetention
  <2>1. touched' \subseteq TrPosts
    BY <1>4 DEF StartRetention
  <2>2. startsLeft' \in 0 .. TrMaxStarts
    BY <1>4, <1>s DEF StartRetention
  <2>3. runAge' \in TrAges
    BY <1>4 DEF StartRetention, PostTypes
  <2> QED BY <1>4, <2>1, <2>2, <2>3 DEF StartRetention, PostTypes, trDerived, trWork
<1>5. CASE PickBatch
  BY <1>5 DEF PickBatch, PostTypes, trDerived, trRun, trWork
<1>6. CASE StartRecheck \/ StartErasure \/ StartCompaction \/ StartPurge \/ StartSample \/ StartImport
  <2>1. /\ Spend
        /\ UNCHANGED <<age, runAge, text, vectors, labels, touched, purgedIn, embedding, labelling, compacted, abortsLeft>>
    BY <1>6 DEF StartRecheck, StartErasure, StartCompaction, StartPurge, StartSample, StartImport, trDerived, trRun,
                trWork
  <2> QED BY <1>s, <2>1 DEF PostTypes
<1>7. CASE CommitBatch \/ CommitRecheck
  <2>1. PICK S \in SUBSET TrPosts : \E drop \in BOOLEAN : Removes(S, drop, "notice")
    BY <1>0, <1>7 DEF CommitBatch, CommitRecheck, Writers
  <2>2. /\ text' \in [TrPosts -> {"stored", "notice", "erased", "purged"}]
        /\ vectors' \subseteq TrPosts /\ labels' \subseteq TrPosts
    BY <2>1 DEF Removes, PostTypes
  <2>3. UNCHANGED <<age, runAge, touched, purgedIn, embedding, labelling, compacted, startsLeft, abortsLeft>>
    BY <1>7 DEF CommitBatch, CommitRecheck, trRun, trWork
  <2> QED BY <2>2, <2>3 DEF PostTypes
<1>8. CASE CommitErasure
  <2>1. /\ text' \in [TrPosts -> {"stored", "notice", "erased", "purged"}]
        /\ vectors' \subseteq TrPosts /\ labels' \subseteq TrPosts
    BY <1>8 DEF CommitErasure, PostTypes
  <2> QED BY <1>8, <2>1 DEF CommitErasure, PostTypes, trRun, trWork
<1>9. CASE CommitCompaction
  <2>1. /\ text' \in [TrPosts -> {"stored", "notice", "erased", "purged"}]
        /\ vectors' \subseteq TrPosts /\ labels' \subseteq TrPosts /\ compacted' \in BOOLEAN
    BY <1>9 DEF CommitCompaction, PostTypes
  <2> QED BY <1>9, <2>1 DEF CommitCompaction, PostTypes, trRun, trWork
<1>10. CASE CommitPurge
  <2>1. /\ text' \in [TrPosts -> {"stored", "notice", "erased", "purged"}]
        /\ vectors' \subseteq TrPosts /\ purgedIn' \subseteq TrPosts
    BY <1>0, <1>10 DEF CommitPurge, PostTypes, Writers
  <2> QED BY <1>10, <2>1 DEF CommitPurge, PostTypes, trRun, trWork
<1>11. CASE CommitSample
  BY <1>11 DEF CommitSample, PostTypes, trRun, trWork
<1>12. CASE CommitImport
  <2>1. labels' \subseteq TrPosts
    BY <1>0, <1>12 DEF CommitImport, PostTypes, Writers
  <2> QED BY <1>12, <2>1 DEF CommitImport, PostTypes, trRun, trWork
<1>13. ASSUME NEW p \in TrPosts, StartEmbed(p) \/ SaveEmbedding(p) \/ ShowText(p) \/ RecordLabel(p) PROVE PostTypes'
  <2>1. /\ vectors' \subseteq TrPosts /\ labels' \subseteq TrPosts
        /\ embedding' \subseteq TrPosts /\ labelling' \subseteq TrPosts
    BY <1>13 DEF StartEmbed, SaveEmbedding, ShowText, RecordLabel, PostTypes, trDerived
  <2> QED BY <1>13, <2>1 DEF StartEmbed, SaveEmbedding, ShowText, RecordLabel, PostTypes, trRun
<1>14. CASE UNCHANGED TextRetentionVars
  BY <1>14 DEF TextRetentionVars, PostTypes, trDerived, trRun, trWork
<1> QED BY <1>1, <1>2, <1>3, <1>4, <1>5, <1>6, <1>7, <1>8, <1>9, <1>10, <1>11, <1>12, <1>13, <1>14
        DEF TextRetentionNext

\* The posts, what is made from them and the transactions on them keep their
\* types, the locks compaction has still to take among them.
THEOREM TextRetentionTyped == TextRetentionSpec => []TextRetentionTypeOK
<1>1. TextRetentionInit => LockTypes /\ PostTypes
  <2> SUFFICES ASSUME TextRetentionInit PROVE LockTypes /\ PostTypes
    OBVIOUS
  <2>1. NoTxn.on \in BOOLEAN /\ NoTxn.todo \in Seq(Rows) /\ NoTxn.held \subseteq Rows
    BY DEF NoTxn
  <2>2. LockTypes
    BY <2>1 DEF TextRetentionInit, LockTypes
  <2>3. "young" \in TrAges
    BY DEF TrAges, Ages
  <2>4. PostTypes
    <3>0. TrMaxStarts \in 0 .. TrMaxStarts /\ TrMaxAborts \in 0 .. TrMaxAborts
      BY TextRetentionAssumption
    <3>1. startsLeft \in 0 .. TrMaxStarts /\ abortsLeft \in 0 .. TrMaxAborts /\ compacted \in BOOLEAN
      BY <3>0 DEF TextRetentionInit
    <3>2. text \in [TrPosts -> {"stored", "notice", "erased", "purged"}] /\ vectors \subseteq TrPosts
      BY DEF TextRetentionInit
    <3>3. age \in TrAges /\ runAge \in TrAges
      BY <2>3 DEF TextRetentionInit
    <3>4. labels = {} /\ touched = {} /\ purgedIn = {} /\ embedding = {} /\ labelling = {}
      BY DEF TextRetentionInit
    <3> QED BY <3>1, <3>2, <3>3, <3>4 DEF PostTypes
  <2> QED BY <2>2, <2>4
<1>2. TxnTypes /\ LockTypes /\ PostTypes => TextRetentionTypeOK
  BY DEF TxnTypes, LockTypes, PostTypes, TextRetentionTypeOK, TrAges, RealSources
<1> QED BY <1>1, <1>2, TextInit, TxnStep, LockTypesStep, PostTypesStep, PTL DEF TextRetentionSpec
=============================================================================
