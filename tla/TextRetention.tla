--------------------------- MODULE TextRetention ---------------------------
(***************************************************************************)
(* The text of collected posts and what is derived from it: retention,     *)
(* upstream deletions, erasure requests, monthly compaction and the demo   *)
(* purge remove it, while embed jobs, the gold sampler and gold labellers  *)
(* write embeddings, items and labels made from it.                        *)
(*                                                                         *)
(*   src/collectors/retention.js, scripts/compact.js, src/gold/store.js,   *)
(*   src/pipeline/embeddings.js, src/db/migrations/070_relevance_gold_set  *)
(*                                                                         *)
(* Transactions take PostgreSQL row locks one at a time and hold them to   *)
(* their end; their effects appear when they commit. A statement that is a *)
(* transaction of its own, and locks one row, is one step.                 *)
(***************************************************************************)
EXTENDS Naturals, Sequences, FiniteSets, SequencesExt

CONSTANTS
    TrPosts,            \* numbers: the order of the post ids
    TrSourceOf,         \* post -> its source
    TrSources,          \* the real sources, in the order of their names
    TermsSources,       \* those with a platform-terms window
    DemoSource,
    TrBatch,            \* batch size of retention and of the purge
    TrToEmbed,          \* posts whose embed job is still to run; the others have a vector
    TrToLabel,          \* posts whose gold item is labelled by hand
    TrWriters,          \* which transactions may run
    TrMaxStarts,        \* bound: transactions and runs begun
    TrMaxAborts         \* bound: transactions that fail

Writers == {"retention", "recheck", "erasure", "compaction", "purge", "sampler", "import"}

ASSUME TextRetentionAssumption ==
    /\ TrPosts \subseteq Nat /\ IsFiniteSet(TrPosts) /\ TrBatch \in Nat \ {0} /\ TrWriters \subseteq Writers
    /\ TrToEmbed \subseteq TrPosts /\ TrToLabel \subseteq TrPosts
    /\ TrSources \in Seq({TrSources[i] : i \in DOMAIN TrSources})
    /\ DemoSource \notin {TrSources[i] : i \in DOMAIN TrSources}
    /\ TrSourceOf \in [TrPosts -> {TrSources[i] : i \in DOMAIN TrSources} \cup {DemoSource}]
    /\ TermsSources \subseteq {TrSources[i] : i \in DOMAIN TrSources}
    /\ TrMaxStarts \in Nat /\ TrMaxAborts \in Nat

VARIABLES
    age,                \* of the posts: "young", past the "terms" or the "detail" window
    text,               \* post -> "stored", "notice", "erased" or "purged"
    vectors,            \* posts with a post_embeddings row
    items, labels,      \* posts with a live gold item; with a live label of it
    txn,                \* writer -> its transaction
    toVisit,            \* sources the retention run has still to visit
    runAge, touched,    \* the age it began at; posts locked by others since
    compacted, purgedIn,\* compaction_log; posts the purge's log rows name
    embedding, labelling,   \* posts being embedded; being labelled
    startsLeft, abortsLeft

trDerived == <<vectors, items, labels>>
trRun == <<toVisit, runAge, touched>>
trWork == <<embedding, labelling>>
TextRetentionVars == <<age, text, trDerived, txn, trRun, compacted, purgedIn, trWork, startsLeft, abortsLeft>>

Rows == {<<"post", p>> : p \in TrPosts} \cup {<<"item", p>> : p \in TrPosts}
NoTxn == [on |-> FALSE, posts |-> {}, todo |-> <<>>, held |-> {}]
Ages == <<"young", "terms", "detail">>

\* The type invariant of the posts and of the transactions on them.
TextRetentionTypeOK ==
    /\ age \in {Ages[i] : i \in DOMAIN Ages} /\ runAge \in {Ages[i] : i \in DOMAIN Ages}
    /\ text \in [TrPosts -> {"stored", "notice", "erased", "purged"}]
    /\ \A s \in {vectors, items, labels, touched, purgedIn, embedding, labelling} : s \subseteq TrPosts
    /\ \A w \in Writers : /\ txn[w].on \in BOOLEAN /\ txn[w].posts \subseteq TrPosts
                          /\ txn[w].todo \in Seq(Rows) /\ txn[w].held \subseteq Rows
    /\ toVisit \in Seq({TrSources[i] : i \in DOMAIN TrSources}) /\ compacted \in BOOLEAN
    /\ startsLeft \in 0 .. TrMaxStarts /\ abortsLeft \in 0 .. TrMaxAborts

TextRetentionInit ==
    /\ age = "young" /\ runAge = "young" /\ text = [p \in TrPosts |-> "stored"]
    /\ vectors = TrPosts \ TrToEmbed /\ items \in {{}, {p \in TrPosts : TrSourceOf[p] # DemoSource}} /\ labels = {}
    /\ touched = {} /\ purgedIn = {}
    /\ embedding = {} /\ labelling = {} /\ txn = [w \in Writers |-> NoTxn]
    /\ toVisit = <<>> /\ compacted = FALSE
    /\ startsLeft = TrMaxStarts /\ abortsLeft = TrMaxAborts

---------------------------------------------------------------------------

Stored(p) == text[p] = "stored"
IsDemo(p) == TrSourceOf[p] = DemoSource
UnderTerms(p) == TrSourceOf[p] \in TermsSources
Reaches(a, b) == \E i, j \in DOMAIN Ages : i >= j /\ Ages[i] = a /\ Ages[j] = b
ExpiredAt(p, a) == Reaches(a, IF UnderTerms(p) THEN "terms" ELSE "detail")

\* Time goes by: the windows of all posts, one month's, end.
GrowOld ==
    /\ \E i \in DOMAIN Ages : i > 1 /\ age = Ages[i - 1] /\ age' = Ages[i]
    /\ UNCHANGED <<text, trDerived, txn, trRun, compacted, purgedIn, trWork, startsLeft, abortsLeft>>

---------------------------------------------------------------------------
(* Row locks.                                                              *)

\* FOR SHARE: the sampler on posts, a label's trigger on its item.
Shares(w) == w \in {"sampler", "import"}
Blocks(o, w, row) == o # w /\ row \in txn[o].held /\ ~(Shares(o) /\ Shares(w))
Blocked(w, row) == \E o \in Writers : Blocks(o, w, row)
WriteLocked(row) == \E o \in Writers : row \in txn[o].held /\ ~Shares(o)

IdOrders(S) == {o \in SetToSeqs(S) : \A i, j \in DOMAIN o : i < j => o[i] < o[j]}
PostRows(seq) == [i \in DOMAIN seq |-> <<"post", seq[i]>>]
ItemRows(seq) == [i \in DOMAIN seq |-> <<"item", seq[i]>>]

TrBegins(w, posts, rows, held) ==
    txn' = [txn EXCEPT ![w] = [on |-> TRUE, posts |-> posts, todo |-> rows, held |-> held]]
Spend == startsLeft > 0 /\ startsLeft' = startsLeft - 1
Idle(w) == w \in TrWriters /\ ~txn[w].on

LockNext(w) ==
    /\ txn[w].on /\ txn[w].todo # <<>> /\ ~Blocked(w, Head(txn[w].todo))
    /\ txn' = [txn EXCEPT ![w].held = @ \cup {Head(txn[w].todo)}, ![w].todo = Tail(@)]
    /\ touched' = IF w # "retention" /\ Head(txn[w].todo)[1] = "post"
                  THEN touched \cup {Head(txn[w].todo)[2]} ELSE touched
    /\ UNCHANGED <<age, text, trDerived, toVisit, runAge, compacted, purgedIn, trWork, startsLeft, abortsLeft>>

\* A statement fails, the process dies, or PostgreSQL breaks a deadlock.
Abort(w) ==
    /\ txn[w].on /\ abortsLeft > 0 /\ abortsLeft' = abortsLeft - 1
    /\ txn' = [txn EXCEPT ![w] = NoTxn]
    /\ toVisit' = IF w = "retention" THEN <<>> ELSE toVisit
    /\ UNCHANGED <<age, text, trDerived, runAge, touched, compacted, purgedIn, trWork, startsLeft>>

Commits(w) == txn[w].on /\ txn[w].todo = <<>> /\ txn' = [txn EXCEPT ![w] = NoTxn]

---------------------------------------------------------------------------
(* Removing text.                                                          *)

\* Mutant: the gold items are locked before the posts.
ItemsFirst(S) == {ItemRows(o) \o PostRows(ids) : o \in SetToSeqs(S), ids \in IdOrders(S)}

\* removeTextBatch: locks the posts in id order, then the gold items of those
\* it changes in whatever order the update returned them. A post that lost
\* its text before its lock was granted is locked and left alone.
BatchOrders(S) == {PostRows(ids) \o ItemRows(o) : ids \in IdOrders(S), o \in SetToSeqs(S)}

Removes(S, drop, what) ==
    LET gone == {p \in S : Stored(p)}
    IN  /\ text' = [p \in TrPosts |-> IF p \in gone THEN what ELSE text[p]]
        /\ vectors' = vectors \ {p \in gone : drop \/ UnderTerms(p)}
        /\ items' = items \ gone /\ labels' = labels \ gone

\* blankExpired: every source in turn, batch by batch.
StartRetention ==
    /\ Idle("retention") /\ toVisit = <<>> /\ Spend
    /\ toVisit' = TrSources /\ runAge' = age
    /\ touched' = {p \in TrPosts : \E o \in Writers : <<"post", p>> \in txn[o].held}
    /\ UNCHANGED <<age, text, trDerived, txn, compacted, purgedIn, trWork, abortsLeft>>

\* The oldest expired posts nobody has locked, and their lock: SKIP LOCKED.
PickBatch ==
    /\ Idle("retention") /\ toVisit # <<>>
    /\ LET free == {p \in TrPosts : /\ TrSourceOf[p] = Head(toVisit) /\ Stored(p) /\ ExpiredAt(p, age)
                                    /\ \A o \in Writers : <<"post", p>> \notin txn[o].held}
           batch == {p \in free : Cardinality({q \in free : q < p}) < TrBatch}
       IN  \E o \in SetToSeqs(batch) : TrBegins("retention", batch, ItemRows(o), {<<"post", p>> : p \in batch})
    /\ UNCHANGED <<age, text, trDerived, trRun, compacted, purgedIn, trWork, startsLeft, abortsLeft>>

\* Mutant: a full batch is taken for the source's last.
CommitOnlyBatch ==
    /\ Commits("retention")
    /\ Removes(txn["retention"].posts, FALSE, "notice")
    /\ toVisit' = Tail(toVisit)
    /\ UNCHANGED <<age, runAge, touched, compacted, purgedIn, trWork, startsLeft, abortsLeft>>

\* A short batch was the source's last.
CommitBatch ==
    /\ Commits("retention")
    /\ Removes(txn["retention"].posts, FALSE, "notice")
    /\ toVisit' = IF Cardinality(txn["retention"].posts) < TrBatch THEN Tail(toVisit) ELSE toVisit
    /\ UNCHANGED <<age, runAge, touched, compacted, purgedIn, trWork, startsLeft, abortsLeft>>

\* blankPosts: posts of one terms source were deleted upstream.
StartRecheck ==
    /\ Idle("recheck") /\ Spend
    /\ \E s \in TermsSources : \E S \in SUBSET {p \in TrPosts : TrSourceOf[p] = s /\ Stored(p)} :
            S # {} /\ \E rows \in BatchOrders(S) : TrBegins("recheck", S, rows, {})
    /\ UNCHANGED <<age, text, trDerived, trRun, compacted, purgedIn, trWork, abortsLeft>>

CommitRecheck ==
    /\ Commits("recheck") /\ Removes(txn["recheck"].posts, TRUE, "notice")
    /\ UNCHANGED <<age, trRun, compacted, purgedIn, trWork, startsLeft, abortsLeft>>

\* removeTextOnRequest: one post of a real source, its text stored or not.
StartErasure ==
    /\ Idle("erasure") /\ Spend
    /\ \E p \in TrPosts : ~IsDemo(p) /\ \E rows \in BatchOrders({p}) : TrBegins("erasure", {p}, rows, {})
    /\ UNCHANGED <<age, text, trDerived, trRun, compacted, purgedIn, trWork, abortsLeft>>

CommitErasure ==
    /\ Commits("erasure")
    /\ LET S == txn["erasure"].posts
       IN  /\ text' = [p \in TrPosts |-> IF p \in S THEN "erased" ELSE text[p]]
           /\ vectors' = vectors \ S /\ items' = items \ S /\ labels' = labels \ S
    /\ UNCHANGED <<age, trRun, compacted, purgedIn, trWork, startsLeft, abortsLeft>>

\* compactMonth: the month's stored texts are removed source by source, then
\* all its embeddings go, and compaction_log has it.
StartCompaction ==
    /\ Idle("compaction") /\ age = "detail" /\ ~compacted /\ Spend
    /\ LET left == {p \in TrPosts : ~IsDemo(p) /\ Stored(p)}
           groups == {{p \in left : TrSourceOf[p] = s} : s \in {TrSourceOf[p] : p \in left}}
       IN  \E order \in SetToSeqs(groups) :
               \E batches \in [DOMAIN order -> UNION {BatchOrders(g) : g \in groups}] :
                   /\ \A i \in DOMAIN order : batches[i] \in BatchOrders(order[i])
                   /\ TrBegins("compaction", left, FlattenSeq(batches), {})
    /\ UNCHANGED <<age, text, trDerived, trRun, compacted, purgedIn, trWork, abortsLeft>>

CommitCompaction ==
    /\ Commits("compaction")
    /\ LET gone == {p \in txn["compaction"].posts : Stored(p)}
       IN  /\ text' = [p \in TrPosts |-> IF p \in gone THEN "notice" ELSE text[p]]
           /\ items' = items \ gone /\ labels' = labels \ gone
    /\ vectors' = {p \in vectors : IsDemo(p)} /\ compacted' = TRUE
    /\ UNCHANGED <<age, trRun, purgedIn, trWork, startsLeft, abortsLeft>>

\* purgeDemoBatch: demo posts are deleted whole, and the log row names them. They
\* are locked oldest first; nobody else locks them, so the order does not matter.
StartPurge ==
    /\ Idle("purge") /\ age = "detail" /\ Spend
    /\ LET demo == {p \in TrPosts : IsDemo(p) /\ Stored(p)}
           batch == {p \in demo : Cardinality({q \in demo : q < p}) < TrBatch}
       IN  batch # {} /\ \E ids \in IdOrders(batch) : TrBegins("purge", batch, PostRows(ids), {})
    /\ UNCHANGED <<age, text, trDerived, trRun, compacted, purgedIn, trWork, abortsLeft>>

CommitPurge ==
    /\ Commits("purge")
    /\ text' = [p \in TrPosts |-> IF p \in txn["purge"].posts THEN "purged" ELSE text[p]]
    /\ vectors' = vectors \ txn["purge"].posts
    /\ purgedIn' = purgedIn \cup txn["purge"].posts
    /\ UNCHANGED <<age, items, labels, trRun, compacted, trWork, startsLeft, abortsLeft>>

---------------------------------------------------------------------------
(* What is made from text.                                                 *)

\* embedPost reads the text; the vector is computed outside any transaction.
StartEmbed(p) ==
    /\ p \in TrToEmbed \ (embedding \cup vectors) /\ Stored(p) /\ embedding' = embedding \cup {p}
    /\ UNCHANGED <<age, text, trDerived, txn, trRun, compacted, purgedIn, labelling, startsLeft, abortsLeft>>

\* Mutant: the vector is saved without looking again.
SaveUnseen(p) ==
    /\ p \in embedding /\ embedding' = embedding \ {p}
    /\ vectors' = vectors \cup {p}
    /\ UNCHANGED <<age, text, items, labels, txn, trRun, compacted, purgedIn, labelling, startsLeft, abortsLeft>>

\* saveEmbeddingIfTextStored: waits for whoever writes the post, and looks
\* again. A post blanked or purged meanwhile gets no vector, and its job ends.
SaveEmbedding(p) ==
    /\ p \in embedding /\ embedding' = embedding \ {p}
    /\ ~WriteLocked(<<"post", p>>)
    /\ vectors' = IF Stored(p) THEN vectors \cup {p} ELSE vectors
    /\ UNCHANGED <<age, text, items, labels, txn, trRun, compacted, purgedIn, labelling, startsLeft, abortsLeft>>

\* insertItems: the sampled posts are locked in id order, and refused if one
\* lost its text since the sample was drawn.
StartSample ==
    /\ Idle("sampler") /\ Spend
    /\ \E S \in SUBSET {p \in TrPosts : ~IsDemo(p) /\ Stored(p) /\ p \notin items} :
            S # {} /\ \E ids \in IdOrders(S) : TrBegins("sampler", S, PostRows(ids), {})
    /\ UNCHANGED <<age, text, trDerived, trRun, compacted, purgedIn, trWork, abortsLeft>>

CommitSample ==
    /\ Commits("sampler")
    /\ items' = IF \A p \in txn["sampler"].posts : Stored(p) THEN items \cup txn["sampler"].posts ELSE items
    /\ UNCHANGED <<age, text, vectors, labels, trRun, compacted, purgedIn, trWork, startsLeft, abortsLeft>>

\* itemText shows a labeller the text that is still there.
ShowText(p) ==
    /\ p \in (items \cap TrToLabel) \ (labels \cup labelling) /\ Stored(p) /\ labelling' = labelling \cup {p}
    /\ UNCHANGED <<age, text, trDerived, txn, trRun, compacted, purgedIn, embedding, startsLeft, abortsLeft>>

\* recordLabel: the trigger locks the item and refuses an erased one.
RecordLabel(p) ==
    /\ p \in labelling /\ labelling' = labelling \ {p}
    /\ ~WriteLocked(<<"item", p>>)
    /\ labels' = IF p \in items THEN labels \cup {p} ELSE labels
    /\ UNCHANGED <<age, text, vectors, items, txn, trRun, compacted, purgedIn, embedding, startsLeft, abortsLeft>>

\* recordLabels: proposed labels, in the order of their file, all or none.
StartImport ==
    /\ Idle("import") /\ Spend
    /\ \E S \in SUBSET items : S # {} /\ \E o \in SetToSeqs(S) : TrBegins("import", S, ItemRows(o), {})
    /\ UNCHANGED <<age, text, trDerived, trRun, compacted, purgedIn, trWork, abortsLeft>>

CommitImport ==
    /\ Commits("import")
    /\ labels' = IF txn["import"].posts \subseteq items THEN labels \cup txn["import"].posts ELSE labels
    /\ UNCHANGED <<age, text, vectors, items, trRun, compacted, purgedIn, trWork, startsLeft, abortsLeft>>

TextRetentionNext ==
    \/ GrowOld \/ \E w \in Writers : LockNext(w) \/ Abort(w)
    \/ StartRetention \/ PickBatch \/ CommitBatch \/ StartRecheck \/ CommitRecheck
    \/ StartErasure \/ CommitErasure \/ StartCompaction \/ CommitCompaction \/ StartPurge \/ CommitPurge
    \/ \E p \in TrPosts : StartEmbed(p) \/ SaveEmbedding(p) \/ ShowText(p) \/ RecordLabel(p)
    \/ StartSample \/ CommitSample \/ StartImport \/ CommitImport

TextRetentionSpec == TextRetentionInit /\ [][TextRetentionNext]_TextRetentionVars

---------------------------------------------------------------------------

\* Nothing made from a text outlives it where the rules say so: a post
\* without text has no live gold item and no live label; neither has it an
\* embedding if platform terms or an erasure removed the text, if the post
\* was purged, or once its month is compacted. Embed jobs, samplers and
\* labellers may all have read the text before it went.
NothingOutlivesText ==
    \A p \in TrPosts : ~Stored(p) =>
        /\ p \notin items /\ p \notin labels
        /\ p \in vectors => ~UnderTerms(p) /\ text[p] = "notice" /\ ~compacted

\* A retention run that ends well has removed the text of every post that was
\* past its window when it began, except of those another transaction had
\* locked in the meantime, which it skips (and the next run finds).
RunIsThorough ==
    [][txn["retention"].on /\ ~txn'["retention"].on /\ Len(toVisit) = 1 /\ toVisit' = <<>> /\ abortsLeft' = abortsLeft =>
            \A p \in TrPosts : ~IsDemo(p) /\ ExpiredAt(p, runAge) /\ p \notin touched => text'[p] # "stored"]_TextRetentionVars

---------------------------------------------------------------------------

WaitsFor(w, o) == txn[w].todo # <<>> /\ Blocks(o, w, Head(txn[w].todo))
Waiting == {w \in Writers : txn[w].todo # <<>>}
Deadlocked(S) == S # {} /\ \A w \in S : \E o \in S : WaitsFor(w, o)

\* Transactions that remove text and the sampler never wait on each other in
\* a circle: they lock the posts in id order (removeTextBatch's comment).
\* Excepted are compaction, whose transaction holds several batches, each in
\* id order but one after another, and the import of proposed labels, which
\* locks gold items in the order of its file.
OrderedLocks == \A S \in SUBSET (Waiting \ {"import", "compaction"}) : ~Deadlocked(S)
=============================================================================
