------------------------------ MODULE PaperEdit -----------------------------
(***************************************************************************)
(* Edits of one paper by its moderators (services/paper-edit.ts), with       *)
(* setCategories and setKeywords of repositories/papers.ts and the audit     *)
(* rows of repositories/paper-edits.ts.  Each statement is a step;           *)
(* setCategories is a transaction at READ COMMITTED.  Title and licence are  *)
(* columns like the abstract, except that they cannot be null.               *)
(***************************************************************************)
EXTENDS Naturals

CONSTANTS
    Editors,        \* requests that may be served at once
    Abstracts,      \* values of the column
    NoAbstract,     \* null
    Codes,          \* category codes
    Words,          \* keywords
    EditRequests,   \* what may be asked: changes of some of the fields
    FirstCode,      \* the category of the paper at first
    MaxEdits,       \* bound: edits
    MaxEditFaults   \* bound: failures

Fields  == {"abstract", "primary", "cross", "keywords"}
Columns == {"abstract", "primary", "cross"}

\* The values a request gives; a list of keywords may name one twice.
FieldValues ==
    [abstract |-> Abstracts \cup {NoAbstract}, primary |-> Codes, cross |-> SUBSET Codes,
     keywords |-> [words: SUBSET Words, repeats: BOOLEAN]]

ASSUME EditAssumption ==
    /\ FirstCode \in Codes /\ NoAbstract \notin Abstracts
    /\ {MaxEdits, MaxEditFaults} \subseteq Nat
    /\ \A r \in EditRequests :
        /\ DOMAIN r \subseteq Fields
        /\ \A f \in DOMAIN r : r[f] \in FieldValues[f]

VARIABLES
    row,          \* the columns of papers
    catRows,      \* paper_categories: code, is_primary, and who inserted it
    kwRows,       \* paper_keywords
    trail,        \* the new value of the last audit row of a field
    chained,      \* has every audit row the old value the last one left?
    editor,       \* the handler of a request
    together,     \* two edits have overlapped (history)
    catTogether,  \* two setCategories have overlapped (history)
    unsaid,       \* an edit was asked whose effect is not what it logs (history)
    broken,       \* an edit has failed (history)
    edits, editFaults   \* counters of the bounds

editStores  == <<row, catRows, kwRows>>
editAudit   == <<trail, chained>>
editHistory == <<together, catTogether, unsaid, broken>>
editSpent   == <<edits, editFaults>>
editVars    == <<editStores, editAudit, editor, editHistory, editSpent>>

FirstRow == [abstract |-> NoAbstract, primary |-> FirstCode, cross |-> {}]

NoDiffs == [f \in {} |-> 0]
NoEdit  == [pc |-> "idle", old |-> NoDiffs, new |-> NoDiffs, seen |-> {}, left |-> {}]

EditInit ==
    /\ row = FirstRow
    /\ catRows = {<<FirstCode, TRUE, 0>>}
    /\ kwRows = {}
    /\ trail = [f \in Fields |-> IF f \in Columns THEN FirstRow[f] ELSE {}]
    /\ chained = TRUE
    /\ editor = [e \in Editors |-> NoEdit]
    /\ together = FALSE /\ catTogether = FALSE /\ unsaid = FALSE /\ broken = FALSE
    /\ edits = 0 /\ editFaults = 0

EditAt(e, l) == editor[e].pc = l
EditsIdle    == \A e \in Editors : EditAt(e, "idle")

\* The paper as loadWithRelations returns it.
Loaded == [f \in Fields |-> IF f \in Columns THEN row[f] ELSE kwRows]

\* The value asked for, as it would be stored and logged: a cross-listing of
\* the primary category is dropped.
Asked(r, old, f) ==
    IF f # "cross" THEN r[f]
    ELSE r.cross \ {IF "primary" \in DOMAIN r THEN r.primary ELSE old.primary}

Differs(r, old, f) ==
    IF f = "keywords" THEN r.keywords.repeats \/ r.keywords.words # old.keywords
    ELSE Asked(r, old, f) # old[f]

\* computeDiffs.
Diffs(r, old) == [f \in {g \in DOMAIN r : Differs(r, old, g)} |-> Asked(r, old, f)]

\* The steps of persistChanges an edit needs, in their order.
AfterColumns(new)    == IF {"primary", "cross"} \cap DOMAIN new # {} THEN "categories"
                        ELSE IF "keywords" \in DOMAIN new THEN "keywords" ELSE "audit"
AfterCategories(new) == IF "keywords" \in DOMAIN new THEN "keywords" ELSE "audit"

\* Mutant: a primary category not asked for is not given.
NextPrimaryAsked(e) == IF "primary" \in DOMAIN editor[e].new THEN editor[e].new.primary
                       ELSE NoAbstract

\* What setCategories is called with: the fields not asked for are those read.
NextPrimary(e) == IF "primary" \in DOMAIN editor[e].new THEN editor[e].new.primary
                  ELSE editor[e].old.primary
NextCross(e) ==
    (IF "cross" \in DOMAIN editor[e].new THEN editor[e].new.cross ELSE editor[e].old.cross)
        \ {NextPrimary(e)}

\* A cleared abstract is kept by COALESCE, and a primary category moved out of
\* the cross-listings shortens them without an audit row.
LogsAnother(new, old) ==
    \/ "abstract" \in DOMAIN new /\ new.abstract = NoAbstract
    \/ "primary" \in DOMAIN new /\ "cross" \notin DOMAIN new /\ new.primary \in old.cross

BeginEdit(e, r) ==
    /\ EditAt(e, "idle")
    /\ edits < MaxEdits
    /\ edits' = edits + 1
    /\ LET new == Diffs(r, Loaded) IN
       /\ new # NoDiffs
       /\ editor' = [editor EXCEPT ![e] =
              [pc |-> IF "abstract" \in DOMAIN new THEN "columns" ELSE AfterColumns(new),
               old |-> Loaded, new |-> new, seen |-> {}, left |-> DOMAIN new]]
       /\ unsaid' = (unsaid \/ LogsAnother(new, Loaded))
    /\ together' = (together \/ ~EditsIdle)
    /\ UNCHANGED <<editStores, editAudit, catTogether, broken, editFaults>>

\* UPDATE papers SET abstract = COALESCE($2, abstract).
UpdateColumns(e) ==
    /\ EditAt(e, "columns")
    /\ LET a == editor[e].new.abstract IN
       row' = [row EXCEPT !.abstract = IF a = NoAbstract THEN @ ELSE a]
    /\ editor' = [editor EXCEPT ![e].pc = AfterColumns(editor[e].new)]
    /\ UNCHANGED <<catRows, kwRows, editAudit, editHistory, editSpent>>

\* DELETE FROM paper_categories: the statement sees the rows committed now.
DeleteCategories(e) ==
    /\ EditAt(e, "categories")
    /\ editor' = [editor EXCEPT ![e].pc = "locking", ![e].seen = catRows]
    /\ catTogether' = (catTogether \/ \E d \in Editors : editor[d].pc \in {"locking", "inserting"})
    /\ UNCHANGED <<editStores, editAudit, together, unsaid, broken, editSpent>>

\* It waits for a transaction that is deleting one of them, and then skips the
\* rows that one has deleted.
LockCategories(e) ==
    /\ EditAt(e, "locking")
    /\ \A d \in Editors : EditAt(d, "inserting") => editor[d].seen \cap editor[e].seen = {}
    /\ editor' = [editor EXCEPT ![e].pc = "inserting"]
    /\ UNCHANGED <<editStores, editAudit, editHistory, editSpent>>

\* Mutant: the columns of papers are forgotten.
InsertCategoriesOnly(e) ==
    /\ EditAt(e, "inserting")
    /\ catRows' = {r \in catRows \ editor[e].seen : r[1] \notin NextCross(e)}
                  \cup {<<NextPrimary(e), TRUE, edits>>}
                  \cup {<<c, FALSE, edits>> : c \in NextCross(e)}
    /\ editor' = [editor EXCEPT ![e].pc = AfterCategories(editor[e].new), ![e].seen = {}]
    /\ UNCHANGED <<row, kwRows, editAudit, editHistory, editSpent>>

\* INSERT, UPDATE papers, COMMIT; or the key of a new row is taken, and the
\* transaction is rolled back and the request fails.
InsertCategories(e) ==
    /\ EditAt(e, "inserting")
    /\ LET kept == catRows \ editor[e].seen
           new  == {<<NextPrimary(e), TRUE, edits>>}
                       \cup {<<c, FALSE, edits>> : c \in NextCross(e)}
       IN  IF \E k \in kept, n \in new : k[1] = n[1]
           THEN /\ editor' = [editor EXCEPT ![e] = NoEdit]
                /\ broken' = TRUE
                /\ UNCHANGED <<row, catRows>>
           ELSE /\ catRows' = kept \cup new
                /\ row' = [row EXCEPT !.primary = NextPrimary(e), !.cross = NextCross(e)]
                /\ editor' = [editor EXCEPT ![e].pc = AfterCategories(editor[e].new),
                                            ![e].seen = {}]
                /\ UNCHANGED broken
    /\ UNCHANGED <<kwRows, editAudit, together, catTogether, unsaid, editSpent>>

\* setKeywords: a DELETE of its own ...
DeleteKeywords(e) ==
    /\ EditAt(e, "keywords")
    /\ kwRows' = {}
    /\ editor' = [editor EXCEPT ![e].pc = "words"]
    /\ UNCHANGED <<row, catRows, editAudit, editHistory, editSpent>>

\* ... and an INSERT, which fails on a keyword given twice or there already.
InsertKeywords(e) ==
    /\ EditAt(e, "words")
    /\ LET list == editor[e].new.keywords IN
       IF list.repeats \/ list.words \cap kwRows # {}
       THEN /\ editor' = [editor EXCEPT ![e] = NoEdit]
            /\ broken' = TRUE
            /\ UNCHANGED kwRows
       ELSE /\ kwRows' = kwRows \cup list.words
            /\ editor' = [editor EXCEPT ![e].pc = "audit"]
            /\ UNCHANGED broken
    /\ UNCHANGED <<row, catRows, editAudit, together, catTogether, unsaid, editSpent>>

Logged(new, f) == IF f = "keywords" THEN new.keywords.words ELSE new[f]

\* One audit row per changed field, written at once in any order.
AppendAudit(e, f) ==
    /\ EditAt(e, "audit") /\ f \in editor[e].left
    /\ chained' = (chained /\ trail[f] = editor[e].old[f])
    /\ trail' = [trail EXCEPT ![f] = Logged(editor[e].new, f)]
    /\ editor' = [editor EXCEPT ![e] =
                     IF editor[e].left = {f} THEN NoEdit
                     ELSE [editor[e] EXCEPT !.left = editor[e].left \ {f}]]
    /\ UNCHANGED <<editStores, editHistory, editSpent>>

\* A call fails or the process dies: what has been written stays, and so do the
\* audit rows still on their way.
EditFails(e) ==
    /\ ~EditAt(e, "idle")
    /\ editFaults < MaxEditFaults
    /\ editFaults' = editFaults + 1
    /\ broken' = TRUE
    /\ editor' = [editor EXCEPT ![e] = NoEdit]
    /\ UNCHANGED <<editStores, editAudit, together, catTogether, unsaid, edits>>

EditStep(e) ==
    \/ UpdateColumns(e) \/ DeleteCategories(e) \/ LockCategories(e) \/ InsertCategories(e)
    \/ DeleteKeywords(e) \/ InsertKeywords(e)
    \/ \E f \in Fields : AppendAudit(e, f)

EditNext ==
    \E e \in Editors : EditStep(e) \/ EditFails(e) \/ \E r \in EditRequests : BeginEdit(e, r)

EditSpec == EditInit /\ [][EditNext]_editVars

-----------------------------------------------------------------------------
\* Every variable has its type: no edit, whatever fields it leaves out, writes a null where
\* the columns allow none.
EditTypeOK ==
    /\ row \in [abstract: Abstracts \cup {NoAbstract}, primary: Codes, cross: SUBSET Codes]
    /\ catRows \subseteq Codes \X BOOLEAN \X Nat
    /\ kwRows \subseteq Words
    /\ chained \in BOOLEAN
    /\ {together, catTogether, unsaid, broken} \subseteq BOOLEAN
    /\ edits \in 0..MaxEdits /\ editFaults \in 0..MaxEditFaults

\* The two views of the categories, and the constraints of migration 0021.
ViewsAgree ==
    /\ {r[1] : r \in {q \in catRows : q[2]}} = {row.primary}
    /\ {r[1] : r \in {q \in catRows : ~q[2]}} = row.cross

\* The two views are in step, after failures too, unless two setCategories have
\* overlapped (papers.ts:345-373); and even then a cross-listing never repeats
\* the primary category.
CategoryViewsAgree == (~catTogether => ViewsAgree) /\ row.primary \notin row.cross

\* After edits that neither overlapped nor failed the audit rows of a field lead
\* from its first value to the one in the database, except for the two edits
\* that log something else than they do (paper-edit.ts:232-256).
AuditExplainsRow ==
    EditsIdle /\ ~together /\ ~unsaid /\ ~broken
        => chained /\ \A f \in Fields : trail[f] = Loaded[f]

\* The two homes of a category agree, and the audit trail explains the row
\* (papers.ts:354, paper-edit.ts:14).
EditHolds == CategoryViewsAgree /\ AuditExplainsRow
=============================================================================
