------------------------- MODULE VectorRitualProofs -------------------------
(***************************************************************************)
(* Proofs about VectorRitual, for any cases, mode products and checkouts.  *)
(***************************************************************************)
EXTENDS VectorRitual, TLAPS

-----------------------------------------------------------------------------
(* The inductive invariant.                                                 *)

\* The labels of regen.sh, from one of them on.
FromMatrix == {"register", "compare", "gate"}
FromWindow == {"matrix"} \cup FromMatrix
FromIndex == {"preNode", "capsCopy", "caps", "windowCopy", "window"} \cup FromWindow
FromSums == {"index"} \cup FromIndex
FromLoop == {"derive", "sums"} \cup FromSums
Looping == {"loop"} \cup FromLoop

\* The checkouts: regen.sh starts at the pins, unless the fallback fetch was taken.
PastGeth ==
  {"node", "nodeClone", "nodeFetch", "nodeCheckout", "pre", "build", "cases"} \cup Looping
PastNode == {"pre", "build", "cases"} \cup Looping
InGeth == {"node", "nodeClone", "nodeFetch", "nodeCheckout", "pre"}

TreesOK ==
  /\ \A t \in Trees : tree[t].litter \subseteq LitterOf(t)
  /\ pc \in {"gethFetch", "gethCheckout"} \cup PastGeth => tree["geth"].kind # "absent"
  /\ pc \in {"nodeFetch", "nodeCheckout"} \cup PastNode => tree["node"].kind # "absent"
  /\ pc \in {"gethClone", "gethFetch", "gethCheckout"} => tree["geth"].litter = {}
  /\ pc = "gethCheckout" => fetchHead = "pin" \/ fellBack
  /\ pc \in PastGeth => tree["geth"].head = "pin" \/ fellBack
  /\ pc \in InGeth => tree["geth"].litter \cap {"scratch", "binary"} = {}
  /\ pc \in PastNode => tree["node"].head = "pin"

\* The corpus on disk, as far as the run in progress has brought it.
DiskOK ==
  /\ pc \in Looping => \A c \in Cases : src[c] > 0 => caseFile[c] = src[c]
  /\ pc = "loop" => \A c \in Cases \ todo : caseFile[c] > 0 => out[c] = caseFile[c]
  /\ pc \in FromLoop => \A c \in Cases : caseFile[c] > 0 => out[c] = caseFile[c]
  /\ pc \in FromWindow => capsOut = capsSrc

\* The contract files, likewise.
BooksOK ==
  /\ pc \in FromSums => \A c \in Cases : out[c] > 0 => books.sums[c] > 0
  /\ pc \in FromIndex => Present(out) \subseteq books.idx
  /\ pc \in FromMatrix => books.matrix = capsSrc
  /\ pc \in {"compare", "gate"} => Present(out) \subseteq books.reg
  /\ pc = "gate" => Present(caseFile) \cup Registrable = books.reg

\* The fixed point of the ritual: nothing a run does from here changes a contract.
Fixed ==
  /\ books.reg = Present(src) \cup Registrable
  /\ Present(src) \subseteq books.idx
  /\ \A c \in Cases : src[c] > 0 => books.sums[c] > 0
  /\ books.matrix = capsSrc
  /\ Present(caseFile) \subseteq Present(src)
  /\ Present(out) \subseteq Present(src)

Settled ==
  /\ calm # "no" => Fixed
  /\ calm = "yes" => books = index /\ last \notin {"mismatch", "drift"}

IInv == TypeOK /\ TreesOK /\ DiskOK /\ BooksOK /\ Settled /\ CheckoutsHeal
-----------------------------------------------------------------------------
(* Every step keeps it. *)

\* Types.
LEMMA TypeStep == ASSUME TypeOK, TreesOK, Next PROVE TypeOK'
<1>1. CASE (\E c \in Cases : EditCase(c)) \/ (\E c \in Cases : DropCase(c)) \/
            EditDumper \/ RefreshSums \/ Stage \/ Commit \/ FreshCheckout
  BY <1>1, RitualAssumption DEF EditCase, Edit, DropCase, EditDumper, RefreshSums,
     Stage, Commit, FreshCheckout, treeVars, diskVars, TypeOK, Versions, Books, Ends
<1>2. CASE Start
  BY <1>2, RitualAssumption DEF Start, diskVars, devVars, TypeOK
<1>3. CASE Kill
  BY <1>3, RitualAssumption DEF Kill, treeVars, diskVars, devVars, TypeOK, Ends
<1>4. CASE Fail
  BY <1>4, RitualAssumption DEF Fail, Exit, Swept, diskVars, devVars, TypeOK, Ends,
     Checkouts, Trees
<1>5. CASE Reuse("geth", "node")
  BY <1>5, RitualAssumption DEF Reuse, At, Goto, CleanedUp, diskVars, devVars, TypeOK,
     Checkouts, Trees
<1>6. CASE Refuse("geth")
  BY <1>6, RitualAssumption DEF Refuse, At, Exit, Trapped, diskVars, devVars, TypeOK,
     Ends
<1>7. CASE Remove("geth", "gethClone")
  BY <1>7, RitualAssumption DEF Remove, At, Goto, Removed, diskVars, devVars, TypeOK,
     Checkouts
<1>8. CASE Clone("geth", "gethClone", "gethFetch")
  BY <1>8, RitualAssumption DEF Clone, At, Goto, diskVars, devVars, TypeOK, Checkouts
<1>9. CASE Fetch("gethFetch", "gethCheckout")
  BY <1>9, RitualAssumption DEF Fetch, At, Goto, diskVars, devVars, TypeOK
<1>10. CASE Checkout("geth", "gethCheckout", "node")
  BY <1>10, RitualAssumption DEF Checkout, At, Goto, CheckedOut, diskVars, devVars,
     TypeOK, Checkouts, Trees, TreesOK
<1>11. CASE Reuse("node", "pre") \/ Refuse("node") \/ Remove("node", "nodeClone")
            \/ Clone("node", "nodeClone", "nodeFetch") \/ Fetch("nodeFetch",
            "nodeCheckout") \/ Checkout("node", "nodeCheckout", "pre") \/
            CheckGeth
  BY <1>11, RitualAssumption DEF Reuse, At, Goto, CleanedUp, Refuse, Exit, Trapped,
     Remove, Removed, Clone, Fetch, Checkout, CheckedOut, CheckGeth, Check, diskVars,
     devVars, TypeOK, Ends, Checkouts, Trees, TreesOK
<1>12. CASE Build
  BY <1>12, RitualAssumption DEF Build, At, Goto, Drop, diskVars, devVars, TypeOK,
     Checkouts, Trees, Litter, TreesOK, PastGeth
<1>13. CASE WriteCases \/ Generate \/ Generated \/ Derive
  BY <1>13, RitualAssumption DEF WriteCases, At, Written, Present, Generate,
     Generated, Goto, Derive, treeVars, diskVars, devVars, TypeOK, Versions
<1>14. CASE MaintainSums \/ MaintainManifest \/ WriteMatrix \/ Register
  BY <1>14, RitualAssumption DEF MaintainSums, At, Goto, Summed, MaintainManifest,
     Present, WriteMatrix, Register, treeVars, diskVars, devVars, TypeOK, Versions,
     Books
<1>15. CASE CheckNode
  BY <1>15, RitualAssumption DEF CheckNode, Check, At, Goto, diskVars, devVars,
     TypeOK, TreesOK, PastNode, Looping, FromLoop, FromSums, FromIndex
<1>16. CASE CopyCaps
  BY <1>16, RitualAssumption DEF CopyCaps, At, Goto, Drop, diskVars, devVars, TypeOK,
     Checkouts, Trees, Litter, TreesOK, PastGeth, Looping, FromLoop, FromSums,
     FromIndex
<1>17. CASE DumpCaps
  BY <1>17, RitualAssumption DEF DumpCaps, At, Goto, diskVars, devVars, TypeOK,
     Checkouts, Trees, Litter, TreesOK, PastGeth, Looping, FromLoop, FromSums,
     FromIndex
<1>18. CASE CopyWindow
  BY <1>18, RitualAssumption DEF CopyWindow, At, Goto, Drop, diskVars, devVars,
     TypeOK, Checkouts, Trees, Litter, TreesOK, PastNode, Looping, FromLoop, FromSums,
     FromIndex
<1>19. CASE DumpWindow
  BY <1>19, RitualAssumption DEF DumpWindow, At, Goto, Dumped, devVars, TypeOK,
     Checkouts, Trees, Litter, TreesOK, PastGeth, Looping, FromLoop, FromSums,
     FromIndex
<1>20. CASE Compare \/ Gate
  BY <1>20, RitualAssumption DEF Compare, Check, At, Goto, Exit, Swept, Gate,
     diskVars, devVars, TypeOK, Ends, Checkouts, Trees
<1>21. QED
  BY <1>1, <1>2, <1>3, <1>4, <1>5, <1>6, <1>7, <1>8, <1>9, <1>10, <1>11, <1>12,
       <1>13, <1>14, <1>15, <1>16, <1>17, <1>18, <1>19, <1>20 DEF Next, Developer,
       EnsureTrees, Regen

\* The checkouts.
LEMMA TreesStep == ASSUME TypeOK, TreesOK, Next PROVE TreesOK'
<1>1. CASE (\E c \in Cases : EditCase(c)) \/ (\E c \in Cases : DropCase(c)) \/
            EditDumper \/ RefreshSums \/ Stage \/ Commit \/ FreshCheckout \/ Start \/ Fail
            \/ Kill
  BY <1>1 DEF EditCase, Edit, DropCase, EditDumper, RefreshSums, Stage, Commit,
     FreshCheckout, Start, Fail, Exit, Swept, Kill, treeVars, TypeOK, TreesOK,
     PastGeth, PastNode, InGeth, Trees, Checkouts, Looping, FromLoop, FromSums,
     FromIndex, FromWindow, FromMatrix
<1>2. CASE Reuse("geth", "node")
  BY <1>2 DEF Reuse, Goto, AtPin, CleanedUp, TypeOK, TreesOK, PastNode, Trees,
     Looping, FromLoop, FromSums, FromIndex, FromWindow, FromMatrix
<1>3. CASE Refuse("geth")
  BY <1>3 DEF Refuse, Exit, Swept, TreesOK, PastGeth, PastNode, InGeth, Trees,
     Looping, FromLoop, FromSums, FromIndex, FromWindow, FromMatrix
<1>4. CASE Remove("geth", "gethClone")
  BY <1>4 DEF Remove, Goto, Removed, TypeOK, TreesOK, PastGeth, PastNode, Trees,
     Looping, FromLoop, FromSums, FromIndex, FromWindow, FromMatrix
<1>5. CASE Clone("geth", "gethClone", "gethFetch")
  BY <1>5 DEF Clone, At, Goto, TypeOK, TreesOK, PastGeth, PastNode, Checkouts,
     Looping, FromLoop, FromSums, FromIndex, FromWindow, FromMatrix
<1>6. CASE Fetch("gethFetch", "gethCheckout")
  BY <1>6 DEF Fetch, At, Goto, TreesOK, PastGeth, PastNode, Looping, FromLoop,
     FromSums, FromIndex, FromWindow, FromMatrix
<1>7. CASE Checkout("geth", "gethCheckout", "node")
  BY <1>7 DEF Checkout, At, Goto, CheckedOut, TypeOK, TreesOK, PastNode, Trees,
     Looping, FromLoop, FromSums, FromIndex, FromWindow, FromMatrix
<1>8. CASE Reuse("node", "pre")
  BY <1>8 DEF Reuse, At, Goto, AtPin, CleanedUp, TypeOK, TreesOK, PastGeth, InGeth,
     Trees, Checkouts
<1>9. CASE Refuse("node")
  BY <1>9 DEF Refuse, Exit, Trapped, AtPin, Theirs, AnyHead, TreesOK, PastGeth,
     PastNode, InGeth, Looping, FromLoop, FromSums, FromIndex, FromWindow, FromMatrix
<1>10. CASE Remove("node", "nodeClone")
  BY <1>10 DEF Remove, At, Goto, Removed, TreesOK, PastGeth, PastNode, InGeth,
     Looping, FromLoop, FromSums, FromIndex, FromWindow, FromMatrix
<1>11. CASE Clone("node", "nodeClone", "nodeFetch")
  BY <1>11 DEF Clone, At, Goto, TypeOK, TreesOK, PastGeth, PastNode, InGeth, Trees,
     Checkouts, Looping, FromLoop, FromSums, FromIndex, FromWindow, FromMatrix
<1>12. CASE Fetch("nodeFetch", "nodeCheckout")
  BY <1>12 DEF Fetch, At, Goto, TreesOK, PastGeth, PastNode, InGeth, Looping,
     FromLoop, FromSums, FromIndex, FromWindow, FromMatrix
<1>13. CASE Checkout("node", "nodeCheckout", "pre")
  BY <1>13 DEF Checkout, At, Goto, CheckedOut, TypeOK, TreesOK, PastGeth, InGeth,
     Trees
<1>14. CASE CheckGeth
  BY <1>14 DEF CheckGeth, Check, At, Goto, Exit, Trapped, TreesOK, PastGeth, PastNode,
     InGeth
<1>15. CASE WriteCases \/ Generate \/ Generated \/ Derive \/ MaintainSums \/
            MaintainManifest \/ WriteMatrix \/ Register
  BY <1>15 DEF WriteCases, At, Generate, Generated, Goto, Derive, MaintainSums,
     MaintainManifest, WriteMatrix, Register, treeVars, TreesOK, PastGeth, PastNode,
     InGeth, Looping, FromLoop, FromSums, FromIndex, FromWindow, FromMatrix
<1>16. CASE Build
  BY <1>16 DEF Build, At, Goto, Drop, TreesOK, PastGeth, PastNode, InGeth, LitterOf,
     Litter
<1>17. CASE CheckNode
  BY <1>17 DEF CheckNode, Check, At, Goto, TreesOK, PastGeth, PastNode, InGeth,
     Looping, FromLoop, FromSums, FromIndex
<1>18. CASE CopyCaps
  BY <1>18 DEF CopyCaps, At, Goto, Drop, TreesOK, PastGeth, PastNode, InGeth,
     LitterOf, Litter, Looping, FromLoop, FromSums, FromIndex
<1>19. CASE DumpCaps
  BY <1>19 DEF DumpCaps, At, Goto, TreesOK, PastGeth, PastNode, InGeth, LitterOf,
     Litter, Looping, FromLoop, FromSums, FromIndex
<1>20. CASE CopyWindow
  BY <1>20 DEF CopyWindow, At, Goto, Drop, TreesOK, PastGeth, PastNode, InGeth,
     LitterOf, Looping, FromLoop, FromSums, FromIndex
<1>21. CASE DumpWindow
  BY <1>21 DEF DumpWindow, At, Goto, TypeOK, TreesOK, PastGeth, PastNode, InGeth,
     Trees, LitterOf, Litter, Checkouts, Looping, FromLoop, FromSums, FromIndex
<1>22. CASE Compare \/ Gate
  BY <1>22 DEF Compare, Check, At, Goto, Exit, Swept, Gate, TypeOK, TreesOK, PastGeth,
     PastNode, InGeth, Trees, Checkouts, Looping, FromLoop, FromSums, FromIndex,
     FromWindow, FromMatrix
<1>23. QED
  BY <1>1, <1>2, <1>3, <1>4, <1>5, <1>6, <1>7, <1>8, <1>9, <1>10, <1>11, <1>12,
       <1>13, <1>14, <1>15, <1>16, <1>17, <1>18, <1>19, <1>20, <1>21, <1>22 DEF
       Next, Developer, EnsureTrees, Regen

\* The corpus.
LEMMA DiskStep == ASSUME TypeOK, DiskOK, Next PROVE DiskOK'
<1>1. CASE (\E c \in Cases : EditCase(c)) \/ (\E c \in Cases : DropCase(c)) \/
            EditDumper \/ RefreshSums \/ Stage \/ Commit \/ FreshCheckout
  BY <1>1 DEF EditCase, Edit, DropCase, EditDumper, RefreshSums, Stage, Commit,
     FreshCheckout, DiskOK, Looping, FromLoop, FromSums, FromIndex, FromWindow,
     FromMatrix
<1>2. CASE Start \/ Reuse("geth", "node") \/ Refuse("geth") \/ Remove("geth",
            "gethClone") \/ Clone("geth", "gethClone", "gethFetch") \/
            Fetch("gethFetch", "gethCheckout") \/ Checkout("geth", "gethCheckout",
            "node") \/ Reuse("node", "pre") \/ Refuse("node") \/ Remove("node",
            "nodeClone") \/ Clone("node", "nodeClone", "nodeFetch") \/
            Fetch("nodeFetch", "nodeCheckout") \/ Checkout("node", "nodeCheckout",
            "pre") \/ CheckGeth
  BY <1>2 DEF Start, Reuse, Goto, Refuse, Exit, Remove, Clone, Fetch, Checkout,
     CheckGeth, Check, DiskOK, Looping, FromLoop, FromSums, FromIndex, FromWindow,
     FromMatrix
<1>3. CASE Fail \/ Kill
  BY <1>3 DEF Fail, Exit, Kill, DiskOK, Looping, FromLoop, FromSums, FromIndex,
     FromWindow, FromMatrix
<1>4. CASE Build \/ WriteCases
  BY <1>4 DEF Build, At, Goto, WriteCases, Written, Present, devVars, DiskOK, Looping,
     FromLoop, FromSums, FromIndex, FromWindow, FromMatrix
<1>5. CASE Generate
  BY <1>5 DEF Generate, At, devVars, TypeOK, DiskOK, Versions
<1>6. CASE Generated
  BY <1>6 DEF Generated, At, Goto, diskVars, devVars, DiskOK, Looping, FromWindow,
     FromMatrix
<1>7. CASE Derive \/ MaintainSums \/ MaintainManifest \/ CheckNode \/ CopyCaps \/
            DumpCaps \/ CopyWindow \/ DumpWindow \/ WriteMatrix \/ Register \/
            Compare \/ Gate
  BY <1>7 DEF Derive, At, Goto, MaintainSums, MaintainManifest, CheckNode, Check,
     Exit, CopyCaps, DumpCaps, CopyWindow, DumpWindow, Dumped, WriteMatrix, Register,
     Compare, Gate, diskVars, devVars, DiskOK, Looping, FromLoop, FromSums, FromIndex,
     FromWindow, FromMatrix
<1>8. QED
  BY <1>1, <1>2, <1>3, <1>4, <1>5, <1>6, <1>7 DEF Next, Developer, EnsureTrees, Regen

\* The contract files.
LEMMA BooksStep == ASSUME TypeOK, DiskOK, BooksOK, Next PROVE BooksOK'
<1>1. CASE (\E c \in Cases : EditCase(c)) \/ (\E c \in Cases : DropCase(c)) \/
            EditDumper \/ RefreshSums \/ Stage \/ Commit \/ FreshCheckout
  BY <1>1 DEF EditCase, Edit, DropCase, EditDumper, RefreshSums, Stage, Commit,
     FreshCheckout, BooksOK, FromSums, FromIndex, FromWindow, FromMatrix
<1>2. CASE Start \/ Reuse("geth", "node") \/ Refuse("geth") \/ Remove("geth",
            "gethClone") \/ Clone("geth", "gethClone", "gethFetch") \/
            Fetch("gethFetch", "gethCheckout") \/ Checkout("geth", "gethCheckout",
            "node") \/ Reuse("node", "pre") \/ Refuse("node") \/ Remove("node",
            "nodeClone") \/ Clone("node", "nodeClone", "nodeFetch") \/
            Fetch("nodeFetch", "nodeCheckout") \/ Checkout("node", "nodeCheckout",
            "pre") \/ CheckGeth
  BY <1>2 DEF Start, Reuse, Goto, Refuse, Exit, Remove, Clone, Fetch, Checkout,
     CheckGeth, Check, BooksOK, FromSums, FromIndex, FromWindow, FromMatrix
<1>3. CASE Fail \/ Kill
  BY <1>3 DEF Fail, Exit, Kill, BooksOK, FromSums, FromIndex, FromWindow, FromMatrix
<1>4. CASE Build \/ WriteCases \/ Generate \/ Generated \/ Derive
  BY <1>4 DEF Build, At, Goto, WriteCases, Generate, Generated, Derive, BooksOK,
     FromSums, FromIndex, FromWindow, FromMatrix
<1>5. CASE MaintainSums
  BY <1>5 DEF MaintainSums, Goto, Summed, diskVars, TypeOK, BooksOK, Versions, Books,
     FromIndex, FromWindow, FromMatrix
<1>6. CASE MaintainManifest
  BY <1>6 DEF MaintainManifest, At, Goto, diskVars, BooksOK, FromSums, FromMatrix
<1>7. CASE WriteMatrix
  BY <1>7 DEF WriteMatrix, At, Goto, diskVars, devVars, DiskOK, BooksOK, FromSums,
     FromIndex, FromWindow
<1>8. CASE Register
  BY <1>8 DEF Register, At, Goto, diskVars, devVars, BooksOK, FromSums, FromIndex,
     FromWindow, FromMatrix
<1>9. CASE Compare
  BY <1>9 DEF Compare, Check, At, Exit, diskVars, devVars, BooksOK, FromSums,
     FromIndex, FromWindow, FromMatrix
<1>10. CASE CheckNode \/ CopyCaps \/ DumpCaps \/ CopyWindow \/ DumpWindow \/ Gate
  BY <1>10 DEF CheckNode, Check, At, Goto, Exit, CopyCaps, DumpCaps, CopyWindow,
     DumpWindow, Gate, diskVars, BooksOK, FromSums, FromIndex, FromWindow, FromMatrix
<1>11. QED
  BY <1>1, <1>2, <1>3, <1>4, <1>5, <1>6, <1>7, <1>8, <1>9, <1>10 DEF Next, Developer,
     EnsureTrees, Regen

\* The fixed point.
LEMMA SettledStep == ASSUME TypeOK, DiskOK, BooksOK, Settled, Next PROVE Settled'
<1>1. CASE (\E c \in Cases : EditCase(c)) \/ (\E c \in Cases : DropCase(c)) \/
            EditDumper \/ RefreshSums
  BY <1>1, RitualAssumption DEF EditCase, Edit, DropCase, EditDumper, RefreshSums,
     Settled
<1>2. CASE Stage \/ Commit
  BY <1>2, RitualAssumption DEF Stage, Commit, diskVars, Settled, Fixed
<1>3. CASE FreshCheckout
  BY <1>3, RitualAssumption DEF FreshCheckout, TypeOK, Present, Settled, Fixed
<1>4. CASE Start \/ Reuse("geth", "node") \/ Refuse("geth") \/ Remove("geth",
            "gethClone") \/ Clone("geth", "gethClone", "gethFetch") \/
            Fetch("gethFetch", "gethCheckout") \/ Checkout("geth", "gethCheckout",
            "node") \/ Reuse("node", "pre") \/ Refuse("node") \/ Remove("node",
            "nodeClone") \/ Clone("node", "nodeClone", "nodeFetch") \/
            Fetch("nodeFetch", "nodeCheckout") \/ Checkout("node", "nodeCheckout",
            "pre") \/ CheckGeth
  BY <1>4, RitualAssumption DEF Start, Reuse, At, Goto, Refuse, Exit, Remove, Clone,
     Fetch, Checkout, CheckGeth, Check, diskVars, devVars, Settled, Fixed
<1>5. CASE Fail \/ Kill
  BY <1>5, RitualAssumption DEF Fail, Exit, Kill, diskVars, devVars, Settled, Fixed
<1>6. CASE Build \/ Generated \/ Derive \/ CheckNode \/ CopyCaps \/ DumpCaps \/
            CopyWindow \/ DumpWindow
  BY <1>6, RitualAssumption DEF Build, At, Goto, Generated, Derive, CheckNode, Check,
     Exit, CopyCaps, DumpCaps, CopyWindow, DumpWindow, diskVars, devVars, Settled,
     Fixed
<1>7. CASE WriteCases
  BY <1>7, RitualAssumption DEF WriteCases, At, Written, Present, devVars, Settled,
     Fixed
<1>8. CASE Generate
  BY <1>8, RitualAssumption DEF Generate, At, devVars, Present, Settled, Fixed
<1>9. CASE MaintainSums
  BY <1>9, RitualAssumption DEF MaintainSums, At, Goto, Summed, diskVars, devVars,
     TypeOK, Versions, Books, Present, Settled, Fixed
<1>10. CASE MaintainManifest
  BY <1>10, RitualAssumption DEF MaintainManifest, At, Goto, diskVars, devVars,
     TypeOK, Books, Settled, Fixed
<1>11. CASE WriteMatrix
  BY <1>11, RitualAssumption DEF WriteMatrix, At, Goto, diskVars, devVars, TypeOK,
     DiskOK, Books, FromWindow, Settled, Fixed
<1>12. CASE Register
  BY <1>12, RitualAssumption DEF Register, At, Goto, diskVars, devVars, TypeOK, Books,
     Registrable, Settled, Fixed
<1>13. CASE Compare
  BY <1>13, RitualAssumption DEF Compare, Check, At, Goto, diskVars, devVars, DiskOK,
     Present, Looping, FromLoop, FromSums, FromIndex, FromWindow, FromMatrix, Settled,
     Fixed
<1>14. CASE Gate
  BY <1>14, RitualAssumption DEF Gate, Exit, diskVars, DiskOK, BooksOK, Present,
     Registrable, FromLoop, FromSums, FromIndex, FromWindow, FromMatrix, Settled,
     Fixed
<1>15. QED
  BY <1>1, <1>2, <1>3, <1>4, <1>5, <1>6, <1>7, <1>8, <1>9, <1>10, <1>11, <1>12,
       <1>13, <1>14 DEF Next, Developer, EnsureTrees, Regen

\* The caches.
LEMMA HealStep == ASSUME TypeOK, TreesOK, CheckoutsHeal, Next PROVE CheckoutsHeal'
<1>1. CASE (\E c \in Cases : EditCase(c)) \/ (\E c \in Cases : DropCase(c)) \/
            EditDumper \/ RefreshSums \/ Stage \/ Commit \/ FreshCheckout \/ Start
  BY <1>1 DEF EditCase, Edit, DropCase, EditDumper, RefreshSums, Stage, Commit,
     FreshCheckout, Start, treeVars, CheckoutsHeal
<1>2. CASE Reuse("geth", "node") \/ Refuse("geth") \/ Remove("geth", "gethClone")
            \/ Clone("geth", "gethClone", "gethFetch") \/ Fetch("gethFetch",
            "gethCheckout") \/ Checkout("geth", "gethCheckout", "node") \/
            Reuse("node", "pre") \/ Refuse("node") \/ Remove("node", "nodeClone")
            \/ Clone("node", "nodeClone", "nodeFetch") \/ Fetch("nodeFetch",
            "nodeCheckout") \/ Checkout("node", "nodeCheckout", "pre") \/
            CheckGeth
  BY <1>2 DEF Reuse, At, Goto, Refuse, Exit, Trapped, Remove, Clone, Fetch, Checkout,
     CheckGeth, Check, TreesOK, PastGeth, InGeth, Trees, LitterOf, Litter,
     CheckoutsHeal
<1>3. CASE Build \/ WriteCases \/ Generate \/ Generated \/ Derive \/ MaintainSums
            \/ MaintainManifest \/ CheckNode \/ CopyCaps \/ DumpCaps \/ CopyWindow
            \/ DumpWindow \/ WriteMatrix \/ Register \/ Compare \/ Gate
  BY <1>3 DEF Build, At, Goto, WriteCases, Generate, Generated, Derive, MaintainSums,
     MaintainManifest, CheckNode, Check, Exit, CopyCaps, DumpCaps, CopyWindow,
     DumpWindow, WriteMatrix, Register, Compare, Gate, TreesOK, PastNode, Looping,
     FromLoop, FromSums, FromIndex, CheckoutsHeal
<1>4. CASE Fail \/ Kill
  BY <1>4 DEF Fail, Exit, Kill, CheckoutsHeal
<1>5. QED
  BY <1>1, <1>2, <1>3, <1>4 DEF Next, Developer, EnsureTrees, Regen

LEMMA StutterStep == ASSUME IInv, UNCHANGED vars PROVE IInv'
<1>1. TypeOK' /\ TreesOK' /\ CheckoutsHeal'
  BY DEF IInv, vars, treeVars, diskVars, devVars, TypeOK, TreesOK, CheckoutsHeal
<1>2. DiskOK' /\ BooksOK' /\ Settled'
  BY DEF IInv, vars, diskVars, devVars, DiskOK, BooksOK, Settled, Fixed
<1>3. QED
  BY <1>1, <1>2 DEF IInv

LEMMA InitHolds == Init => IInv
<1>1. SUFFICES ASSUME Init PROVE IInv
  OBVIOUS
<1>2. PICK w \in Worlds : tree = w.tree /\ owned = w.owned /\ edits = w.edits /\ kills = w.kills
  BY <1>1 DEF Init
<1>3. TypeOK
  <2>1. src \in Versions /\ caseFile \in Versions /\ out \in Versions
    BY <1>1, RitualAssumption DEF Init, Versions
  <2>2. books \in Books /\ index \in Books /\ committed \in Books
    BY <1>1, <2>1, RitualAssumption DEF Init, Books, Present, Registrable
  <2>3. /\ tree \in [Trees -> Checkouts] /\ owned \in [Trees -> BOOLEAN]
        /\ \A t \in Trees : tree[t].kind = "absent" =>
                             tree[t].head = "none" /\ tree[t].litter = {}
        /\ edits \in Nat /\ kills \in Nat
    BY <1>2, WorldAssumption
  <2>4. /\ capsSrc \in 1..MaxVer /\ der \subseteq Derived /\ capsOut \in 0..MaxVer
        /\ fetchHead = "none" /\ fellBack = FALSE
        /\ todo \subseteq Cases /\ last = "none" /\ calm = "no" /\ pc = "idle"
    BY <1>1, RitualAssumption DEF Init
  <2>5. QED
    BY <2>1, <2>2, <2>3, <2>4 DEF TypeOK, Ends
<1>4. pc = "idle" /\ calm = "no" /\ last = "none"
  BY <1>1 DEF Init
<1>5. TreesOK
  BY <1>2, <1>4, WorldAssumption DEF TreesOK, PastGeth, PastNode, InGeth, Looping,
     FromLoop, FromSums, FromIndex, FromWindow, FromMatrix
<1>6. DiskOK /\ BooksOK /\ Settled /\ CheckoutsHeal
  BY <1>4 DEF DiskOK, BooksOK, Settled, CheckoutsHeal, Looping, FromLoop, FromSums,
     FromIndex, FromWindow, FromMatrix
<1>7. QED
  BY <1>3, <1>5, <1>6 DEF IInv

LEMMA Invariance == Spec => []IInv
<1>1. IInv /\ [Next]_vars => IInv'
  BY TypeStep, TreesStep, DiskStep, BooksStep, SettledStep, HealStep, StutterStep DEF
     IInv
<1>2. QED
  BY InitHolds, <1>1, PTL DEF Spec

-----------------------------------------------------------------------------
(* The theorems. *)

\* Every variable has its type; in particular no clone is checked out that is not there.
THEOREM TypeCorrect == Spec => []TypeOK
<1>1. IInv => TypeOK
  BY DEF IInv
<1>2. QED
  BY <1>1, Invariance, PTL

\* One green run, or one commit after a red one, and the contract files of regen.sh are
\* at a fixed point until somebody edits something.
THEOREM Settles == Spec => []RitualSettles
<1>1. IInv => RitualSettles
  BY DEF IInv, Settled, RitualSettles
<1>2. QED
  BY <1>1, Invariance, PTL

\* No run is refused for the state that ensure-vectors.sh left a checkout in, but for
\* the fallback fetch and the dumpers of a killed run.
THEOREM CachesHeal == Spec => []CheckoutsHeal
<1>1. IInv => CheckoutsHeal
  BY DEF IInv
<1>2. QED
  BY <1>1, Invariance, PTL

\* Exit code 0 certifies every case of the present definitions, for any number of cases
\* and after any history of failed, killed and edited runs.
THEOREM GreenIsCovered == Spec => GreenCovers
<1> DEFINE Covered ==
      /\ \A c \in Present(src) :
           /\ out[c] = src[c]
           /\ c \in index.reg \cap index.idx /\ index.sums[c] > 0
      /\ index.reg = Present(caseFile) \cup Registrable
      /\ index.matrix = capsSrc
<1>1. ASSUME IInv, [Next]_vars, pc = "gate", last' = "green", vars' # vars
      PROVE  Gate
  BY <1>1 DEF Next, Developer, EditCase, DropCase, EditDumper, RefreshSums, Edit,
     Stage, Commit, FreshCheckout, Start, EnsureTrees, Reuse, Refuse, Remove, Clone, Fetch,
     Checkout, Regen, CheckGeth, CheckNode, Compare, Check, Build, WriteCases,
     Generate, Generated, Derive, MaintainSums, MaintainManifest, CopyCaps, DumpCaps,
     CopyWindow, DumpWindow, WriteMatrix, Register, At, Fail, Kill, Exit
<1>2. ASSUME IInv, Gate, last' = "green"
      PROVE  Covered
  <2>1. books = index /\ pc = "gate"
    BY <1>2 DEF Gate, Exit
  <2>2. /\ \A c \in Cases : src[c] > 0 => caseFile[c] = src[c]
        /\ \A c \in Cases : caseFile[c] > 0 => out[c] = caseFile[c]
    BY <1>2, <2>1 DEF IInv, DiskOK, Looping, FromLoop, FromSums, FromIndex,
       FromWindow, FromMatrix
  <2>3. /\ \A c \in Cases : out[c] > 0 => books.sums[c] > 0
        /\ Present(out) \subseteq books.idx /\ Present(out) \subseteq books.reg
        /\ Present(caseFile) \cup Registrable = books.reg
        /\ books.matrix = capsSrc
    BY <1>2, <2>1 DEF IInv, BooksOK, FromSums, FromIndex, FromWindow, FromMatrix
  <2>4. QED
    BY <2>1, <2>2, <2>3 DEF Present
<1>3. ASSUME IInv, [Next]_vars
      PROVE  [pc = "gate" /\ last' = "green" => Covered]_vars
  BY <1>1, <1>2, <1>3
<1>4. QED
  BY <1>3, Invariance, PTL DEF Spec, GreenCovers

\* A repository at a path the user names is neither removed nor moved to another commit,
\* whatever the checkouts found and whatever has happened to them before.
THEOREM OwnedIsKept == Spec => OwnedClonesKept
<1> DEFINE Kept(t) ==
      owned[t] /\ tree[t].kind = "clone" /\ pc \notin Cloning(t) =>
        tree'[t].kind = "clone" /\ tree'[t].head = tree[t].head
<1>1. ASSUME TypeOK, [Next]_vars, NEW t \in Trees
      PROVE  Kept(t)
  <2>1. CASE Developer \/ Start \/ Kill \/ UNCHANGED vars
    BY <2>1 DEF Developer, EditCase, DropCase, EditDumper, RefreshSums, Edit, Stage,
       Commit, FreshCheckout, Start, Kill, vars, treeVars
  <2>2. CASE Fail \/ Regen
    BY <1>1, <2>2 DEF TypeOK, Trees, Checkouts, Fail, Regen, CheckGeth, CheckNode,
       Compare, Check, Gate, Exit, Swept, Build, WriteCases, Generate, Generated,
       Derive, MaintainSums, MaintainManifest, CopyCaps, DumpCaps, CopyWindow,
       DumpWindow, WriteMatrix, Register, Drop, At, treeVars
  <2>3. CASE EnsureTrees
    <3>1. CASE \E u \in Trees : \E next : Reuse(u, next)
      BY <1>1, <3>1 DEF TypeOK, Trees, Checkouts, Reuse, CleanedUp
    <3>2. CASE \E u \in Trees : Refuse(u)
      BY <1>1, <3>2 DEF TypeOK, Trees, Checkouts, Refuse, Exit, Swept
    <3>3. CASE \E u \in Trees : \E next : Remove(u, next)
      BY <1>1, <3>3 DEF TypeOK, Trees, Remove, Removed, Theirs, AnyHead, At
    <3>4. CASE \/ Clone("geth", "gethClone", "gethFetch")
               \/ Checkout("geth", "gethCheckout", "node")
               \/ Clone("node", "nodeClone", "nodeFetch")
               \/ Checkout("node", "nodeCheckout", "pre")
      BY <1>1, <3>4 DEF TypeOK, Trees, Checkouts, Clone, Checkout, At, Cloning
    <3>5. CASE Fetch("gethFetch", "gethCheckout") \/ Fetch("nodeFetch", "nodeCheckout")
      BY <3>5 DEF Fetch
    <3>6. QED
      BY <2>3, <3>1, <3>2, <3>3, <3>4, <3>5 DEF EnsureTrees, Trees
  <2>4. QED
    BY <1>1, <2>1, <2>2, <2>3 DEF Next
<1>2. ASSUME TypeOK, [Next]_vars
      PROVE  [\A t \in Trees : Kept(t)]_vars
  BY <1>1, <1>2
<1>3. QED
  BY <1>2, TypeCorrect, PTL DEF Spec, OwnedClonesKept
=============================================================================
