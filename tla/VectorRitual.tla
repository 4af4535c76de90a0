---------------------------- MODULE VectorRitual ----------------------------
(***************************************************************************)
(* tests/t8n/generator/ensure-vectors.sh and the regen.sh it runs: bring    *)
(* the op-geth and optimism checkouts to their pins, build the generator in *)
(* the first, regenerate every case, vector and golden, keep the contract   *)
(* files append-only, and fail unless the index already has what they say.  *)
(* A run may fail at any command (its trap cleans up) or be killed at any   *)
(* (nothing does).  Between runs a developer edits cases and contracts,     *)
(* stages, commits, or moves to a fresh checkout, as CI does.               *)
(*                                                                         *)
(* The bytes of a case, its vector and its golden are a function of its     *)
(* definition in the generator and of the pin: they are the version of the  *)
(* definition they come from, 0 being "no such file" or "no such line".     *)
(***************************************************************************)
EXTENDS Naturals, FiniteSets

CONSTANTS
  Cases,     \* names of cases
  Derived,   \* names of mode products: corrupt, static, invalid-tx, chain, ladder
  Excluded,  \* those generated but never registered: static items 3 and 12
  MaxVer,    \* bound on the versions of a definition
  Worlds     \* initial checkouts, who owns them, and the bounds on edits and kills

ASSUME RitualAssumption ==
  /\ IsFiniteSet(Cases) /\ IsFiniteSet(Derived)
  /\ Cases \cap Derived = {} /\ Excluded \subseteq Derived
  /\ MaxVer \in Nat \ {0}

VARIABLES
  tree,      \* the two checkouts
  owned,     \* was the path given by the user (OPGETH, OP_NODE_REPO)?
  fetchHead, \* FETCH_HEAD of the clone in progress
  fellBack,  \* the shallow fetches of the op-geth pin were all refused
  src,       \* the case definitions in generator/*.go
  capsSrc,   \* and those of the two matrix dumpers
  caseFile,  \* cases/*.in.json
  out,       \* vectors/<case>.json and golden/engine/<case>.golden.json
  der,       \* vectors/<mode product>.json
  capsOut,   \* matrix/caps.json and engine_api_windows.json
  books,     \* the contract files: vectors/manifest.txt (reg), golden/engine/manifest.txt
             \* (idx) and SHA256SUMS (sums), matrix/SHA256SUMS (matrix)
  index,     \* the same as staged,
  committed, \* and as committed
  pc,
  todo,      \* case files the loop has still to run
  last,      \* how the last run since the last staging ended
  calm,      \* "yes" since a green run, or since what a red one asked for was staged, if
             \* no case file was a leftover, until something is edited
  edits, kills \* what is left of their bounds

treeVars == <<tree, owned, fetchHead, fellBack>>
diskVars == <<caseFile, out, der, capsOut>>
devVars == <<src, capsSrc, index, committed, calm, edits>>
vars == <<treeVars, diskVars, devVars, books, pc, todo, last, kills>>

Trees == {"geth", "node"}

\* What regen.sh drops in op-geth: cmd/opt8n-ref, opt8n-ref, cmd/opt8n-caps and the
\* binaries opt8n-ref-caps and opt8n-ref-opnodewin beside it; and in optimism:
\* cmd/opt8n-opnodewin.
Litter == {"scratch", "binary", "capsDir", "capsBin", "winBin", "winDir"}

\* "worktree" is a directory whose .git is a file (a linked worktree, a submodule),
\* "plain" one without .git, or with one that is no repository yet.
Checkouts == [kind : {"absent", "plain", "worktree", "clone"},
              head : {"none", "pin", "tip"}, litter : SUBSET Litter]

\* Each tool drops its litter in one of the two.
LitterOf(t) == IF t = "node" THEN {"winDir"} ELSE Litter \ {"winDir"}

ASSUME WorldAssumption ==
  \A w \in Worlds :
    /\ w.tree \in [Trees -> Checkouts] /\ w.owned \in [Trees -> BOOLEAN]
    /\ w.edits \in Nat /\ w.kills \in Nat
    /\ \A t \in Trees : /\ w.tree[t].litter \subseteq LitterOf(t)
                        /\ w.tree[t].kind = "absent" => w.tree[t].head = "none"
                                                      /\ w.tree[t].litter = {}

Versions == [Cases -> 0..MaxVer]
Books == [reg : SUBSET (Cases \cup Derived), idx : SUBSET Cases, sums : Versions,
          matrix : 0..MaxVer]

Ends == {"none", "green", "killed", "failed", "refused", "pin", "dirty", "mismatch", "drift"}

TypeOK ==
  /\ tree \in [Trees -> Checkouts] /\ owned \in [Trees -> BOOLEAN]
  /\ \A t \in Trees : tree[t].kind = "absent" => tree[t].head = "none" /\ tree[t].litter = {}
  /\ fetchHead \in {"none", "pin", "tip"} /\ fellBack \in BOOLEAN
  /\ src \in Versions /\ capsSrc \in 1..MaxVer
  /\ caseFile \in Versions /\ out \in Versions
  /\ der \subseteq Derived /\ capsOut \in 0..MaxVer
  /\ books \in Books /\ index \in Books /\ committed \in Books
  /\ pc \in {"idle", "geth", "gethClone", "gethFetch", "gethCheckout",
             "node", "nodeClone", "nodeFetch", "nodeCheckout",
             "pre", "build", "cases", "loop", "derive", "sums", "index", "preNode",
             "capsCopy", "caps", "windowCopy", "window", "matrix", "register", "compare", "gate"}
  /\ todo \subseteq Cases /\ last \in Ends /\ calm \in {"no", "asked", "yes"}
  /\ edits \in Nat /\ kills \in Nat

Present(f) == {c \in Cases : f[c] > 0}
Registrable == Derived \ Excluded

\* A corpus whose contracts are in order, and no generated file yet.
Init ==
  \E w \in Worlds :
    /\ tree = w.tree /\ owned = w.owned /\ edits = w.edits /\ kills = w.kills
    /\ fetchHead = "none" /\ fellBack = FALSE
    /\ src \in [Cases -> {0, 1}] /\ capsSrc = 1
    /\ caseFile = [c \in Cases |-> 0] /\ out = caseFile /\ der = {} /\ capsOut = 0
    /\ books = [reg |-> Present(src) \cup Registrable, idx |-> Present(src), sums |-> src,
                matrix |-> 1]
    /\ index = books /\ committed = books
    /\ pc = "idle" /\ todo = {} /\ last = "none" /\ calm = "no"

-----------------------------------------------------------------------------
(* The developer, between runs. *)

Edit ==
  /\ pc = "idle" /\ edits > 0
  /\ edits' = edits - 1 /\ calm' = "no"
  /\ UNCHANGED <<treeVars, diskVars, pc, todo, last, kills>>

\* A case is added or its definition changed; a case is removed.
EditCase(c) ==
  /\ Edit
  /\ src[c] < MaxVer
  /\ src' = [src EXCEPT ![c] = src[c] + 1]
  /\ UNCHANGED <<capsSrc, books, index, committed>>

DropCase(c) ==
  /\ Edit
  /\ src[c] > 0
  /\ src' = [src EXCEPT ![c] = 0]
  /\ books' = [reg |-> books.reg \ {c}, idx |-> books.idx \ {c},
               sums |-> [books.sums EXCEPT ![c] = 0], matrix |-> books.matrix]
  /\ UNCHANGED <<capsSrc, index, committed>>

EditDumper ==
  /\ Edit
  /\ capsSrc < MaxVer
  /\ capsSrc' = capsSrc + 1
  /\ UNCHANGED <<src, books, index, committed>>

\* The sums of regenerated goldens are refreshed by hand.
RefreshSums ==
  /\ Edit
  /\ books' = [books EXCEPT !.sums = [c \in Cases |-> IF books.sums[c] > 0 /\ out[c] > 0
                                                      THEN out[c] ELSE books.sums[c]]]
  /\ UNCHANGED <<src, capsSrc, index, committed>>

\* git add of the contract files, and git commit of what is staged.
Stage ==
  /\ pc = "idle" /\ index # books
  /\ index' = books
  /\ calm' = IF calm = "asked" THEN "yes" ELSE "no"
  /\ last' = "none"
  /\ UNCHANGED <<treeVars, diskVars, src, capsSrc, books, committed, pc, todo, edits, kills>>

Commit ==
  /\ pc = "idle" /\ committed # index
  /\ committed' = index
  /\ UNCHANGED <<treeVars, diskVars, src, capsSrc, books, index, calm, pc, todo, last, edits,
                 kills>>

\* Generated files are ignored by git; the checkouts are cached.
FreshCheckout ==
  /\ pc = "idle"
  /\ caseFile' = [c \in Cases |-> 0] /\ out' = caseFile' /\ der' = {} /\ capsOut' = 0
  /\ books' = committed /\ index' = committed
  /\ calm' = IF calm = "yes" /\ index = committed THEN "yes" ELSE "no"
  /\ UNCHANGED <<treeVars, src, capsSrc, committed, edits, pc, todo, last, kills>>

-----------------------------------------------------------------------------
(* The ends of a run. *)

\* regen.sh's EXIT trap.
Swept ==
  [geth |-> [tree["geth"] EXCEPT !.litter = {}],
   node |-> [tree["node"] EXCEPT !.litter = {}]]

Trapped == {"build", "cases", "loop", "derive", "sums", "index", "preNode", "capsCopy", "caps",
            "windowCopy", "window", "matrix", "register", "compare", "gate"}

Exit(how) ==
  /\ pc' = "idle" /\ todo' = {} /\ last' = how
  /\ tree' = IF pc \in Trapped THEN Swept ELSE tree

\* A command fails: the network, git, go build, the generator's own checks.
Fail ==
  /\ pc # "idle"
  /\ Exit("failed")
  /\ UNCHANGED <<owned, fetchHead, fellBack, diskVars, devVars, books, kills>>

\* SIGKILL, or the machine: no trap runs.
Kill ==
  /\ pc # "idle" /\ kills > 0
  /\ kills' = kills - 1
  /\ pc' = "idle" /\ todo' = {} /\ last' = "killed"
  /\ UNCHANGED <<treeVars, diskVars, devVars, books>>

Start ==
  /\ pc = "idle"
  /\ pc' = "geth" /\ fellBack' = FALSE /\ fetchHead' = "none"
  /\ UNCHANGED <<tree, owned, diskVars, devVars, books, todo, last, kills>>

At(label) == pc = label /\ UNCHANGED <<owned, devVars, kills>>
Goto(label) == pc' = label /\ UNCHANGED <<todo, last>>

-----------------------------------------------------------------------------
(* ensure_opgeth and ensure_op_node. *)

\* [ -d "$X/.git" ], then rev-parse HEAD, which prints something, if only "HEAD", in any
\* repository; a .git that is a file is not looked into.
AnyHead(t) == tree[t].kind = "clone"
AtPin(t) == tree[t].kind = "clone" /\ tree[t].head = "pin"

\* What is cleaned up when a checkout is reused.
CleanedUp(t) ==
  IF t = "geth" THEN [tree EXCEPT !["geth"].litter = tree["geth"].litter \ {"scratch", "binary"}]
  ELSE [geth |-> [tree["geth"] EXCEPT !.litter = tree["geth"].litter \ {"winBin"}],
        node |-> [tree["node"] EXCEPT !.litter = tree["node"].litter \ {"winDir"}]]

Reuse(t, next) ==
  /\ At(t)
  /\ AtPin(t)
  /\ tree' = CleanedUp(t)
  /\ Goto(next)
  /\ UNCHANGED <<fetchHead, fellBack, diskVars, books>>

NeverTheirs(t) == FALSE
Theirs(t) == AnyHead(t) /\ owned[t]

Refuse(t) ==
  /\ At(t)
  /\ ~AtPin(t) /\ Theirs(t)
  /\ Exit("refused")
  /\ UNCHANGED <<fetchHead, fellBack, diskVars, books>>

HalfRemoved(t) == [tree EXCEPT ![t].kind = "absent"]
Removed(t) == [tree EXCEPT ![t] = [kind |-> "absent", head |-> "none", litter |-> {}]]

\* rm -rf: of the script's own cache, and of whatever no HEAD was printed for.
Remove(t, next) ==
  /\ At(t)
  /\ ~AtPin(t) /\ ~Theirs(t)
  /\ tree' = Removed(t)
  /\ Goto(next)
  /\ UNCHANGED <<fetchHead, fellBack, diskVars, books>>

\* git clone makes the directory first, then an empty repository in it, and has a HEAD
\* only in the end.
Clone(t, label, next) ==
  /\ At(label)
  /\ \/ /\ tree[t].kind = "absent"
        /\ tree' = [tree EXCEPT ![t].kind = "plain"] /\ Goto(label)
     \/ /\ tree[t].kind = "plain"
        /\ tree' = [tree EXCEPT ![t].kind = "clone"] /\ Goto(label)
     \/ /\ tree[t].kind = "clone"
        /\ tree' = [tree EXCEPT ![t].head = "tip"] /\ Goto(next)
  /\ UNCHANGED <<fetchHead, fellBack, diskVars, books>>

\* fetch_pin: the pin itself, three times; then every ref, which leaves the default
\* branch in FETCH_HEAD; and the pin itself once more if no ref reaches it.
Fetch(label, next) ==
  /\ At(label)
  /\ \/ fetchHead' = "pin" /\ UNCHANGED fellBack
     \/ fetchHead' = "tip" /\ fellBack' = (fellBack \/ label = "gethFetch")
  /\ Goto(next)
  /\ UNCHANGED <<tree, diskVars, books>>

\* git checkout FETCH_HEAD, and git checkout --detach $OP_NODE_PIN.
CheckedOut(t) == IF t = "geth" THEN fetchHead ELSE "pin"

Checkout(t, label, next) ==
  /\ At(label)
  /\ tree' = [tree EXCEPT ![t].head = CheckedOut(t)]
  /\ Goto(next)
  /\ UNCHANGED <<fetchHead, fellBack, diskVars, books>>

EnsureTrees ==
  \/ Reuse("geth", "node") \/ Refuse("geth") \/ Remove("geth", "gethClone")
  \/ Clone("geth", "gethClone", "gethFetch") \/ Fetch("gethFetch", "gethCheckout")
  \/ Checkout("geth", "gethCheckout", "node")
  \/ Reuse("node", "pre") \/ Refuse("node") \/ Remove("node", "nodeClone")
  \/ Clone("node", "nodeClone", "nodeFetch") \/ Fetch("nodeFetch", "nodeCheckout")
  \/ Checkout("node", "nodeCheckout", "pre")

-----------------------------------------------------------------------------
(* regen.sh: the corpus. *)

Check(label, next, ok, how) ==
  /\ At(label)
  /\ IF ok THEN Goto(next) /\ UNCHANGED tree ELSE Exit(how)
  /\ UNCHANGED <<fetchHead, fellBack, diskVars, books>>

\* git status --porcelain has nothing to say.
CheckGeth ==
  Check("pre", "build", tree["geth"].head = "pin" /\ tree["geth"].litter = {},
        IF tree["geth"].head = "pin" THEN "dirty" ELSE "pin")

Drop(t, names) == [tree EXCEPT ![t].litter = tree[t].litter \cup names]

Build ==
  /\ At("build")
  /\ tree' = Drop("geth", {"scratch", "binary"})
  /\ Goto("cases")
  /\ UNCHANGED <<fetchHead, fellBack, diskVars, books>>

\* opt8n-ref --write-cases: every definition, and no file is removed.
NewOnly == [c \in Cases |-> IF caseFile[c] > 0 THEN caseFile[c] ELSE src[c]]
Written == [c \in Cases |-> IF src[c] > 0 THEN src[c] ELSE caseFile[c]]

WriteCases ==
  /\ At("cases")
  /\ caseFile' = Written
  /\ todo' = Present(caseFile')
  /\ pc' = "loop"
  /\ UNCHANGED <<treeVars, out, der, capsOut, books, last>>

Generate ==
  /\ At("loop")
  /\ \E c \in todo :
       /\ out' = [out EXCEPT ![c] = caseFile[c]]
       /\ todo' = todo \ {c}
  /\ UNCHANGED <<treeVars, caseFile, der, capsOut, books, pc, last>>

Generated ==
  /\ At("loop")
  /\ todo = {}
  /\ Goto("derive")
  /\ UNCHANGED <<treeVars, diskVars, books>>

Derive ==
  /\ At("derive")
  /\ der' = Derived
  /\ Goto("sums")
  /\ UNCHANGED <<treeVars, caseFile, out, capsOut, books>>

-----------------------------------------------------------------------------
(* regen.sh: the books. *)

\* maintain_sums: existing lines are never rewritten.
Summed == [c \in Cases |-> IF books.sums[c] = 0 THEN out[c] ELSE books.sums[c]]

MaintainSums ==
  /\ At("sums")
  /\ books' = [books EXCEPT !.sums = Summed]
  /\ Goto("index")
  /\ UNCHANGED <<treeVars, diskVars>>

MaintainManifest ==
  /\ At("index")
  /\ books' = [books EXCEPT !.idx = books.idx \cup Present(out)]
  /\ Goto("preNode")
  /\ UNCHANGED <<treeVars, diskVars>>

CheckNode == Check("preNode", "capsCopy", tree["node"].head = "pin", "pin")

\* The two dumpers: sources copied in, built, removed again, run.
CopyCaps ==
  /\ At("capsCopy")
  /\ tree' = Drop("geth", {"capsDir"})
  /\ Goto("caps")
  /\ UNCHANGED <<fetchHead, fellBack, diskVars, books>>

DumpCaps ==
  /\ At("caps")
  /\ tree' = [tree EXCEPT !["geth"].litter = (tree["geth"].litter \ {"capsDir"}) \cup {"capsBin"}]
  /\ Goto("windowCopy")
  /\ UNCHANGED <<fetchHead, fellBack, diskVars, books>>

CopyWindow ==
  /\ At("windowCopy")
  /\ tree' = Drop("node", {"winDir"})
  /\ Goto("window")
  /\ UNCHANGED <<fetchHead, fellBack, diskVars, books>>

DumpedIfAbsent == IF capsOut > 0 THEN capsOut ELSE capsSrc
Dumped == capsSrc

DumpWindow ==
  /\ At("window")
  /\ tree' = [geth |-> [tree["geth"] EXCEPT !.litter = tree["geth"].litter \cup {"winBin"}],
              node |-> [tree["node"] EXCEPT !.litter = tree["node"].litter \ {"winDir"}]]
  /\ capsOut' = Dumped
  /\ Goto("matrix")
  /\ UNCHANGED <<fetchHead, fellBack, caseFile, out, der, books>>

\* Unlike the others, the matrix contract is rewritten.
WriteMatrix ==
  /\ At("matrix")
  /\ books' = [books EXCEPT !.matrix = capsOut]
  /\ Goto("register")
  /\ UNCHANGED <<treeVars, diskVars>>

\* append_if_absent, for every vector on disk that is not excluded.
Register ==
  /\ At("register")
  /\ books' = [books EXCEPT !.reg = books.reg \cup Present(out) \cup (der \ Excluded)]
  /\ Goto("compare")
  /\ UNCHANGED <<treeVars, diskVars>>

\* The case files and the list of mode products in the script, against the manifest.
Compare == Check("compare", "gate", Present(caseFile) \cup Registrable = books.reg, "mismatch")

\* git diff --exit-code of the contracts, against the index; then the matrix files must
\* exist.
Gate ==
  /\ pc = "gate"
  /\ Exit(IF books = index THEN "green" ELSE "drift")
  /\ calm' = IF Present(caseFile) # Present(src) \/ calm = "yes" THEN calm
             ELSE IF books = index THEN "yes" ELSE "asked"
  /\ UNCHANGED <<owned, fetchHead, fellBack, diskVars, src, capsSrc, index, committed, edits,
                 books, kills>>

Regen ==
  \/ CheckGeth \/ Build \/ WriteCases \/ Generate \/ Generated \/ Derive
  \/ MaintainSums \/ MaintainManifest \/ CheckNode
  \/ CopyCaps \/ DumpCaps \/ CopyWindow \/ DumpWindow \/ WriteMatrix
  \/ Register \/ Compare \/ Gate

Developer ==
  \/ \E c \in Cases : EditCase(c) \/ DropCase(c)
  \/ EditDumper \/ RefreshSums \/ Stage \/ Commit \/ FreshCheckout

Next == Developer \/ Start \/ EnsureTrees \/ Regen \/ Fail \/ Kill

Spec == Init /\ [][Next]_vars

-----------------------------------------------------------------------------
(* Properties *)

\* Exit code 0 is worth what the header of regen.sh says, however many runs before it
\* failed or were killed halfway: every case has a vector and goldens of its present
\* definition, the index (on a fresh checkout, CI's, that is the commit) registers, indexes
\* and sums them all, nothing else is registered but case files and mode products, and
\* the matrix sums are those of the artifacts.
GreenCovers ==
  [][pc = "gate" /\ last' = "green" =>
       /\ \A c \in Present(src) :
            /\ out[c] = src[c]
            /\ c \in index.reg \cap index.idx /\ index.sums[c] > 0
       /\ index.reg = Present(caseFile) \cup Registrable
       /\ index.matrix = capsSrc]_vars

\* The ritual settles: after a green run, or a red one and the staging of what it asked
\* for, no run is red over the contracts until somebody edits something, here or on a
\* fresh checkout of a commit that has all that was staged, whatever is killed or fails
\* on the way.  (Unless the run met case files of cases that are gone: those keep a tree
\* green, or red, that CI is not.)
RitualSettles == calm = "yes" => last \notin {"mismatch", "drift"}

\* Checkouts heal: a cache of the script's own at a wrong commit, or cut short, never
\* makes regen.sh refuse op-geth for its HEAD (only the fallback fetch does: it leaves
\* the default branch in FETCH_HEAD), and never does the generator of a killed run
\* make it refuse op-geth as dirty (only the matrix dumpers of one do).
CheckoutsHeal ==
  pc = "idle" =>
    /\ last = "pin" => fellBack
    /\ last = "dirty" => tree["geth"].litter \cap {"capsDir", "capsBin", "winBin"} # {}

\* Where the script itself is at work on a checkout it has just made.
Cloning(t) ==
  IF t = "geth" THEN {"gethClone", "gethFetch", "gethCheckout"}
  ELSE {"nodeClone", "nodeFetch", "nodeCheckout"}

\* A repository at a path the user names stays there, at its commit, through every run,
\* kill and failure: it is used or refused, at the right commit or another, and even if
\* it is the unfinished clone of a killed run.  The comments of ensure-vectors.sh (44, 50,
\* 63) promise this of any checkout there.  It holds of those with a .git directory only:
\* a linked worktree or a submodule, whose .git is a file, is removed (Remove).
OwnedClonesKept ==
  [][\A t \in Trees :
       owned[t] /\ tree[t].kind = "clone" /\ pc \notin Cloning(t) =>
         tree'[t].kind = "clone" /\ tree'[t].head = tree[t].head]_vars
=============================================================================
