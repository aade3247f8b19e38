----------------------------- MODULE BuildStamp -----------------------------
(***************************************************************************)
(* The source stamp: what the build script compiles, digests and writes    *)
(* (build.rs 33-161), what ends up in the artefact, and the release gate   *)
(* that compares the three (attribution.rs 299-307 and the test of         *)
(* 963-1003).  A build reads the sources three times, and files may be     *)
(* edited between: slint compiles the user interface, the script digests   *)
(* what it lists, rustc compiles the rest.  A digest is the digested       *)
(* content itself: FNV is taken not to collide.  Cargo is external: it     *)
(* runs the script again when a file the script has named is newer than    *)
(* its last start or gone, or that run did not end well, and compiles the  *)
(* artefact when the script has run since it last did.                     *)
(***************************************************************************)
EXTENDS Naturals

CONSTANTS Paths,      \* the files that may be there
          UI,         \* those that slint compiles
          Always,     \* the manifests and the script, listed though not there
          Contents,   \* what may be in them
          Absent,     \* not there
          MaxEdits    \* bound

ASSUME StampAssumption ==
    /\ Absent \notin Contents /\ MaxEdits \in Nat
    /\ UI \subseteq Paths /\ Always \subseteq Paths

VARIABLES
    tree,      \* the sources as they are now
    newer,     \* the files cargo sees modified since the script's last start
    slint,     \* the sources as slint last compiled them
    outdir,    \* OUT_DIR: the receipt (files listed) and the digest
    artefact,  \* the binary: its stamp, what it was made of, what was unsettled
    cargo,     \* where a build or a test is
    undone,    \* has the script's last run not come to its end?
    fresh,     \* is the artefact compiled since the script's last run?
    since,     \* history: the files edited since the script's last start
    edits

stampVars ==
    << tree, newer, slint, outdir, artefact, cargo, undone, fresh, since, edits >>

Trees == [Paths -> Contents \cup {Absent}]

\* fnv1a over the listed files; one that cannot be read counts as such.
Digest(files, sources) == [p \in files |-> sources[p]]

\* source_files: whatever is there when the script runs, and the four files it
\* pushes without a look.
SourceFiles(sources) == Always \cup {p \in Paths : sources[p] # Absent}

\* The files outlive the script's run in the receipt.
Scripted(sources) ==
    [files |-> SourceFiles(sources), stamp |-> Digest(SourceFiles(sources), sources)]

\* rustc-env, the generated code of the user interface and the sources.
Built(out, ui, sources, open) ==
    [stamp |-> out.stamp,
     from |-> [p \in Paths |-> IF p \in UI THEN ui[p] ELSE sources[p]],
     unsettled |-> open]

\* A checkout that has been built.
StampInit ==
    /\ tree \in {t \in Trees : \E p \in Paths : t[p] # Absent}
    /\ newer = {} /\ since = {} /\ slint = tree
    /\ outdir = Scripted(tree)
    /\ artefact = Built(outdir, slint, tree, {})
    /\ cargo = "rest" /\ undone = FALSE /\ fresh = TRUE
    /\ edits = 0

\* At any time, also while cargo runs.
Edit ==
    /\ edits < MaxEdits
    /\ \E p \in Paths, c \in Contents \cup {Absent} :
         /\ tree' = [tree EXCEPT ![p] = c]
         /\ newer' = newer \cup {p}
         /\ since' = since \cup {p}
    /\ edits' = edits + 1
    /\ UNCHANGED << slint, outdir, artefact, cargo, undone, fresh >>

\* "A file whose content changed without its mtime moving" (attribution.rs 963).
EditUnnoticed ==
    /\ edits < MaxEdits
    /\ \E p \in Paths, c \in Contents :
         /\ tree[p] # Absent
         /\ tree' = [tree EXCEPT ![p] = c]
         /\ since' = since \cup {p}
    /\ edits' = edits + 1
    /\ UNCHANGED << newer, slint, outdir, artefact, cargo, undone, fresh >>

\* rerun-if-changed, for every file of the receipt.
ScriptIsDue == undone \/ \E p \in outdir.files : p \in newer \/ tree[p] = Absent

\* The script begins with the user interface.
CompileUI ==
    /\ slint' = tree
    /\ newer' = {} /\ since' = {}
    /\ undone' = TRUE

\* cargo test: the script and the test binary.
CargoTest ==
    /\ cargo = "rest" /\ ScriptIsDue
    /\ cargo' = "test" /\ CompileUI
    /\ UNCHANGED << tree, outdir, artefact, fresh, edits >>

\* cargo build: the script if it is due, and the artefact if need be.
CargoBuild ==
    /\ cargo = "rest"
    /\ \/ ScriptIsDue /\ cargo' = "build" /\ CompileUI
       \/ /\ ~ScriptIsDue /\ ~fresh
          /\ cargo' = "rustc"
          /\ UNCHANGED << newer, slint, undone, since >>
    /\ UNCHANGED << tree, outdir, artefact, fresh, edits >>

\* stamp_the_sources; only a build goes on to the artefact.
StampTheSources ==
    /\ cargo \in {"test", "build"}
    /\ outdir' = Scripted(tree)
    /\ undone' = FALSE /\ fresh' = FALSE
    /\ cargo' = IF cargo = "build" THEN "rustc" ELSE "rest"
    /\ UNCHANGED << tree, newer, slint, artefact, since, edits >>

Compile ==
    /\ cargo = "rustc"
    /\ artefact' = Built(outdir, slint, tree, since)
    /\ fresh' = TRUE /\ cargo' = "rest"
    /\ UNCHANGED << tree, newer, slint, outdir, undone, since, edits >>

\* `expect` in the script, an error of the compiler, or an interrupt.
CargoStops ==
    /\ cargo # "rest"
    /\ cargo' = "rest"
    /\ UNCHANGED << tree, newer, slint, outdir, artefact, undone, fresh, since, edits >>

StampNext ==
    \/ Edit \/ EditUnnoticed
    \/ CargoTest \/ CargoBuild \/ StampTheSources \/ Compile \/ CargoStops

StampSpec == StampInit /\ [][StampNext]_stampVars

\* A gate that takes the stamp of OUT_DIR for current (variant of Gate).
GateOnStamps == artefact.stamp = outdir.stamp

\* the_source_stamp_describes_the_sources_as_they_are_now, and the artefact's
\* stamp against OUT_DIR's.
Gate ==
    /\ Digest(outdir.files, tree) = outdir.stamp
    /\ artefact.stamp = outdir.stamp
-----------------------------------------------------------------------------
\* SAFETY.  What the gate lets through was built from the sources as they are
\* now, in every file the receipt lists, whatever was edited, noticed by cargo
\* or not, and built or tested in any order since; but for files edited while
\* that build was under way, from the start of the script to the compiler's read.
GateMeansCurrent ==
    Gate => \A p \in outdir.files \ artefact.unsettled : artefact.from[p] = tree[p]

\* SAFETY.  And for those too: recomputing the digest "cannot be fooled"
\* (attribution.rs 967-968), an artefact that passes is "the artefact this source
\* produces" (build.rs 63-65).
GateIsNotFooled == Gate => \A p \in outdir.files : artefact.from[p] = tree[p]

\* The inductive invariant: the stamp in the artefact is that of the settled
\* files it was made of; and once the script has come to its end, every listed
\* file it has not seen edited since its start is as it was compiled and digested.
StampInv ==
    /\ tree \in [Paths -> Contents \cup {Absent}]
    /\ DOMAIN outdir.stamp = outdir.files /\ outdir.files \subseteq Paths
    /\ \A p \in DOMAIN artefact.stamp \ artefact.unsettled :
         artefact.from[p] = artefact.stamp[p]
    /\ cargo \in {"test", "build"} => \A p \in Paths \ since : slint[p] = tree[p]
    /\ cargo = "rustc" => ~undone
    /\ ~undone => \A p \in outdir.files \ since :
                    tree[p] = outdir.stamp[p] /\ slint[p] = outdir.stamp[p]
=============================================================================
