--------------------------- MODULE PackageContext ---------------------------
(***************************************************************************)
(* The immutable authority a managed package runs under                    *)
(* (runtime/managed_package.rs and the root set of managed_runtime.rs).    *)
(* A context remembers the native identity (device and inode) of the       *)
(* package directory and of the dependency manifest it was built from, if  *)
(* the package declares one, and shares a root set whose distribution      *)
(* directory may appear later and is then fixed by whoever sees it first.  *)
(* The accesses to the file system are steps of their own: an installer    *)
(* may replace the package directory or its manifest, or create and        *)
(* replace the distribution directory, between any two of them.  The root  *)
(* set's runtime and environment directories are fixed when it is made;    *)
(* that one of them has been replaced shows only as a validation that      *)
(* refuses, at the place where the code looks at it.                       *)
(*                                                                         *)
(* A replacement always brings a fresh object: an inode that is put back   *)
(* at the path it was taken from is not distinguished by the code either.  *)
(***************************************************************************)
EXTENDS Naturals, FiniteSets

CONSTANTS Makers,           \* threads that build and use one context each
          ContextKinds,     \* the kinds of contexts each thread builds
          MaxReplacements,  \* bound: objects ever created, packages and distributions together
          ManifestTexts,    \* contents a manifest may have
          MaxOwners         \* bound: contexts ever built

ASSUME PackageAssumption == /\ MaxReplacements \in Nat \ {0} /\ MaxOwners \in Nat
                            /\ ManifestTexts # {}
                            /\ ContextKinds \in [Makers -> SUBSET {"skill", "system", "embedded"}]

VARIABLES
    live,          \* the object at each path; 0 when there is none
    home,          \* home[f]: the directory object manifest object f lies in
    text,          \* what the manifest at its path says
    replaced,      \* package objects created so far
    fixedRoots,    \* identities the shared root set has fixed; 0 when unset
    nextOwner,     \* NEXT_MANAGED_RUNTIME_OWNER_TOKEN
    ownerStates,   \* MANAGED_RUNTIME_OWNER_STATES: registered owner tokens
    maker,         \* each thread's position and the context it builds or holds
    sawRoots       \* ghost: the distribution objects threads validated

packageVars == <<live, home, text, replaced, fixedRoots, nextOwner, ownerStates, maker, sawRoots>>

Places == {"root", "manifest", "distribution"}

\* No text: the package declares no dependency manifest.
NoText == "none"

\* What the package's first manifest says; the others may say the same.
FirstText == CHOOSE content \in ManifestTexts : TRUE

(***************************************************************************)
(* ManagedRuntimePackageContext: package_root_filesystem_identity, the     *)
(* manifest's identity, and the owner token (0 until built).  "captured"   *)
(* is the directory an embedded package was captured as before its         *)
(* manifest was read; "prepared" the text a skill's dependencies were      *)
(* prepared from; "first" the distribution object the thread saw itself;   *)
(* "retired" is the flag of the owner state, which lives as long as the    *)
(* context, and the ghost "asked" says that somebody retired the token.    *)
(***************************************************************************)
NoContext ==
    [pc |-> "none", kind |-> "skill", root |-> 0, manifest |-> 0, owner |-> 0,
     captured |-> 0, declares |-> TRUE, prepared |-> NoText, first |-> 0,
     after |-> "none", published |-> FALSE, retired |-> FALSE, asked |-> FALSE]

MakerSteps == {"none", "canonicalize", "roots", "distribution", "expected", "resolve",
          "load", "build", "recheck", "held", "root", "manifest", "validated"}

\* Returning an error: the half-built context and its owner state are dropped.
Dropped(m) == [maker EXCEPT ![m] = NoContext]

\* A validation that fails: a use keeps the context, a construction does not publish it.
UseRefused(m) ==
    IF maker[m].published
    THEN [maker EXCEPT ![m].pc = "held", ![m].after = "none", ![m].first = 0]
    ELSE Dropped(m)

MakerAt(m, step) == maker[m].pc = step
\* A construction that may still take an owner token.
Pending(m) == maker[m].pc # "none" /\ maker[m].owner = 0
Goes(m, step) == maker' = [maker EXCEPT ![m].pc = step]

\* The distribution directory was valid: the environment directory is looked
\* at last, and the caller goes on unless that was replaced.
DistributionPassed(m) ==
    maker' \in {[maker EXCEPT ![m].pc = maker[m].after, ![m].after = "none", ![m].first = 0],
               UseRefused(m)}

\* Any access to the file system, and reading or parsing a manifest, may fail;
\* the root set looks at the runtime directory, which may have been replaced,
\* before the distribution.
IoFails(m) ==
    /\ maker[m].pc \notin {"none", "distribution", "held", "validated"}
    /\ maker' = UseRefused(m)
    /\ UNCHANGED <<live, home, text, replaced, fixedRoots, nextOwner, ownerStates, sawRoots>>

------------------------------------------------------------------------------
(* The file system, changed by installers and updates outside these locks.  *)

Fresh == replaced + 1
MayReplace == replaced + live.distribution < MaxReplacements

ReplaceDirectory(content) ==
    /\ MayReplace
    /\ live' = [live EXCEPT !.root = Fresh, !.manifest = Fresh]
    /\ home' = [home EXCEPT ![Fresh] = Fresh]
    /\ text' = content
    /\ replaced' = Fresh
    /\ UNCHANGED <<fixedRoots, nextOwner, ownerStates, maker, sawRoots>>

RemoveDirectory ==
    /\ live.root # 0
    /\ live' = [live EXCEPT !.root = 0, !.manifest = 0]
    /\ text' = NoText
    /\ UNCHANGED <<home, replaced, fixedRoots, nextOwner, ownerStates, maker, sawRoots>>

ReplaceManifest(content) ==
    /\ live.root # 0 /\ MayReplace
    /\ live' = [live EXCEPT !.manifest = Fresh]
    /\ home' = [home EXCEPT ![Fresh] = live.root]
    /\ text' = content
    /\ replaced' = Fresh
    /\ UNCHANGED <<fixedRoots, nextOwner, ownerStates, maker, sawRoots>>

ReplaceDistribution ==
    /\ MayReplace
    /\ live' = [live EXCEPT !.distribution = @ + 1]
    /\ UNCHANGED <<home, text, replaced, fixedRoots, nextOwner, ownerStates, maker, sawRoots>>

------------------------------------------------------------------------------
(* ManagedRuntimeRoots.                                                      *)

\* A root set is made over an existing runtime directory and an environment
\* that is created if need be.  A distribution the host configured must exist;
\* the default one that does not exist yet stays open until it is first seen.
RootsNew(source, distribution) ==
    /\ source = "host" => distribution # 0
    /\ fixedRoots = distribution

\* validate_live_filesystem_identity of the root set: a fixed distribution
\* root must be the live object; an open one that exists is looked at first.
ValidateRoots(m) ==
    /\ MakerAt(m, "roots")
    /\ \/ /\ fixedRoots # 0 /\ live.distribution = fixedRoots
          /\ DistributionPassed(m)
          /\ sawRoots' = sawRoots \cup {live.distribution}
       \/ /\ fixedRoots # 0 /\ live.distribution # fixedRoots
          /\ maker' = UseRefused(m) /\ UNCHANGED sawRoots
       \/ /\ fixedRoots = 0 /\ live.distribution = 0
          /\ DistributionPassed(m) /\ UNCHANGED sawRoots
       \/ /\ fixedRoots = 0 /\ live.distribution # 0
          /\ maker' = [maker EXCEPT ![m].pc = "distribution",
                                    ![m].first = live.distribution]
          /\ UNCHANGED sawRoots
    /\ UNCHANGED <<live, home, text, replaced, fixedRoots, nextOwner, ownerStates>>

\* OnceLock::set: only the first thread's identity is kept.
FixDistribution(m) ==
    /\ MakerAt(m, "distribution")
    /\ fixedRoots' = IF fixedRoots = 0 THEN maker[m].first ELSE fixedRoots
    /\ Goes(m, "expected")
    /\ UNCHANGED <<live, home, text, replaced, nextOwner, ownerStates, sawRoots>>

\* Compared with the thread's own capture instead of the winner's.
ExpectedOwn(m) == maker[m].first

\* The identity the live object is compared with after the set.
Expected(m) == fixedRoots

ValidateExpected(m) ==
    /\ MakerAt(m, "expected")
    /\ IF live.distribution = Expected(m)
       THEN /\ DistributionPassed(m)
            /\ sawRoots' = sawRoots \cup {live.distribution}
       ELSE maker' = UseRefused(m) /\ UNCHANGED sawRoots
    /\ UNCHANGED <<live, home, text, replaced, fixedRoots, nextOwner, ownerStates>>

------------------------------------------------------------------------------
(* Building a context.                                                       *)

\* The call; a skill brings the manifest its dependencies were prepared from,
\* if it declares one, and the other kinds always name a manifest.
BeginContext(m, kind, declares) ==
    /\ MakerAt(m, "none") /\ nextOwner + Cardinality({n \in Makers : Pending(n)}) < MaxOwners
    /\ declares \/ kind = "skill"
    /\ kind = "skill" /\ declares => live.manifest # 0
    /\ maker' = [maker EXCEPT ![m] =
          [NoContext EXCEPT !.pc = "canonicalize", !.kind = kind, !.declares = declares,
              !.prepared = IF kind = "skill" /\ declares THEN text ELSE NoText]]
    /\ UNCHANGED <<live, home, text, replaced, fixedRoots, nextOwner, ownerStates, sawRoots>>

\* canonicalize_existing_directory; for_embedded_plugin_with_roots also
\* captures the directory's identity before it reads the manifest.
Canonicalize(m) ==
    /\ MakerAt(m, "canonicalize")
    /\ maker' = IF live.root = 0 THEN Dropped(m)
                ELSE [maker EXCEPT ![m].pc = "roots",
                        ![m].after = IF maker[m].declares THEN "resolve" ELSE "build",
                        ![m].captured = IF maker[m].kind = "embedded" THEN live.root ELSE 0]
    /\ UNCHANGED <<live, home, text, replaced, fixedRoots, nextOwner, ownerStates, sawRoots>>

\* resolve_existing_package_file: the manifest lies under the package root.
ResolveManifest(m) ==
    /\ MakerAt(m, "resolve")
    /\ maker' = IF live.manifest = 0 THEN Dropped(m) ELSE [maker EXCEPT ![m].pc = "load"]
    /\ UNCHANGED <<live, home, text, replaced, fixedRoots, nextOwner, ownerStates, sawRoots>>

\* load_managed_dependency_manifest_from_fixed_object: content and identity
\* come from one open handle, so they are one object.  A skill's manifest must
\* still say what its dependencies were prepared from.
LoadManifest(m) ==
    /\ MakerAt(m, "load")
    /\ maker' = IF \/ live.manifest = 0
                   \/ maker[m].kind = "skill" /\ text # maker[m].prepared
                THEN Dropped(m)
                ELSE [maker EXCEPT ![m].pc = "build", ![m].manifest = live.manifest,
                                   ![m].prepared = NoText]
    /\ UNCHANGED <<live, home, text, replaced, fixedRoots, nextOwner, ownerStates, sawRoots>>

\* Owner states still referenced by a context.
LiveOwners == {maker[m].owner : m \in Makers} \ {0}

\* register_managed_runtime_owner_state prunes what nobody references.
Registered(token) == (ownerStates \cap LiveOwners) \cup {token}

\* build: the directory's identity, a fresh owner token, its registered state.
\* A lease or skill context is published at once; an embedded one is rechecked.
Build(m) ==
    /\ MakerAt(m, "build")
    /\ IF live.root = 0
       THEN maker' = Dropped(m) /\ UNCHANGED <<nextOwner, ownerStates>>
       ELSE /\ nextOwner' = nextOwner + 1
            /\ ownerStates' = Registered(nextOwner + 1)
            /\ maker' = [maker EXCEPT
                            ![m].root = live.root, ![m].owner = nextOwner + 1,
                            ![m].published = maker[m].kind # "embedded",
                            ![m].pc = IF maker[m].kind = "embedded" THEN "recheck" ELSE "held"]
    /\ UNCHANGED <<live, home, text, replaced, fixedRoots, sawRoots>>

\* validate_managed_directory_identity against the directory captured first.
Unmoved(m) == live.root = maker[m].captured

Recheck(m) ==
    /\ MakerAt(m, "recheck")
    /\ maker' = IF Unmoved(m) THEN [maker EXCEPT ![m].pc = "root"] ELSE Dropped(m)
    /\ UNCHANGED <<live, home, text, replaced, fixedRoots, nextOwner, ownerStates, sawRoots>>

------------------------------------------------------------------------------
(* Using a context: validate_live_filesystem_identity, root, roots, manifest. *)

BeginUse(m) ==
    /\ maker[m].pc \in {"held", "validated"}
    /\ Goes(m, "root")
    /\ UNCHANGED <<live, home, text, replaced, fixedRoots, nextOwner, ownerStates, sawRoots>>

\* validate_unchanged_filesystem_identity, first of the package directory.
ValidateDirectory(m) ==
    /\ MakerAt(m, "root")
    /\ maker' = IF live.root = maker[m].root
                THEN [maker EXCEPT ![m].pc = "roots", ![m].after = "manifest"]
                ELSE UseRefused(m)
    /\ UNCHANGED <<live, home, text, replaced, fixedRoots, nextOwner, ownerStates, sawRoots>>

\* The live manifest, if one is declared, must be the object the context was built from.
SameManifest(m) == maker[m].declares => live.manifest = maker[m].manifest

\* ... and last of the manifest: the use goes on, the embedded context is published.
ValidateManifest(m) ==
    /\ MakerAt(m, "manifest")
    /\ maker' = IF SameManifest(m)
                THEN [maker EXCEPT ![m].pc = "validated", ![m].published = TRUE]
                ELSE UseRefused(m)
    /\ UNCHANGED <<live, home, text, replaced, fixedRoots, nextOwner, ownerStates, sawRoots>>

\* The last reference to the context goes: its owner state can no longer be upgraded.
DropContext(m) ==
    /\ maker[m].pc \in {"held", "validated"}
    /\ maker' = Dropped(m)
    /\ UNCHANGED <<live, home, text, replaced, fixedRoots, nextOwner, ownerStates, sawRoots>>

\* retire_managed_runtime_owner_state: prune, then upgrade the weak state.
RetireOwner(token) ==
    /\ token \in 1..nextOwner
    /\ ownerStates' = ownerStates \cap LiveOwners
    /\ maker' = [m \in Makers |->
                   IF maker[m].owner # token THEN maker[m]
                   ELSE [maker[m] EXCEPT !.asked = TRUE,
                           !.retired = @ \/ token \in ownerStates \cap LiveOwners]]
    /\ UNCHANGED <<live, home, text, replaced, fixedRoots, nextOwner, sawRoots>>

------------------------------------------------------------------------------

PackageInit ==
    /\ \E source \in {"host", "default"}, distribution \in {0, 1} :
          /\ RootsNew(source, distribution)
          /\ live = [root |-> 1, manifest |-> 1, distribution |-> distribution]
    /\ home = [f \in 1..MaxReplacements |-> IF f = 1 THEN 1 ELSE 0]
    /\ text = FirstText
    /\ replaced = 1
    /\ nextOwner = 0
    /\ ownerStates = {}
    /\ maker = [m \in Makers |-> NoContext]
    /\ sawRoots = {}

MakerStep(m) ==
    \/ \E kind \in ContextKinds[m], declares \in BOOLEAN : BeginContext(m, kind, declares)
    \/ Canonicalize(m) \/ ValidateRoots(m) \/ FixDistribution(m) \/ ValidateExpected(m)
    \/ ResolveManifest(m) \/ LoadManifest(m) \/ Build(m) \/ Recheck(m)
    \/ BeginUse(m) \/ ValidateDirectory(m) \/ ValidateManifest(m) \/ DropContext(m)
    \/ IoFails(m)

PackageNext ==
    \/ \E content \in ManifestTexts : ReplaceDirectory(content) \/ ReplaceManifest(content)
    \/ RemoveDirectory \/ ReplaceDistribution
    \/ \E m \in Makers : MakerStep(m)
    \/ \E token \in 1..MaxOwners : RetireOwner(token)

------------------------------------------------------------------------------

\* Type invariant.
PackageTypeOK ==
    /\ live \in [Places -> 0..MaxReplacements]
    /\ home \in [1..MaxReplacements -> 0..MaxReplacements]
    /\ text \in ManifestTexts \cup {NoText}
    /\ replaced \in 0..MaxReplacements
    /\ fixedRoots \in 0..MaxReplacements
    /\ nextOwner \in 0..MaxOwners
    /\ ownerStates \subseteq 1..MaxOwners
    /\ \A m \in Makers : maker[m].pc \in MakerSteps /\ maker[m].kind \in ContextKinds[m] \cup {"skill"}

\* A use that passed its three checks, one after another while packages were
\* being replaced, holds a manifest that lies in the directory the context is
\* bound to; an embedded context never becomes visible with another pairing,
\* nor with a directory other than the one captured before its manifest was read.
PairingSound ==
    \A m \in Makers :
        /\ MakerAt(m, "validated") /\ maker[m].declares => home[maker[m].manifest] = maker[m].root
        /\ maker[m].published /\ maker[m].kind = "embedded" =>
              /\ home[maker[m].manifest] = maker[m].root
              /\ maker[m].root = maker[m].captured

\* All threads that ever validated the distribution directory validated one
\* object, though each may have been the first to see it.
OneDistribution == sawRoots \subseteq {fixedRoots}

\* A live context can be retired by its token, and whoever asked for it while
\* the context was alive is seen by every holder of the owner state.
RetirementReaches ==
    \A m \in Makers : maker[m].owner # 0 =>
        /\ maker[m].owner \in ownerStates
        /\ maker[m].asked => maker[m].retired

\* The authority a package runs under is what its context recorded.
AuthoritySound == PairingSound /\ OneDistribution /\ RetirementReaches
=============================================================================
