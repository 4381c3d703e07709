----------------------------- MODULE SkillSources -----------------------------
(***************************************************************************)
(* Where a skill package comes from (skill/manager.rs, skill/resolver.rs,  *)
(* download/manager.rs, package/mod.rs): a GitHub release, the official    *)
(* hub or a private manifest is resolved to a version, a checksum and a    *)
(* platform; the archive is taken from a cache that is keyed by version    *)
(* only, verified, unpacked, compared with what was resolved, and recorded *)
(* with its source.                                                        *)
(*                                                                         *)
(* One skill in one root.  An archive is its version and platform marker,  *)
(* and its checksum is the archive itself.  What a source offers may       *)
(* change between any two requests, with or without a new version.         *)
(* Publishing, rolling back and reloading are SkillLifecycle.              *)
(***************************************************************************)
EXTENDS Naturals

CONSTANTS SkillArchives,   \* archives anybody can offer: [version, platform]
          PrivateOrigins,  \* manifest addresses outside GitHub and the hub
          Allowlist,       \* the ones the host allows
          MaxApplies,      \* bound: installs, updates and checks
          MaxOtherFetches  \* bound: downloads of other engines

ASSUME SourcesAssumption ==
  /\ SkillArchives \subseteq [version : Nat \ {0}, platform : {"none", "mine", "other"}]
  /\ Allowlist \subseteq PrivateOrigins /\ {"github", "hub", "url"} \cap PrivateOrigins = {}
  /\ MaxApplies \in Nat /\ MaxOtherFetches \in Nat

VARIABLES
  sourcePackage, \* the installed package directory
  sourceRecord,  \* its install record, with what a property must remember
  sumsCache,     \* cached checksum file of every GitHub tag
  skillArchive,  \* cached archive of every version
  apply,         \* the install or update under way
  applies,       \* requests so far
  otherFetches   \* downloads of other engines so far

sourceVars == <<sourcePackage, sourceRecord, sumsCache, skillArchive, apply, applies, otherFetches>>

Origins == {"github", "hub"} \cup PrivateOrigins
ReleaseVersions == {a.version : a \in SkillArchives}
NoArchive == [version |-> 0, platform |-> "none"]

\* What a checksum file or a manifest lists: an archive, and the platform its
\* package must carry ("any" when the manifest declares no layout).
Selections == {"any", "none", "mine"}
NoListing == [archive |-> NoArchive, selects |-> "any"]
Listings == [archive : SkillArchives, selects : Selections]

NoRecord == [version |-> 0, source |-> "url", plane |-> "System", listed |-> NoArchive,
             raced |-> FALSE, highest |-> 0]
NoApply == [pc |-> "idle", kind |-> "none", plane |-> "System", source |-> "url",
            version |-> 0, listing |-> NoListing, raced |-> FALSE]

\* Nothing, a package put there by hand, or one whose record names a public
\* URL, a source earlier releases accepted.
SourcesInit ==
  /\ \E a \in SkillArchives :
       \/ sourcePackage = NoArchive /\ sourceRecord = NoRecord
       \/ sourcePackage = a /\ sourceRecord = NoRecord
       \/ sourcePackage = a /\ sourceRecord = [NoRecord EXCEPT !.version = a.version, !.listed = a]
  /\ sumsCache = [v \in ReleaseVersions |-> NoListing]
  /\ skillArchive = [v \in ReleaseVersions |-> NoArchive]
  /\ apply = NoApply /\ applies = 0 /\ otherFetches = 0

Managed == sourceRecord # NoRecord

-----------------------------------------------------------------------------
\* Resolving a source

is_allowed_private_source_url(s) == s \in Allowlist

\* ensure_private_url_manifest_allowed
Permitted(plane, s) ==
  s \in PrivateOrigins => plane = "System" /\ is_allowed_private_source_url(s)

\* PackageIndex::select, or the standard package of a release without an
\* index: a release with neither is refused.
GithubSelections == {"none", "mine"}

\* expected_package_platform: a manifest for another platform is refused.
ManifestSelections == Selections

\* The checksum file is fetched once per tag and then read from the cache.
checksum_text(v, listing) == IF sumsCache[v] = NoListing THEN listing ELSE sumsCache[v]

\* Every sum comes from the checksum file, the index must be the one it lists,
\* and the digest the release reports, when it has one, must agree.
GithubResolves(v, listing, digest) ==
  LET file == checksum_text(v, listing)
  IN file.selects = listing.selects /\ (digest => file.archive = listing.archive)

\* A manifest is fetched anew; the archive of a private one must be at an
\* allowed address too.
ManifestResolves(s, at) == s \in PrivateOrigins => is_allowed_private_source_url(at)

ShouldApplyReplacing(replacing, latest) == replacing \/ latest > sourceRecord.version
should_apply(replacing, latest) ==
  IF replacing THEN latest >= sourceRecord.version ELSE latest > sourceRecord.version

Requested == apply.pc = "idle" /\ applies < MaxApplies /\ applies' = applies + 1
Resolved(kind, plane, s, v, listing) ==
  [pc |-> "resolved", kind |-> kind, plane |-> plane, source |-> s, version |-> v,
   listing |-> listing, raced |-> FALSE]

\* The release, whether or not the request goes on.
FromGithub(kind, plane, applicable) ==
  \E v \in ReleaseVersions, listing \in Listings, digest \in BOOLEAN :
    /\ listing.selects \in GithubSelections
    /\ sumsCache' = [sumsCache EXCEPT ![v] = checksum_text(v, listing)]
    /\ apply' = IF GithubResolves(v, listing, digest) /\ v \in applicable
                THEN Resolved(kind, plane, "github", v, checksum_text(v, listing))
                ELSE NoApply

FromManifest(kind, plane, s, applicable) ==
  /\ \E v \in ReleaseVersions, listing \in Listings, at \in PrivateOrigins :
       /\ listing.selects \in ManifestSelections
       /\ apply' = IF ManifestResolves(s, at) /\ v \in applicable
                   THEN Resolved(kind, plane, s, v, listing) ELSE NoApply
  /\ UNCHANGED sumsCache

UnlessOlder == {v \in ReleaseVersions : should_apply(TRUE, v)}
OnlyNewer == {v \in ReleaseVersions : should_apply(FALSE, v)}
SourceRest == UNCHANGED <<sourcePackage, sourceRecord, skillArchive, otherFetches>>

InstallFromGithub(plane) ==
  /\ Requested /\ sourcePackage = NoArchive
  /\ FromGithub("install", plane, ReleaseVersions) /\ SourceRest
InstallFromManifest(plane, s) ==
  /\ Requested /\ sourcePackage = NoArchive /\ s # "github" /\ Permitted(plane, s)
  /\ FromManifest("install", plane, s, ReleaseVersions) /\ SourceRest

\* An update needs a record, and asks its source.  A record of a public URL is
\* not updated.
UpdateFromGithub(plane) ==
  /\ Requested /\ sourcePackage # NoArchive /\ Managed /\ sourceRecord.source = "github"
  /\ FromGithub("update", plane, OnlyNewer) /\ SourceRest
UpdateFromManifest(plane) ==
  /\ Requested /\ sourcePackage # NoArchive /\ Managed
  /\ sourceRecord.source \in Origins \ {"github"} /\ Permitted(plane, sourceRecord.source)
  /\ FromManifest("update", plane, sourceRecord.source, OnlyNewer) /\ SourceRest

\* An update that replaces the source of the record, whatever it was.
ReplaceSource(plane, s) ==
  /\ Requested /\ sourcePackage # NoArchive /\ Managed /\ Permitted(plane, s)
  /\ IF s = "github" THEN FromGithub("update", plane, UnlessOlder)
     ELSE FromManifest("update", plane, s, UnlessOlder)
  /\ SourceRest

\* check_skill_updates resolves and reports; only the checksum file it cached
\* remains.
CheckUpdate ==
  /\ Requested /\ Managed /\ sourceRecord.source = "github"
  /\ \E v \in ReleaseVersions, listing \in Listings :
       /\ listing.selects \in GithubSelections
       /\ sumsCache' = [sumsCache EXCEPT ![v] = checksum_text(v, listing)]
  /\ UNCHANGED apply /\ SourceRest

-----------------------------------------------------------------------------
\* Downloading and unpacking

\* A payload that is not the expected one is not published.
FetchedUnverified(expected) == SkillArchives
Fetched(expected) == {expected}

\* download_with_sha256: the file under the key of the version, if it is the
\* expected one, else a new download; the old file stays when that fails.
DownloadArchive ==
  /\ apply.pc = "resolved"
  /\ \/ /\ skillArchive[apply.version] = apply.listing.archive
        /\ apply' = [apply EXCEPT !.pc = "fetched"]
        /\ UNCHANGED skillArchive
     \/ /\ skillArchive[apply.version] # apply.listing.archive
        /\ \E got \in Fetched(apply.listing.archive) :
             skillArchive' = [skillArchive EXCEPT ![apply.version] = got]
        /\ apply' = [apply EXCEPT !.pc = "fetched"]
     \/ /\ skillArchive[apply.version] # apply.listing.archive
        /\ apply' = NoApply
        /\ UNCHANGED skillArchive
  /\ UNCHANGED <<sourcePackage, sourceRecord, sumsCache, applies, otherFetches>>

\* Another engine with the same cache root puts its own archive of the same
\* version there.  The path was returned and the target lock released, so this
\* may come between the verification and the unpacking.
OtherEngineFetches(v, archive) ==
  /\ otherFetches < MaxOtherFetches /\ skillArchive[v] # archive
  /\ skillArchive' = [skillArchive EXCEPT ![v] = archive]
  /\ otherFetches' = otherFetches + 1
  /\ apply' = [apply EXCEPT !.raced = @ \/ (apply.pc = "fetched" /\ apply.version = v)]
  /\ UNCHANGED <<sourcePackage, sourceRecord, sumsCache, applies>>

\* verify_package_platform
PlatformFits(archive, selects) ==
  /\ archive.platform \in {"none", "mine"}
  /\ selects # "any" => archive.platform = selects

\* stage_skill_install_from_archive and stage_skill_update_from_archive, with
\* the commit that follows: the manifest inside must be of the resolved version.
StageArchive ==
  LET archive == skillArchive[apply.version]
      earlier == IF sourceRecord.highest > sourceRecord.version THEN sourceRecord.highest
                 ELSE sourceRecord.version
  IN /\ apply.pc = "fetched"
     /\ IF archive.version = apply.version /\ PlatformFits(archive, apply.listing.selects)
        THEN /\ sourcePackage' = archive
             /\ sourceRecord' = [version |-> apply.version, source |-> apply.source,
                                 plane |-> apply.plane, listed |-> apply.listing.archive,
                                 raced |-> apply.raced, highest |-> earlier]
        ELSE UNCHANGED <<sourcePackage, sourceRecord>>
     /\ apply' = NoApply
     /\ UNCHANGED <<sumsCache, skillArchive, applies, otherFetches>>

\* The package and its record go together.
RemoveSkill ==
  /\ apply.pc = "idle" /\ sourcePackage # NoArchive
  /\ sourcePackage' = NoArchive /\ sourceRecord' = NoRecord
  /\ UNCHANGED <<sumsCache, skillArchive, apply, applies, otherFetches>>

SourcesNext ==
  \/ \E plane \in {"System", "Skills"} :
       \/ InstallFromGithub(plane) \/ UpdateFromGithub(plane) \/ UpdateFromManifest(plane)
       \/ \E s \in Origins : InstallFromManifest(plane, s) \/ ReplaceSource(plane, s)
  \/ CheckUpdate \/ DownloadArchive \/ StageArchive \/ RemoveSkill
  \/ \E v \in ReleaseVersions, a \in SkillArchives : OtherEngineFetches(v, a)

-----------------------------------------------------------------------------
\* The variables keep their types.
SourcesTypeOK ==
  /\ sourcePackage \in SkillArchives \cup {NoArchive}
  /\ sumsCache \in [ReleaseVersions -> Listings \cup {NoListing}]
  /\ skillArchive \in [ReleaseVersions -> SkillArchives \cup {NoArchive}]
  /\ apply.pc \in {"idle", "resolved", "fetched"}
  /\ applies \in 0..MaxApplies /\ otherFetches \in 0..MaxOtherFetches

\* The record of an installed skill tells the truth about the package beside
\* it: same version, a platform this runtime has, and, unless another engine
\* exchanged the cached file after it was verified, the very archive the
\* recorded source listed for that version, though caches are shared between
\* sources.  A private source was allowed and asked for by the system plane,
\* and no update ever went back to an older version.
RecordTellsTruth ==
  Managed /\ sourceRecord.source # "url" =>
    /\ sourcePackage.version = sourceRecord.version
    /\ sourcePackage.platform \in {"none", "mine"}
    /\ ~sourceRecord.raced => sourcePackage = sourceRecord.listed
    /\ sourceRecord.source \in PrivateOrigins =>
         sourceRecord.plane = "System" /\ sourceRecord.source \in Allowlist
    /\ sourceRecord.version >= sourceRecord.highest
=============================================================================
