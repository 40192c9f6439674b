--------------------------- MODULE ReleasePipeline ---------------------------
(***************************************************************************)
(* How a version of the SDK gets to the package index: auto-release.yml    *)
(* tags a new version on main and dispatches release.yml, which builds the *)
(* tag, checks it (scripts/check_version.py, scripts/check_dist.py) and    *)
(* publishes it.  People push commits and tags, dispatch the release and   *)
(* rerun what failed, at any moment; every step on GitHub may fail.        *)
(*                                                                         *)
(* A definition marked "fault" is a wrong variant of the one that follows  *)
(* it; nothing uses it (README, "Faults").                                 *)
(***************************************************************************)
EXTENDS Naturals, Sequences

CONSTANTS
    Versions,       \* the versions the package may have
    Dists,          \* what a build may leave in dist/, see DistKinds
    MaxCommits,     \* bound: commits on main
    MaxManual,      \* bound: tags and dispatches by people, and reruns
    NotPublished

\* dist/ as check_dist.py sees it: the artifacts, and what is wrong inside.
DistKinds ==
    [artifacts : SUBSET {"wheel", "second wheel", "sdist", "other"},
     wrong : SUBSET {"blocked name", "file missing", "top level", "no license",
                     "no fixture"}]

ASSUME ReleaseAssumption ==
    /\ Versions \subseteq Nat \ {0} /\ Dists \subseteq DistKinds
    /\ MaxCommits \in Nat /\ MaxManual \in Nat
    /\ NotPublished \notin [commit : Nat, dist : Dists]

VARIABLES
    main,       \* the commits: their version, what check_version.py reads of
                \* it, and the state of the release-relevant files
    tags,       \* the commit tagged v + version, 0 for none
    pending, running, step,     \* the concurrency group of auto-release.yml
    green,      \* the commits whose last run passed
    releases,   \* the runs of release.yml
    index,      \* the package index
    manual

vars == <<main, tags, pending, running, step, green, releases, index, manual>>
group == <<pending, running, step>>

NoTag == 0      \* check_version.py without its argument
Commits == 1..Len(main)
Version(c) == main[c].version

Init ==
    /\ main = << >> /\ tags = [v \in Versions |-> 0]
    /\ pending = 0 /\ running = 0 /\ step = "none" /\ green = {}
    /\ releases = {} /\ index = [v \in Versions |-> NotPublished] /\ manual = 0

-----------------------------------------------------------------------------
\* check_version.py: the version of setup.cfg and that of kanopy.__version__ as
\* literals.  Two that are no literals agree, but match no tag.
VersionsAgreeOnly(c, tag) == main[c].literal # "differs"          \* fault
CheckVersion(c, tag) ==
    /\ main[c].literal # "differs"
    /\ tag # NoTag => main[c].literal = "agrees" /\ tag = Version(c)

\* check_dist.py
CheckDist(d) == d.artifacts = {"wheel", "sdist"} /\ d.wrong = {}

-----------------------------------------------------------------------------
\* External: a push to main; the group keeps the newest waiting run only.
Push ==
    /\ Len(main) < MaxCommits
    /\ \E v \in Versions, l \in {"agrees", "differs", "no_literal"}, f \in BOOLEAN :
        LET same == ~f /\ main # << >> /\ main[Len(main)].version = v
                       /\ main[Len(main)].literal = l
        IN main' = Append(main,
                     [version |-> v, literal |-> l,
                      files |-> IF same THEN main[Len(main)].files ELSE Len(main) + 1])
    /\ pending' = Len(main')
    /\ UNCHANGED <<tags, running, step, green, releases, index, manual>>

\* External: a person reruns a run that is over or was replaced, or pushes a tag, which starts
\* release.yml, or dispatches release.yml on a tag.
Manual == manual < MaxManual /\ manual' = manual + 1

Rerun(c) ==
    /\ Manual /\ c \notin {running, pending}
    /\ pending' = c
    /\ UNCHANGED <<main, tags, running, step, green, releases, index>>

NoDist == [artifacts |-> {}, wrong |-> {}]
ReleaseRun(v) == [tag |-> v, dist |-> NoDist, phase |-> "build"]

PushTag(v, c) ==
    /\ Manual /\ tags[v] = 0
    /\ tags' = [tags EXCEPT ![v] = c] /\ releases' = releases \cup {ReleaseRun(v)}
    /\ UNCHANGED <<main, group, green, index>>

DispatchAgain(v) ==
    /\ Manual /\ tags[v] # 0
    /\ releases' = releases \cup {ReleaseRun(v)}
    /\ UNCHANGED <<main, tags, group, green, index>>

-----------------------------------------------------------------------------
\* auto-release.yml

StartKeepingPending == UNCHANGED pending            \* fault
TakePending == pending' = 0

StartRun ==
    /\ running = 0 /\ pending # 0
    /\ running' = pending /\ step' = "find" /\ TakePending
    /\ UNCHANGED <<main, tags, green, releases, index, manual>>

Ends(passed) ==
    /\ running' = 0 /\ step' = "none"
    /\ green' = IF passed THEN green \cup {running} ELSE green \ {running}

\* git diff of the release-relevant files against the tag of this version
NoDiff(c) == TRUE                                   \* fault
Unchanged(c) == main[tags[Version(c)]].files = main[c].files

FindVersion ==
    /\ step = "find"
    /\ \/ CheckVersion(running, NoTag) /\ tags[Version(running)] = 0
          /\ step' = "tag" /\ UNCHANGED <<running, green>>
       \/ CheckVersion(running, NoTag) /\ tags[Version(running)] # 0
          /\ Ends(Unchanged(running))
       \/ Ends(FALSE)
    /\ UNCHANGED <<main, tags, pending, releases, index, manual>>

\* The ref is created at GITHUB_SHA, unless somebody created it meanwhile.
CreateTag ==
    /\ step = "tag"
    /\ \/ /\ tags[Version(running)] = 0
          /\ tags' = [tags EXCEPT ![Version(running)] = running]
          /\ \/ step' = "dispatch" /\ UNCHANGED <<running, green>>
             \/ Ends(FALSE)
       \/ Ends(FALSE) /\ UNCHANGED tags
    /\ UNCHANGED <<main, pending, releases, index, manual>>

Dispatch ==
    /\ step = "dispatch"
    /\ \/ /\ releases' = releases \cup {ReleaseRun(Version(running))}
          /\ \E answered \in BOOLEAN : Ends(answered)
       \/ Ends(FALSE) /\ UNCHANGED releases
    /\ UNCHANGED <<main, tags, pending, index, manual>>

-----------------------------------------------------------------------------
\* release.yml, on the commit its tag names.

Becomes(r, S) == releases' = (releases \ {r}) \cup S

Build(r) ==
    /\ r.phase = "build"
    /\ \/ \E d \in Dists :
            /\ CheckVersion(tags[r.tag], r.tag) /\ CheckDist(d)
            /\ Becomes(r, {[r EXCEPT !.dist = d, !.phase = "publish"]})
       \/ Becomes(r, {})
    /\ UNCHANGED <<main, tags, group, green, index, manual>>

\* External: the index takes a version once, under the version in the package.
Publish(r) ==
    /\ r.phase = "publish"
    /\ LET v == Version(tags[r.tag]) IN
        \/ /\ index[v] = NotPublished
           /\ index' = [index EXCEPT ![v] = [commit |-> tags[r.tag], dist |-> r.dist]]
        \/ UNCHANGED index
    /\ Becomes(r, {})
    /\ UNCHANGED <<main, tags, group, green, manual>>

Idle == running = 0 /\ pending = 0 /\ releases = {} /\ UNCHANGED vars

Next ==
    \/ Push \/ StartRun \/ FindVersion \/ CreateTag \/ Dispatch \/ Idle
    \/ \E c \in Commits : Rerun(c) \/ \E v \in Versions : PushTag(v, c)
    \/ \E v \in Versions : DispatchAgain(v)
    \/ \E r \in releases : Build(r) \/ Publish(r)

Spec == Init /\ [][Next]_vars

-----------------------------------------------------------------------------
\* Every variable has the shape the workflows give it; a run waits or runs.
TypeOK ==
    /\ \A c \in Commits : Version(c) \in Versions /\ main[c].files \in 1..c
    /\ tags \in [Versions -> 0..Len(main)]
    /\ pending \in 0..Len(main) /\ running \in 0..Len(main)
    /\ running # 0 => pending # running
    /\ step \in {"none", "find", "tag", "dispatch"} /\ (step = "none" <=> running = 0)
    /\ green \subseteq Commits
    /\ \A r \in releases : r.tag \in Versions /\ tags[r.tag] # 0
    /\ manual \in 0..MaxManual

\* release.yml 27-31: whoever pushed the tag or dispatched the release, what the
\* index has under a version was built from the commit tagged with that version,
\* says that version itself, and passed the check of its contents.
PublishedMatchesTag ==
    \A v \in Versions : index[v] # NotPublished =>
        /\ index[v].commit = tags[v]
        /\ Version(tags[v]) = v /\ main[tags[v]].literal = "agrees"
        /\ CheckDist(index[v].dist)

\* auto-release.yml 40-50: a run that passes leaves nothing unreleased behind
\* unnoticed: the version of its commit is tagged, and the tag has the same
\* release-relevant files.
GreenMeansTagged ==
    \A c \in green :
        /\ tags[Version(c)] # 0
        /\ main[tags[Version(c)]].files = main[c].files
=============================================================================
