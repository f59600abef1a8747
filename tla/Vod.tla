--------------------------------- MODULE Vod ---------------------------------
(***************************************************************************)
(* `--vod`: one crawl of a playlist or MPD tree.  The variants of a ladder *)
(* are range-probed concurrently and their answers collected in the order  *)
(* of arrival; of a media playlist the last segment is probed.             *)
(***************************************************************************)
EXTENDS Naturals, Sequences, FiniteSets, SequencesExt

CONSTANTS
    VodConcurrency, \* AUDIT_CONCURRENCY
    Trees           \* trees the crawl may find, a subset of AllTrees

VARIABLES
    tree,       \* the asset
    crawled,    \* its playlist or MPD was fetched and understood
    answered,   \* probed urls in the order of their answers
    crawl       \* NoCrawl, or the verdict

vodVars == <<tree, crawled, answered, crawl>>

NoCrawl == [exit |-> "none"]
Cdns == {"a", "b"}

(***************************************************************************)
(* warnings: about the ABR ladder, each of 3 to 5 points, penalty in all;  *)
(* codecs: how many families it mixes; uniform: the durations of a media   *)
(* playlist agree.                                                         *)
(* probes: for each variant, or the one segment, the CDN of an answer with *)
(* status 200 or 206, or "failed".                                         *)
(***************************************************************************)
AllTrees ==
    {t \in [kind : {"unreachable", "garbled", "ladder", "media"},
            warnings : Nat, penalty : Nat, codecs : Nat, uniform : BOOLEAN,
            probes : Seq(Cdns \union {"failed"})] :
        /\ t.penalty \in 3 * t.warnings .. 5 * t.warnings
        /\ t.kind = "media" => Len(t.probes) <= 1}

Urls == DOMAIN tree.probes

Sub(score, penalty) == IF score > penalty THEN score - penalty ELSE 0   \* saturating_sub

(* Each warning takes off the penalty of all of them, capped at 10. *)
LadderScore(t) ==
    LET score == Sub(100, t.warnings * (IF t.penalty > 10 THEN 10 ELSE t.penalty))
    IN IF t.codecs > 2 THEN Sub(score, 8) ELSE score

Validated(t) ==
    [score  |-> IF t.kind = "ladder" THEN LadderScore(t)
                ELSE IF t.uniform \/ t.probes = <<>> THEN 100 ELSE 95,
     errors |-> IF t.probes # <<>> THEN 0
                ELSE IF t.kind = "ladder" THEN 1
                ELSE 2]     \* "Empty media playlist", then "no segments"

ProbePenalty(t) == IF t.kind = "ladder" THEN 15 ELSE 20

(* Each failure is an error and costs points; the first answer gives the   *)
(* CDN badge, and a later one that names another is an issue.              *)
Collected(t, order) ==
    LET answers == {i \in DOMAIN order : t.probes[order[i]] # "failed"}
        failed  == Cardinality(DOMAIN order \ answers)
        badges  == {t.probes[order[i]] : i \in {i \in answers : \A j \in answers : i <= j}}
    IN [score  |-> Sub(Validated(t).score, failed * ProbePenalty(t)),
        errors |-> Validated(t).errors + failed,
        saw    |-> answers # {},
        badges |-> badges,
        mixed  |-> \E i \in answers : t.probes[order[i]] \notin badges]

\* Variant: errors only cost points.
VodPassesOnScore(r) == r.saw /\ r.score >= 70

VodPasses(r) == r.saw /\ r.errors = 0 /\ r.score >= 70
StatusLabel(r) == IF r.errors > 0 THEN "ERROR" ELSE IF r.score < 85 THEN "DEGRADED" ELSE "VOD"

(* The manifest.  An error of its fetch or its parse is run_vod's own. *)
Crawl ==
    /\ ~crawled /\ crawl = NoCrawl
    /\ IF tree.kind \in {"unreachable", "garbled"}
       THEN crawl' = [exit |-> "error"] /\ UNCHANGED crawled
       ELSE crawled' = TRUE /\ UNCHANGED crawl
    /\ UNCHANGED <<tree, answered>>

ProbeAnswers(url) ==
    /\ crawled /\ url \notin ToSet(answered)
    /\ url <= Len(answered) + VodConcurrency
    /\ answered' = Append(answered, url)
    /\ UNCHANGED <<tree, crawled, crawl>>

Conclude ==
    /\ crawled /\ crawl = NoCrawl /\ ToSet(answered) = Urls
    /\ LET r == Collected(tree, answered) IN
       crawl' = [exit |-> IF VodPasses(r) THEN "0" ELSE "1", status |-> StatusLabel(r), report |-> r]
    /\ UNCHANGED <<tree, crawled, answered>>

VodInit(trees) == tree \in trees /\ crawled = FALSE /\ answered = <<>> /\ crawl = NoCrawl

VodNext == Crawl \/ (\E url \in Urls : ProbeAnswers(url)) \/ Conclude
=============================================================================
