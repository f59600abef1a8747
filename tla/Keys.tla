-------------------------------- MODULE Keys --------------------------------
(***************************************************************************)
(* Keys, licences and names that a poll loop asks others for and keeps:    *)
(*   aes128_probe.rs       the cache of AES-128 keys and the IV            *)
(*   linter.rs             scan_drm_keys                                   *)
(*   poller/hls_poll.rs    announce_drm_and_renditions                     *)
(*   poller/mod.rs         probe_drm_license                               *)
(*   poller/http.rs        apply_doh_timing                                *)
(* Operators on the records the loop keeps.  A cache is a set of entries   *)
(* [uri, key, at]; times are whole seconds; an Option is a set of at most  *)
(* one element.                                                            *)
(***************************************************************************)
EXTENDS Naturals, Sequences, FiniteSets

KeyBytes == 16

-----------------------------------------------------------------------------
(* The key cache *)

\* Variant: an entry is good for one second more.
PruneLate(cache, now, ttl) == {e \in cache : now - e.at <= ttl}

\* prune_expired: an entry lives less than ttl seconds.
Prune(cache, now, ttl) == {e \in cache : now - e.at < ttl}

\* Aes128KeyCache::get, after its prune.
Lookup(cache, uri) == {e.key : e \in {x \in cache : x.uri = uri}}

\* Aes128KeyCache::insert: a full cache gives up the entry its hash map happens
\* to list first, even when the new key replaces one that is there.
Insert(cache, uri, key, now, ttl, max) ==
  LET live == Prune(cache, now, ttl)
      Put(c) == {e \in c : e.uri # uri} \cup {[uri |-> uri, key |-> key, at |-> now]}
  IN  IF Cardinality(live) < max THEN {Put(live)}
      ELSE {Put(live \ {old}) : old \in live}

\* fetch_aes128_key: what the answer of the key server is worth.  The status of
\* the answer is not looked at, its length is.
KeyOf(answer) == IF answer.bytes = KeyBytes THEN {answer.key} ELSE {}

\* derive_iv: the sequence number stands in for a missing IV.
DeriveIv(seq, explicit) == IF explicit # {} THEN explicit ELSE {seq}

\* decrypt_aes128_cbc_probe: the bytes come out when they are whole blocks, the
\* key is the one they were encrypted with, and the padding at their end is that
\* of the segment.  Another IV spoils the first block only, with the sync byte
\* of the first packet.
Decrypts(seg, key) == seg.blocks /\ seg.whole /\ seg.key = key
StartsPlain(seg, iv) == {seg.iv} = iv

-----------------------------------------------------------------------------
(* What a playlist says of its encryption *)

NoDrm == [present |-> FALSE, method |-> "none", format |-> "none", uri |-> {}, iv |-> {}]

\* scan_drm_keys: the first EXT-X-KEY decides, the keys after it are not read.
\* An EXT-X-SESSION-KEY is none, and an IV counts only in quotes.
ScanDrm(tags) ==
  IF tags = << >> THEN NoDrm
  ELSE [present |-> TRUE, method |-> Head(tags).method, format |-> Head(tags).format,
        uri |-> Head(tags).uri, iv |-> IF Head(tags).quoted THEN Head(tags).iv ELSE {}]

\* The badge of the screen, by the key format first and the method after it.
Badge(drm) ==
  CASE drm.format \in {"widevine", "clearkey"} -> "DRM Widevine"
    [] drm.format = "fairplay"  -> "DRM FairPlay"
    [] drm.format = "playready" -> "DRM PlayReady"
    [] OTHER -> CASE drm.method = "SAMPLE-AES" -> "DRM Sample-AES"
                  [] drm.method = "AES-128"    -> "ENC AES-128"
                  [] drm.method = "none"       -> "DRM"
                  [] OTHER                     -> "ENC other"

\* announce_drm_and_renditions: whether this playlist is the one that is
\* announced, and whether the licence server is asked.  The first playlist
\* with a key or with renditions is, and no playlist after it.
Announces(announced, drm, renditions) == ~announced /\ (drm.present \/ renditions)
AsksLicence(announced, drm, renditions, probeDrm) ==
  Announces(announced, drm, renditions) /\ drm.present /\ probeDrm

\* probe_drm_license: the request that is made, if any.  An address inside the
\* own network is blocked; a ClearKey system is asked with POST, every other
\* with a GET of the first byte.
LicenceRequest(drm, clearkey, blocked) ==
  CASE drm.uri = {} -> "none"
    [] drm.uri # {} /\ blocked -> "blocked"
    [] drm.uri # {} /\ ~blocked /\ (clearkey \/ drm.format = "clearkey" \/ drm.method = "clearkey") -> "POST"
    [] OTHER -> "GET"

\* What the DRM pane keeps of the answer: the time it took, and its status or
\* its error.
LicenceResult(request, answer) ==
  [ttfb   |-> IF request \in {"POST", "GET"} THEN {answer.ms} ELSE {},
   status |-> IF request \in {"POST", "GET"} /\ answer.ok THEN {answer.status} ELSE {},
   error  |-> request = "blocked" \/ (request \in {"POST", "GET"} /\ ~answer.ok)]

\* maybe_decrypt_aes128_probe: whether the bytes of a segment are for decrypting.
WantsKey(drm) == drm.method = "AES-128" /\ drm.uri # {}

-----------------------------------------------------------------------------
(* Names *)

NoDoh == [ms |-> {}, failed |-> FALSE]

\* apply_doh_timing: one answer is kept for every host.  Until there is one,
\* every segment asks; the first failure is a finding, the next are silent.
DohAnswers(doh) == IF doh.ms # {} THEN {"kept"} ELSE {"ok", "failed"}
AfterDoh(doh, answer, ms) ==
  CASE answer = "kept"   -> doh
    [] answer = "ok"     -> [doh EXCEPT !.ms = {ms}]
    [] answer = "failed" -> [doh EXCEPT !.failed = TRUE]
DohFinding(doh, answer) == answer = "failed" /\ ~doh.failed

=============================================================================
