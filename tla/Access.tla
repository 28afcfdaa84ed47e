---------------------------- MODULE Access ----------------------------
(***************************************************************************)
(* How a request to the API is admitted: the realm's keys are looked up,   *)
(* the token is verified (or found among the tokens verified before) and   *)
(* its grants are matched against the request.                             *)
(*                                                                         *)
(* A token is [signer, exp, nbf, grants], or NoToken; exp and nbf are 0    *)
(* when absent.  grants maps a claim to a sequence of strings, each        *)
(* [parts, verb, verbs, paths]: the number of its parts, the text of its   *)
(* verb and what its two expressions match.  A key set is a sequence of    *)
(* texts, each the sequence of the keys in it; "unreadable" is a block     *)
(* that holds none.                                                        *)
(***************************************************************************)
EXTENDS Integers, Sequences
LOCAL INSTANCE SequencesExt

CONSTANT CacheSize \* verified tokens that are kept

NoBearer == [signer |-> "nobody", exp |-> 0, nbf |-> 0, grants |-> <<>>]

Failed == [ok |-> FALSE, exp |-> 0, grants |-> <<>>]

ParsePublicKeysPEM(texts) ==
  [ok |-> \A i \in DOMAIN texts : texts[i] # <<>> /\ "unreadable" \notin ToSet(texts[i]),
   keys |-> FlattenSeq(texts)]

\* Strings that do not have three parts grant nothing.
NewToken(token) ==
  [ok |-> TRUE, exp |-> token.exp,
   grants |-> [c \in DOMAIN token.grants |-> SelectSeq(token.grants[c], LAMBDA g : g.parts = 3)]]

ExpiredAt(exp, now) == exp # 0 /\ now >= exp

\* The keys are tried in turn until one verifies the signature; the times in
\* the token are only looked at then.
Verify(token, keys, now) ==
  IF token.signer \in ToSet(keys) /\ ~ExpiredAt(token.exp, now) /\ now >= token.nbf
  THEN NewToken(token) ELSE Failed

\* The cache is a sequence of [key, token], the most recently used first.
Find(cache, key) == SelectInSeq(cache, LAMBDA e : e.key = key)

Touch(cache, entry) == <<entry>> \o SelectSeq(cache, LAMBDA e : e.key # entry.key)

CacheKey(token, texts) == <<token, texts>>

\* A failure is not kept; the least recently used entry makes room.
VerifyAnew(cache, key, token, texts, now) ==
  LET parsed == ParsePublicKeysPEM(texts)
      got == IF parsed.ok THEN Verify(token, parsed.keys, now) ELSE Failed
      kept == Touch(cache, [key |-> key, token |-> got])
  IN [cache |-> IF got.ok THEN SubSeq(kept, 1, IF Len(kept) < CacheSize THEN Len(kept) ELSE CacheSize) ELSE cache,
      token |-> got]

\* Mutant: what was verified once stays verified.
CacheVerifyStale(cache, token, texts, now) ==
  LET key == CacheKey(token, texts)
      at == Find(cache, key)
  IN IF at = 0 THEN VerifyAnew(cache, key, token, texts, now)
     ELSE [cache |-> Touch(cache, cache[at]), token |-> cache[at].token]

\* An entry that is found has only its expiry checked.
CacheVerify(cache, token, texts, now) ==
  LET key == CacheKey(token, texts)
      at == Find(cache, key)
  IN CASE at = 0 -> VerifyAnew(cache, key, token, texts, now)
       [] at # 0 /\ ExpiredAt(cache[at].token.exp, now) -> [cache |-> RemoveAt(cache, at), token |-> Failed]
       [] OTHER -> [cache |-> Touch(cache, cache[at]), token |-> cache[at].token]

Authorizes(token, claim, verb, path) ==
  /\ claim \in DOMAIN token.grants
  /\ \E i \in DOMAIN token.grants[claim] :
       LET g == token.grants[claim][i] IN verb \in g.verbs /\ path \in g.paths

\* What follows the first segment that is the base.
RelativePath(segments, base) ==
  LET at == SelectInSeq(segments, LAMBDA s : s = base)
  IN [ok |-> at # 0, path |-> SubSeq(segments, at + 1, Len(segments))]

\* A request is [bearer, method, segments].
TryAuthorize(cache, req, claim, texts, base, now) ==
  LET got == CacheVerify(cache, req.bearer, texts, now)
      path == RelativePath(req.segments, base)
  IN IF req.bearer = NoBearer THEN [cache |-> cache, is |-> "unauthorized"]
     ELSE [cache |-> got.cache,
           is |-> IF ~got.token.ok THEN "unauthorized"
                  ELSE IF path.ok /\ Authorizes(got.token, claim, req.method, path.path) THEN "served"
                  ELSE "forbidden"]

\* The claims are tried until one is granted; a realm nobody knows has no keys.
RequireRealmAny(cache, realms, req, realm, claims, now) ==
  IF realm \notin DOMAIN realms THEN [cache |-> cache, is |-> "unauthorized"]
  ELSE FoldLeft(LAMBDA w, claim : IF w.is = "forbidden" THEN TryAuthorize(w.cache, req, claim, realms[realm], realm, now) ELSE w,
                [cache |-> cache, is |-> "forbidden"], claims)

\* Routes of the instance have one fixed key set.
RequireStatic(cache, req, claim, texts, now) == TryAuthorize(cache, req, claim, texts, "v1", now)
=============================================================================
