---------------------------- MODULE SecretText -----------------------------
(***************************************************************************)
(* The text operations of secret.rs: what `inject` does to a request, what *)
(* `scrub` does to a response, and the chunk-wise scrubber of the proxy.   *)
(*                                                                         *)
(* A response is a sequence of symbols (integers): 0 stands for the empty  *)
(* line behind the headers, positive numbers for other bytes, negative     *)
(* ones for the bytes of placeholders, which are taken to be bytes of      *)
(* their own: a placeholder has a random suffix, and a real value made of  *)
(* pieces of one is left out.  A secret is a record of its id, its real    *)
(* value and its hosts; the real value has no 0 in it, because             *)
(* SecretBinding::new refuses CR and LF.                                   *)
(*                                                                         *)
(* A request is kept as its parts, each with the set of tokens it holds: a *)
(* placeholder or a real value of a secret.                                *)
(***************************************************************************)
EXTENDS Integers, Sequences, SequencesExt, FiniteSetsExt

CONSTANTS
  PhLen,      \* length of a placeholder in a response
  ScrubCap    \* MAX_SCRUB_SECRET_LEN

ASSUME TextAssumption == PhLen \in Nat \ {0} /\ ScrubCap \in Nat

\* What a real value is made of.
Words == Seq(Nat \ {0})

SecretBinding == [id : Nat, real : Words, hosts : SUBSET Seq(STRING)]

Placeholder(s) == [k \in 1 .. PhLen |-> -(10 * s.id + k)]

Applies(s, host) == host \in s.hosts

----------------------------------------------------------------------------
(* byte_replace, scrub *)

Occurs(n, t, i) == i + Len(n) - 1 <= Len(t) /\ \A k \in 1 .. Len(n) : t[i + k - 1] = n[k]

Shows(t, n) == \E i \in 1 .. Len(t) : Occurs(n, t, i)

\* From left to right, without overlaps; an empty needle is never found.
ByteReplace(t, n, r) ==
  LET from[i \in 1 .. Len(t) + Len(n)] ==
        IF i > Len(t) THEN <<>>
        ELSE IF Occurs(n, t, i) THEN r \o from[i + Len(n)] ELSE <<t[i]>> \o from[i + 1]
  IN  IF n = <<>> THEN t ELSE from[1]

\* Mutant: only the first secret of the host is replaced.
Scrub_First(t, host, secrets) ==
  LET mine == SelectSeq(secrets, LAMBDA s : Applies(s, host))
  IN  IF mine = <<>> THEN t ELSE ByteReplace(t, mine[1].real, Placeholder(mine[1]))

\* One secret behind the other, each over what the one before it left.
Scrub(t, host, secrets) ==
  LET left[k \in 0 .. Len(secrets)] ==
        IF k = 0 THEN t
        ELSE IF Applies(secrets[k], host)
             THEN ByteReplace(left[k - 1], secrets[k].real, Placeholder(secrets[k]))
             ELSE left[k - 1]
  IN  left[Len(secrets)]

----------------------------------------------------------------------------
(* write_scrubbed_chunk *)

Larger(a, b) == IF a > b THEN a ELSE b
Smaller(a, b) == IF a < b THEN a ELSE b

\* Over the secrets of every host, the ones that do not apply included.
MaxSecretLen(secrets) ==
  Smaller(ScrubCap, Max({0} \cup {Len(secrets[i].real) : i \in DOMAIN secrets}))

\* Mutant: keeps one symbol too few.
KeepBack_Short(text, max) == Smaller(Len(text), Larger(max, 2) - 2)

\* How much of a scrubbed window waits for the next chunk.
KeepBack(text, max) == Smaller(Len(text), max - 1)

\* What is written of a window, and what is kept: its last max - 1 symbols.
WriteScrubbed(overlap, chunk, host, secrets) ==
  LET max  == MaxSecretLen(secrets)
      text == Scrub(overlap \o chunk, host, secrets)
      end  == Len(text) - KeepBack(text, max)
  IN  IF max = 0 THEN [out |-> chunk, overlap |-> overlap]
      ELSE [out |-> SubSeq(text, 1, end), overlap |-> SubSeq(text, end + 1, Len(text))]

----------------------------------------------------------------------------
(* inject: a header is plain, "basic" (Authorization: Basic, whose tokens   *)
(* are behind base64) or of one of the kinds the proxy rewrites.            *)

Ph(s)   == <<"ph", s.id>>
Real(s) == <<"real", s.id>>

Swapped(tokens, mine) ==
  {t \in tokens : \A s \in mine : t # Ph(s)} \cup {Real(s) : s \in {s \in mine : Ph(s) \in tokens}}

Mine(host, secrets) == {s \in ToSet(secrets) : Applies(s, host)}

\* inject_basic_auth sees only "Authorization: Basic"; the literal pass sees
\* every header whose value is not encoded.
InjectHeader(h, mine) ==
  IF h.kind = "encoded" THEN h ELSE [h EXCEPT !.holds = Swapped(@, mine)]

\* The request line and the body are left alone.
Inject(req, host, secrets) ==
  [req EXCEPT !.headers = {InjectHeader(h, Mine(host, secrets)) : h \in @}]

ConnectionClose == [kind |-> "close", holds |-> {}]

\* rewrite_request_headers: no Accept-Encoding, one kind of Connection.
RewriteRequest(req) ==
  [req EXCEPT !.headers =
     {h \in @ : h.kind \notin {"acceptEncoding", "keepAlive", "close"}} \cup {ConnectionClose}]

----------------------------------------------------------------------------
(* Responses *)

\* find_header_end: the length of the headers with their empty line, or 0.
HeaderEnd(t) == SelectInSeq(t, LAMBDA x : x = 0)

\* The header "Connection: close" of a response.
CloseHeader == 99

\* rewrite_connection_close: headers that do not parse are left as they are.
RewriteClose(t) == IF HeaderEnd(t) = 0 THEN t
                   ELSE SubSeq(t, 1, HeaderEnd(t) - 1) \o <<CloseHeader, 0>>
                        \o SubSeq(t, HeaderEnd(t) + 1, Len(t))
=============================================================================
