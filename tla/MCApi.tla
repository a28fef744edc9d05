-------------------------------- MODULE MCApi --------------------------------
(***************************************************************************)
(* Arguments and answers for the run of Api.                               *)
(***************************************************************************)
EXTENDS ApiProps

\* A plain word, words with a reserved character that ends a path and with dot
\* segments, before it and behind it, and the empty argument.
MCIds   == {<<>>, <<"x">>, <<"x", "?", "/", "..">>, <<"x", "#", "y">>, <<"..">>, <<"x", "/", ".">>}
MCUsers == {<<>>, <<"u">>, <<"u", "+", "v">>, <<"u", "&", "v">>}

\* As many bytes over a multiple of three as a SHA-256 HMAC has.
MCDigests == {<<255, 0>>, <<0, 1, 128, 63, 191>>}

Nowhere(names) == [n \in names |-> "absent"]

MCDocuments ==
  {d \in [object : BOOLEAN, at : [Places -> {"absent", "object", "other"}]] :
     /\ IsDocument(d)
     /\ \A p \in Places \ {"data", "request"} : d.at[p] \in {"absent", "other"}}

MCFrames == {f \in [form : {"empty", "text", "object"},
                    at : [ErrorPlaces -> {"absent", "string", "other"}]] : IsFrame(f)}
=============================================================================
