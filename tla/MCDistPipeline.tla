---------------------------- MODULE MCDistPipeline ----------------------------
EXTENDS DistPipeline

(* A prompt of one chunk or two; then another one, a longer one, or one    *)
(* more token.                                                             *)
SomeSyncs == <<{<<1>>, <<1, 1>>}, {<<2, 1>>, <<1, 1, 2>>}>>
SomeEvals == <<{}, {2}>>

(* The same prompt twice.                                                  *)
OneSyncTwice == <<{<<1, 1>>}, {<<1, 1>>}>>
NoEvals == <<{}, {}>>
===============================================================================
