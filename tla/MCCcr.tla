------------------------------- MODULE MCCcr --------------------------------
(* Two threads, three keys and a store of two: the smallest instance in    *)
(* which two puts can meet on a full store and still find a third key.     *)
EXTENDS CcrStore
=============================================================================
