----------------------------- MODULE MCNetTransfer -----------------------------
(***************************************************************************)
(* Values for model checking NetTransfer: payloads of one to three         *)
(* fragments of two bits each, one payload per transfer.                   *)
(***************************************************************************)
EXTENDS NetTransfer

MCPayloads == { <<1>>, <<0, 1>>, <<1, 0, 1>>, <<0, 1, 1, 0, 1>>,
                <<1, 1, 1, 1, 1, 1>> }
MCSingles == {{m} : m \in MCPayloads}
MCNoCuts == {}
================================================================================
