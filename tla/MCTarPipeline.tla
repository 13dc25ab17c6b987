--------------------------- MODULE MCTarPipeline ---------------------------
(* Small instances of TarPipeline: no response, one, more than the channel    *)
(* and the workers hold together, and streams whose version changes.          *)
EXTENDS TarPipeline

MCAnswers == { <<>>, <<1>>, <<1, 1, 1, 1, 1>>, <<1, 2>>, <<1, 1, 2, 1>> }

=============================================================================
