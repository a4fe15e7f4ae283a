--------------------------- MODULE MCMessageState ---------------------------
(* The memory changes and the role with it, and both may change back. *)
EXTENDS MessageState

MCOpenings == { <<Prompt("memory", 1), NoPrompt, Prompt("coder", 1)>>,
                <<Prompt("memory", 2), NoPrompt, Prompt("writer", 1)>> }

\* Single calls that succeed or fail, and a batch of which one call fails.
MCEndings == {<<"result">>, <<"error">>, <<"image", "error">>}
=============================================================================
