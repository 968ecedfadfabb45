--------------------------- MODULE MCLlmPipeline ---------------------------
(* Programs for the LlmPipeline runs. *)
EXTENDS LlmPipeline

SeveralTools ==
    {<<"clean", "ingest">>, <<"query">>, <<"clean", "text_chunk">>, <<"bucket_split">>}
OnlyAdds == {<<"clean", "ingest">>}
=============================================================================
