--------------------------- MODULE MCConversations ---------------------------
(* Two requests, in the one conversation there is or in new ones.  The agent *)
(* is a small one here: MCWorkbench has the large one.                        *)
EXTENDS Conversations, TLC

CONSTANTS r1, r2, index, photo1, photo2, key

MCPaths == {index, photo1, photo2, key}
MCClassesOf ==
    [p \in MCPaths |->
        CASE p = key -> {"protected"}
          [] p = index -> {"markup"}
          [] OTHER -> {}]
MCUploadNames == <<photo1, photo2>>
MCMoves == {[path |-> index, content |-> "edit"], [path |-> key, content |-> "edit"]}
MCRefusals == {[status |-> 429, credit |-> FALSE]}

\* The defaults but for two files at most; then the index alone, in one file.
MCPolicyFiles ==
    << [maxFilesChanged |-> 2],
       [allow |-> {index}, maxFilesChanged |-> 1] >>

\* One attachment each, and a model tier that is or is not offered.
MCForms == [fields : {TRUE}, tier : BOOLEAN, files : {<<"image">>}]

MCSymmetry == Permutations({r1, r2})
===============================================================================
