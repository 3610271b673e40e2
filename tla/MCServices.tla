----------------------------- MODULE MCServices ------------------------------
(* The services of nCore, and nMediaInfo, which feeds one of them.  They keep *)
(* no state in common: a behaviour exercises one, service, while the others   *)
(* are idle in their initial state.                                           *)
EXTENDS FileSystemLoader, MCWindowTree, DynamicText, MCTextParser, MediaInfo

VARIABLE service

serviceVars == <<service, loaderVars, vars, textVars, parserVars, mediaVars>>

ServicesInit ==
  /\ service \in {"loader", "tree", "text", "parser", "media"}
  /\ LoaderInit /\ Init /\ TextInit
  /\ ParserInit /\ (service # "parser" => text = <<>> /\ written = <<>>)
  /\ MediaInit /\ (service # "media" => winamp = NoFile)

ServicesNext ==
  \/ service = "loader" /\ LoaderNext /\ UNCHANGED <<service, vars, textVars, parserVars, mediaVars>>
  \/ service = "tree" /\ Next /\ UNCHANGED <<service, loaderVars, textVars, parserVars, mediaVars>>
  \/ service = "text" /\ TextNext /\ UNCHANGED <<service, loaderVars, vars, parserVars, mediaVars>>
  \/ service = "parser" /\ ParserNext /\ UNCHANGED <<service, loaderVars, vars, textVars, mediaVars>>
  \/ service = "media" /\ MediaNext /\ UNCHANGED <<service, loaderVars, vars, textVars, parserVars>>

\* What the components assume of the threads and of the message loop.
ServicesFairness ==
  /\ \A id \in Ids :
       /\ WF_loaderVars(service = "loader" /\ \E listing \in SUBSET Items : EnumObjects(id, listing))
       /\ WF_loaderVars(service = "loader" /\ WorkerStep(id))
       /\ WF_loaderVars(service = "loader" /\ Answer(id))
  /\ WF_textVars(service = "text" /\ ~crashed /\ Timer)
  /\ WF_textVars(service = "text" /\ ~crashed /\ Announce)

ServicesSpec == ServicesInit /\ [][ServicesNext]_serviceVars /\ ServicesFairness

\* Every component keeps its state within its types.
ServicesTypeOK == LoaderTypeOK /\ TypeOK /\ TextTypeOK /\ ParserTypeOK /\ MediaTypeOK
=============================================================================
