-------------------------------- MODULE Requests --------------------------------
(***************************************************************************)
(* The two processes that serve requests.  In the API process an answer of *)
(* the model is parsed into blocks (OutputParser) and the tool calls after *)
(* them are asked about and run (ToolApproval); the worker serves the      *)
(* queue of jobs (JobQueue).  The three share no state, an answer's blocks *)
(* and a job's request being data: each behaviour is one part's.           *)
(***************************************************************************)
EXTENDS ToolApproval, OutputParser, JobQueue

CONSTANT Parts  \* which of the parts a run looks at

VARIABLE part

requestVars == <<part, chatVars, parserVars, vars>>

RequestsInit ==
  /\ part \in Parts
  /\ part # "parser" => answer = <<>>
  /\ ChatInit /\ ParserInit /\ Init

RequestsNext ==
  \/ part = "approval" /\ ChatNext /\ UNCHANGED <<part, parserVars, vars>>
  \/ part = "parser" /\ ParserNext /\ UNCHANGED <<part, chatVars, vars>>
  \/ part = "queue" /\ Next /\ UNCHANGED <<part, chatVars, parserVars>>

\* The fairness of ChatSpec and of JobQueue's Spec, each in its own part.
ServeStream(s) == part = "approval" /\ StreamStep(s) /\ UNCHANGED <<part, parserVars, vars>>
ServeQueue(w) == part = "queue" /\ PollStep(w) /\ UNCHANGED <<part, chatVars, parserVars>>

RequestsSpec ==
  /\ RequestsInit /\ [][RequestsNext]_requestVars
  /\ \A s \in Streams : WF_requestVars(ServeStream(s))
  /\ \A w \in Workers : WF_requestVars(ServeQueue(w))
===============================================================================
