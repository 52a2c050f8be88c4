---------------------------- MODULE Conversation ----------------------------
(***************************************************************************)
(* Two turns of a conversation over the Responses API.  The first is a     *)
(* stream of ResponsesTranslator.  Then the client sends the whole         *)
(* conversation again: its prompt, the items it was given, the outputs of  *)
(* its tools.  internal/proxy/responses.go converts that into a chat       *)
(* completion request: convertToChatCompletions, normalizeContent,         *)
(* convertTools.                                                           *)
(*                                                                         *)
(* The name of a call goes the way of its arguments and is left out, as is *)
(* the text of a tool's output.                                            *)
(***************************************************************************)
EXTENDS ResponsesTranslator

CONSTANTS Clients,     \* what a client sends as the id of a function_call item
          Prompts      \* instructions, items and tools of a conversation

\* A conversation begins with messages to the model; of what a client may send
\* besides, the calls and their outputs are those of its first turn.
ASSUME ConversationAssumption ==
    /\ Clients \subseteq {"item id", "call id", "no id"}
    /\ \A prompt \in Prompts :
          /\ prompt.input \in Seq(Range(prompt.input))
          /\ prompt.tools \in Seq(Range(prompt.tools))
          /\ \A item \in Range(prompt.input) :
                /\ item.type \notin {"function_call", "function_call_output"}
                /\ item.type = "message" => item.role \in {"system", "developer", "user"}

VARIABLES client,      \* the one that goes on with this conversation
          request,     \* the ResponsesRequest of the second turn
          forwarded    \* the chatCompletionRequest made of it

turnVars == <<client, request, forwarded>>
conversationVars == <<vars, turnVars>>

NoTurn == <<>>

ConversationInit ==
    /\ Init
    /\ client = "none"
    /\ request = NoTurn
    /\ forwarded = NoTurn

-----------------------------------------------------------------------------
(* The items of a request, and the messages they become.  Ids are strings in  *)
(* the code: <<"call", c>> is the call id c where an item id might stand.      *)

NoId == <<"call", "">>

MessageItem(role, parts) == [type |-> "message", role |-> role, parts |-> parts]
CallItem(id, call, args) ==
    [type |-> "function_call", id |-> id, call |-> call, args |-> args]
OutputItem(call) == [type |-> "function_call_output", call |-> call]

ChatMessage(role, text) ==
    [role |-> role, text |-> text, toolCalls |-> <<>>, answers |-> NoId]

\* Mutant: the parts that clients write, and not those they were sent.
NormalizeContentWritten(parts) ==
    FlattenSeq([i \in DOMAIN parts |->
        IF parts[i].type \in {"input_text", "text"} THEN parts[i].text ELSE <<>>])

\* The texts of the parts, one after the other.  A string is here the content
\* with that text as its single part, and null the content without parts.
NormalizeContent(parts) ==
    FlattenSeq([i \in DOMAIN parts |->
        IF parts[i].type \in {"output_text", "input_text", "text"}
        THEN parts[i].text ELSE <<>>])

\* Mutant: a tool message, like an assistant's, refers to the item's id.
ToolMessageOfItem(item) == ChatMessage("tool", <<>>)

ToolMessage(item) == [ChatMessage("tool", <<>>) EXCEPT !.answers = <<"call", item.call>>]

\* Items of any other type become no message.
ConvertItem(item) ==
    CASE item.type = "message" ->
           <<ChatMessage(IF item.role = "developer" THEN "system" ELSE item.role,
                         NormalizeContent(item.parts))>>
      [] item.type = "function_call" ->
           <<[ChatMessage("assistant", <<>>) EXCEPT
                !.toolCalls = <<[id |-> item.id, args |-> item.args]>>]>>
      [] item.type = "function_call_output" -> <<ToolMessage(item)>>
      [] OTHER -> <<>>

WrappedFunction(name) == [type |-> "function", form |-> "wrapped", name |-> name]

\* Flat function tools are wrapped, wrapped ones passed on, other tools dropped.
ConvertTools(tools) ==
    LET functions == Pick(tools, {i \in DOMAIN tools : tools[i].type = "function"})
    IN  [i \in DOMAIN functions |-> WrappedFunction(functions[i].name)]

\* convertToChatCompletions.
Convert(req) ==
    [messages |-> (IF req.instructions = <<>> THEN <<>>
                   ELSE <<ChatMessage("system", req.instructions)>>)
                  \o FlattenSeq([i \in DOMAIN req.input |-> ConvertItem(req.input[i])]),
     tools |-> ConvertTools(req.tools)]

-----------------------------------------------------------------------------
(* The second turn. *)

\* What a client sends back for an item of response.completed.  The id of a
\* call is that of the item; or the one it was announced with, the call id; or
\* left out, since the field is optional.
Replayed(e, c) ==
    IF e.index = 0
    THEN MessageItem("assistant", <<[type |-> "output_text", text |-> e.data]>>)
    ELSE CallItem(CASE c = "item id" -> e.id
                    [] c = "call id" -> <<"call", e.call>>
                    [] c = "no id"   -> NoId, e.call, e.data)

\* The client goes on with what it was given, and with an output for each call.
Continued(prompt, c) ==
    LET given == Last(out).output
        calls == Pick(given, {i \in DOMAIN given : given[i].index > 0})
    IN  [instructions |-> prompt.instructions,
         input |-> prompt.input \o [i \in DOMAIN given |-> Replayed(given[i], c)]
                                \o [i \in DOMAIN calls |-> OutputItem(calls[i].call)],
         tools |-> prompt.tools]

\* Bound: what follows the stream of a sloppy upstream is not looked at.
NextTurn(c, prompt) ==
    /\ state = "submitted"
    /\ upstream # "sloppy"
    /\ request = NoTurn
    /\ client' = c
    /\ request' = Continued(prompt, c)
    /\ UNCHANGED <<vars, forwarded>>

\* Responses forwards the converted request.
ForwardTurn ==
    /\ request # NoTurn
    /\ forwarded = NoTurn
    /\ forwarded' = Convert(request)
    /\ UNCHANGED <<vars, client, request>>

ConversationNext ==
    \/ Next /\ UNCHANGED turnVars
    \/ \E c \in Clients, prompt \in Prompts : NextTurn(c, prompt)
    \/ ForwardTurn

\* The fairness of the translator; nobody has to go on with a conversation.
ConversationSpec ==
    /\ ConversationInit /\ [][ConversationNext]_conversationVars
    /\ Fairness

-----------------------------------------------------------------------------
(* Properties. *)

ConversationTypeOK ==
    /\ TypeOK
    /\ client \in Clients \cup {"none"}
    /\ forwarded # NoTurn => request # NoTurn
    /\ request # NoTurn => state = "submitted"

Saying(role) ==
    LET messages == forwarded.messages
    IN  Pick(messages, {i \in DOMAIN messages : messages[i].role = role})

\* In the second turn the upstream reads exactly what it streamed in the first:
\* its text, then each of its calls with the arguments in full, followed by one
\* output per call; before them come the messages of the prompt.  Every function
\* among the tools is still on offer, and nothing else is.
UpstreamReadsItself ==
    forwarded # NoTurn =>
        LET text == Streamed(0, "")
            said == Saying("assistant")
            before == IF text # <<>> \/ reasoning THEN <<text>> ELSE <<>>
            n == Len(forwarded.messages)
            told == Len(said) + Len(toolCalls)
        IN  /\ Len(said) = Len(before) + Len(toolCalls)
            /\ \A i \in DOMAIN before : said[i].text = before[i] /\ said[i].toolCalls = <<>>
            /\ \A i \in DOMAIN toolCalls :
                  said[Len(before) + i].toolCalls[1].args = Streamed(i, toolCalls[i].callID)
            /\ \A i \in 1..n :
                  forwarded.messages[i].role \in
                      IF i <= n - told THEN {"system", "user"}
                      ELSE IF i <= n - Len(toolCalls) THEN {"assistant"} ELSE {"tool"}
            /\ Range(forwarded.tools) =
                  {WrappedFunction(t.name) : t \in {u \in Range(request.tools) : u.type = "function"}}

\* A tool message answers a tool call that an earlier message made.
AnswersACall(messages) ==
    \A j \in DOMAIN messages : messages[j].role = "tool" =>
        \E i \in 1..(j - 1) :
            \E k \in DOMAIN messages[i].toolCalls : messages[i].toolCalls[k].id = messages[j].answers

\* A client that keeps the id a call was announced with, the call's own, as the
\* conversion's tests do, has its outputs taken for answers to its calls.
OutputsAnswerAnnouncedCalls ==
    forwarded # NoTurn /\ client = "call id" =>
        AnswersACall(forwarded.messages)

\* README.md wants tools like Codex CLI to work through the bridge: a client
\* that sends back the items of a complete stream has its outputs taken for
\* answers.
OutputsAnswerCalls ==
    forwarded # NoTurn /\ ended = "eof" => AnswersACall(forwarded.messages)
=============================================================================
