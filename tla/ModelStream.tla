----------------------------- MODULE ModelStream -----------------------------
(***************************************************************************)
(* One request to a chat model and the stream that answers it: the         *)
(* providers (core/models/openai-provider.ts, anthropic-provider.ts) turn  *)
(* server-sent events into chunks, and three readers turn chunks into tool *)
(* calls: the agent loop, its buffered variant, and the memory's adapter.  *)
(*                                                                         *)
(* Arguments are counted in the parts they are sent in: a call with some   *)
(* of its parts is JSON cut short.  Left out: the text itself, schemas,    *)
(* counts of tokens, and events that are no JSON, which change nothing.    *)
(***************************************************************************)
EXTENDS Integers, Sequences, FiniteSets, SequencesExt

CONSTANTS
  ModelCalls,     \* ids of the tool calls of an answer
  PartsOf,        \* id -> the parts its arguments are sent in
  NoCall,
  ModelRequests   \* [flavor, thinks, reader, system, messages]: what may be asked

VARIABLES
  request,        \* what is asked, and how far the answer is
  wire,           \* what the server has sent
  parser,         \* maps and sets of the provider's chatCompletion
  heard           \* what the reader has made of the chunks

streamVars == <<request, wire, parser, heard>>

(***************************************************************************)
(* The request.                                                            *)
(***************************************************************************)
Turn(role, calls, of) == [role |-> role, calls |-> calls, of |-> of]

\* Anthropic has no system message, and takes a tool's result from the user.
AsAnthropic(message) ==
  IF message.role = "assistant" THEN message ELSE [message EXCEPT !.role = "user"]

MessagesSent(asked) ==
  IF asked.flavor = "anthropic"
  THEN LET spoken == SelectSeq(asked.messages, LAMBDA m : m.role # "system")
       IN [i \in DOMAIN spoken |-> AsAnthropic(spoken[i])]
  ELSE (IF asked.system THEN <<Turn("system", {}, NoCall)>> ELSE <<>>) \o asked.messages

\* A buffered loop and the memory want a tool called; a provider that thinks
\* refuses that unless its thinking is off, which only the memory asks for.
ChoiceSent(asked) ==
  IF asked.reader = "loop" THEN "none"
  ELSE IF asked.flavor = "anthropic" THEN "any"
  ELSE IF asked.thinks /\ asked.reader # "memory" THEN "auto"
  ELSE "required"

Unanswered(sent) ==
  \E i \in DOMAIN sent : \E c \in sent[i].calls : ~\E j \in DOMAIN sent : j > i /\ sent[j].of = c

StreamInit ==
  /\ request \in [of : ModelRequests, at : {"asking"}, sent : {<<>>}, choice : {"none"}]
  /\ wire = [written |-> <<>>, named |-> {}, parts |-> [c \in ModelCalls |-> 0],
             stopped |-> {}, reason |-> "none"]
  /\ parser = [idAt |-> <<>>, named |-> {}, started |-> {}, closed |-> {}, ended |-> FALSE]
  /\ heard = [begun |-> <<>>, parts |-> [c \in ModelCalls |-> 0], pending |-> {},
              completed |-> <<>>, ends |-> 0,
              outcome |-> [is |-> "none", retriable |-> FALSE, calls |-> <<>>]]

Post ==
  /\ request.at = "asking"
  /\ request' = [request EXCEPT !.at = "posted", !.sent = MessagesSent(request.of),
                                !.choice = ChoiceSent(request.of)]
  /\ UNCHANGED <<wire, parser, heard>>

Fails(retriable) == [is |-> "error", retriable |-> retriable, calls |-> <<>>]

\* A server out of reach (0), one that fails, and a body that is empty (200) may
\* be tried again; a refusal may not, nor may being told to slow down (429).
Refuse(status) ==
  /\ request.at = "posted"
  /\ Unanswered(request.sent) <=> status = 400
  /\ request' = [request EXCEPT !.at = "over"]
  /\ heard' = [heard EXCEPT !.outcome = Fails(status \notin {400, 429})]
  /\ UNCHANGED <<wire, parser>>

Accept ==
  /\ request.at = "posted" /\ ~Unanswered(request.sent)
  /\ request' = [request EXCEPT !.at = "open"]
  /\ UNCHANGED <<wire, parser, heard>>

(***************************************************************************)
(* The readers.                                                            *)
(***************************************************************************)
Chunk(type, id) == [type |-> type, id |-> id]
EndChunks(ids) == [i \in DOMAIN ids |-> Chunk("tool_use_end", ids[i])]
MessageEnd == <<Chunk("message_end", NoCall)>>

\* The memory's adapter keeps what began, and asks for no end.
Take(h, chunk) ==
  LET c == chunk.id IN
  CASE chunk.type = "tool_use_start" ->
         [h EXCEPT !.begun = Append(@, c), !.pending = @ \union {c}, !.parts[c] = 0]
    [] chunk.type = "tool_use_delta" /\ c \in h.pending -> [h EXCEPT !.parts[c] = @ + 1]
    [] chunk.type = "tool_use_end" /\ c \in h.pending ->
         [h EXCEPT !.completed = Append(@, c), !.pending = @ \ {c}]
    [] chunk.type = "message_end" -> [h EXCEPT !.ends = @ + 1]
    [] OTHER -> h

Given(h, c) ==
  IF h.parts[c] = PartsOf[c] THEN "whole"
  ELSE IF h.parts[c] = 0 THEN "empty"
  ELSE "torn"

\* Arguments cut short fail the loop; the memory takes them for none at all.
OutcomeOf(h) ==
  LET memory == request.of.reader = "memory"
      ids == IF memory THEN h.begun ELSE h.completed
      given == [i \in DOMAIN ids |->
                  [id |-> ids[i], args |-> IF memory /\ Given(h, ids[i]) = "torn" THEN "empty"
                                           ELSE Given(h, ids[i])]]
  IN IF \E i \in DOMAIN given : given[i].args = "torn" THEN Fails(FALSE)
     ELSE [is |-> "calls", retriable |-> FALSE, calls |-> given]

\* The provider's generator hands its chunks on as it yields them.
Hear(p, chunks, over) ==
  LET h == FoldLeft(Take, heard, chunks) IN
  /\ parser' = p
  /\ heard' = IF over THEN [h EXCEPT !.outcome = OutcomeOf(h)] ELSE h
  /\ request' = IF over THEN [request EXCEPT !.at = "over"] ELSE request

(***************************************************************************)
(* An OpenAI stream: calls by index, which parts of several may share.     *)
(***************************************************************************)
OpenAI == request.at = "open" /\ request.of.flavor # "anthropic"

\* An event without an id goes to the call at its index; a call starts when its
\* name is known.
ParseTool_Bug(event) ==
  LET p == parser
      c == event.id
      named == p.named \union (IF event.named THEN {event.at} ELSE {})
      starts == event.at \in named /\ c \notin p.started
  IN IF c = NoCall THEN Hear(p, <<>>, FALSE)
     ELSE Hear([p EXCEPT !.idAt = IF event.at \in DOMAIN @ THEN @ ELSE Append(@, c),
                         !.named = named,
                         !.started = IF starts THEN @ \union {c} ELSE @],
               (IF starts THEN <<Chunk("tool_use_start", c)>> ELSE <<>>)
                 \o (IF event.part THEN <<Chunk("tool_use_delta", c)>> ELSE <<>>),
               FALSE)

ParseTool(event) ==
  LET p == parser
      c == IF event.id # NoCall THEN event.id ELSE p.idAt[event.at]
      named == p.named \union (IF event.named THEN {event.at} ELSE {})
      starts == event.at \in named /\ c \notin p.started
  IN Hear([p EXCEPT !.idAt = IF event.at \in DOMAIN @ THEN @ ELSE Append(@, c),
                    !.named = named,
                    !.started = IF starts THEN @ \union {c} ELSE @],
          (IF starts THEN <<Chunk("tool_use_start", c)>> ELSE <<>>)
            \o (IF event.part THEN <<Chunk("tool_use_delta", c)>> ELSE <<>>),
          FALSE)

\* The server opens a call with its id, names it there or before the next, and
\* sends its arguments in as many events as it likes, with the id or without.
SendTool(c, withId, withName, withPart) ==
  LET opens == c \notin ToSet(wire.written)
      named == wire.named \union (IF withName THEN {c} ELSE {})
      written == IF opens THEN Append(wire.written, c) ELSE wire.written
  IN
  /\ OpenAI /\ wire.reason = "none"
  /\ opens => withId /\ ToSet(wire.written) = wire.named
  /\ withName => c \notin wire.named
  /\ withPart => c \in named /\ wire.parts[c] < PartsOf[c]
  /\ opens \/ withName \/ withPart
  /\ wire' = [wire EXCEPT !.written = written, !.named = named,
                          !.parts[c] = IF withPart THEN @ + 1 ELSE @]
  /\ ParseTool([at |-> CHOOSE i \in DOMAIN written : written[i] = c,
                id |-> IF withId THEN c ELSE NoCall, named |-> withName, part |-> withPart])

Complete == \A c \in ToSet(wire.written) : c \in wire.named /\ wire.parts[c] = PartsOf[c]

\* A model told to call a tool does so; one out of tokens stops anywhere.
MayFinish(reason) ==
  /\ wire.reason = "none"
  /\ reason # "length" =>
       Complete /\ (request.choice \in {"any", "required"} => wire.written # <<>>)
  /\ reason = "tool_calls" => wire.written # <<>>

Open(p, onlyStarted) ==
  SelectSeq(p.idAt, LAMBDA c : c \notin p.closed /\ (onlyStarted => c \in p.started))

\* A provider that sends its usage last is not yet done.
Finish(reason) ==
  LET ends == Open(parser, TRUE)
      last == request.of.flavor # "openai_usage"
  IN
  /\ OpenAI /\ MayFinish(reason)
  /\ wire' = [wire EXCEPT !.reason = reason]
  /\ Hear([parser EXCEPT !.closed = @ \union ToSet(ends), !.ended = last],
          EndChunks(ends) \o (IF last THEN MessageEnd ELSE <<>>), FALSE)

SendDone ==
  /\ OpenAI /\ wire.reason # "none"
  /\ Hear([parser EXCEPT !.ended = TRUE],
          IF parser.ended THEN <<>> ELSE EndChunks(Open(parser, FALSE)) \o MessageEnd, TRUE)
  /\ UNCHANGED wire

(***************************************************************************)
(* An Anthropic stream: blocks one after the other.                        *)
(***************************************************************************)
Anthropic == request.at = "open" /\ request.of.flavor = "anthropic" /\ wire.reason = "none"

StartBlock(c) ==
  /\ Anthropic /\ c \notin ToSet(wire.written)
  /\ wire.stopped = ToSet(wire.written)
  /\ wire' = [wire EXCEPT !.written = Append(@, c), !.named = @ \union {c}]
  /\ Hear([parser EXCEPT !.idAt = Append(@, c)], <<Chunk("tool_use_start", c)>>, FALSE)

OpenBlock(c) == Anthropic /\ c \in ToSet(wire.written) \ wire.stopped

BlockDelta(c) ==
  /\ OpenBlock(c) /\ wire.parts[c] < PartsOf[c]
  /\ wire' = [wire EXCEPT !.parts[c] = @ + 1]
  /\ Hear(parser, <<Chunk("tool_use_delta", parser.idAt[Len(wire.written)])>>, FALSE)

StopBlock(c) ==
  /\ OpenBlock(c)
  /\ wire' = [wire EXCEPT !.stopped = @ \union {c}]
  /\ Hear(parser, <<Chunk("tool_use_end", parser.idAt[Len(wire.written)])>>, FALSE)

StopMessage(reason) ==
  /\ Anthropic /\ wire.stopped = ToSet(wire.written) /\ MayFinish(reason)
  /\ wire' = [wire EXCEPT !.reason = reason]
  /\ Hear(parser, MessageEnd, TRUE)

(***************************************************************************)
(* The end of a stream that was not finished.                              *)
(***************************************************************************)
\* A connection that is closed in good order, maybe after an error event, looks
\* like the end of the answer: what was started is ended, and nobody knows.
Close ==
  /\ request.at = "open"
  /\ IF request.of.flavor = "anthropic" THEN Hear(parser, MessageEnd, TRUE)
     ELSE Hear([parser EXCEPT !.ended = TRUE],
               IF parser.ended THEN <<>> ELSE EndChunks(Open(parser, TRUE)) \o MessageEnd, TRUE)
  /\ UNCHANGED wire

\* One that breaks throws in the reader.
Break ==
  /\ request.at = "open"
  /\ request' = [request EXCEPT !.at = "over"]
  /\ heard' = [heard EXCEPT !.outcome = Fails(TRUE)]
  /\ UNCHANGED <<wire, parser>>

StreamNext ==
  \/ Post \/ Accept \/ Close \/ Break \/ SendDone
  \/ \E status \in {0, 200, 400, 429, 503} : Refuse(status)
  \/ \E c \in ModelCalls, withId, withName, withPart \in BOOLEAN :
       SendTool(c, withId, withName, withPart)
  \/ \E c \in ModelCalls : StartBlock(c) \/ BlockDelta(c) \/ StopBlock(c)
  \/ \E reason \in {"tool_calls", "stop", "length"} : Finish(reason) \/ StopMessage(reason)

StreamSpec == StreamInit /\ [][StreamNext]_streamVars
-----------------------------------------------------------------------------
(***************************************************************************)
(* Properties.                                                             *)
(***************************************************************************)
\* What is executed is what the model wrote, however its events were cut up: a
\* stream that came to its end gives each call once, in the order written, with
\* all its arguments; one cut short, or out of tokens, gives no call half its
\* arguments; and the message ends once (openai-provider.ts:135,
\* anthropic-provider.ts:119, agent-loop.ts:157).
CallsAsWritten ==
  LET calls == heard.outcome.calls
      ids == [i \in DOMAIN calls |-> calls[i].id]
  IN heard.outcome.is = "calls" =>
       /\ heard.ends = 1
       /\ IsInjective(ids) /\ ids = SelectSeq(wire.written, LAMBDA c : c \in ToSet(ids))
       /\ wire.reason \notin {"none", "length"} =>
            /\ ids = wire.written
            /\ \A i \in DOMAIN calls : calls[i].args = "whole"
=============================================================================
