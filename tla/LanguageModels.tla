--------------------------- MODULE LanguageModels ---------------------------
(***************************************************************************)
(* What the four vendors' adapters make of a prompt and of the lines of a  *)
(* streamed response.  A line is known by what it carries: text, the       *)
(* vendor's end marker, both on one line, an error object, or neither.     *)
(***************************************************************************)
EXTENDS Naturals, Sequences, SequencesExt

Vendors == {"ollama", "openai", "anthropic", "gemini"}

LineKinds == {"text", "text_and_stop", "stop", "error", "other"}

\* A text delta and the end of a message are events of their own in
\* Anthropic's stream; the others may put both on one line.
LinesOf(vendor) ==
    IF vendor = "anthropic" THEN LineKinds \ {"text_and_stop"} ELSE LineKinds

Carries(line) ==
    [text |-> line \in {"text", "text_and_stop"},
     stop |-> line \in {"stop", "text_and_stop"}]

\* The chunks of a line, none or one: text, and whether the stream is over.
ParseWhole(line) ==
    LET chunk == [text |-> Carries(line).text, done |-> Carries(line).stop]
    IN IF chunk.text \/ chunk.done THEN <<chunk>> ELSE <<>>

\* Anthropic's adapter takes an error event for the end of the message.
ParseEvent(line) ==
    CASE line = "text" -> <<[text |-> TRUE, done |-> FALSE]>>
      [] line \in {"stop", "error"} -> <<[text |-> FALSE, done |-> TRUE]>>
      [] OTHER -> <<>>

ParseLine(vendor, line) ==
    IF vendor = "anthropic" THEN ParseEvent(line) ELSE ParseWhole(line)

-----------------------------------------------------------------------------
(* The prompt: the rules, the turns that are replayed, then the sources    *)
(* with the question.                                                      *)

Prompt(turns) ==
    <<[role |-> "system", says |-> "rules"]>>
        \o turns \o <<[role |-> "user", says |-> "sources"]>>

\* The messages of some roles, in their order.
Those(prompt, roles) ==
    FoldLeft(LAMBDA kept, message :
                 IF message.role \in roles THEN Append(kept, message) ELSE kept,
             <<>>, prompt)

\* Ollama and OpenAI take the prompt as it is, rules first.
WholePrompt(prompt) == [system |-> <<>>, messages |-> prompt]

\* Anthropic takes the rules as a field beside the conversation.
RulesAside(prompt) ==
    [system |-> Those(prompt, {"system"}), messages |-> Those(prompt, {"user", "assistant"})]

\* So does Gemini, which calls the assistant "model".
RenameRole(message) ==
    [message EXCEPT !.role = IF @ = "assistant" THEN "model" ELSE "user"]

RequestOf(vendor, prompt) ==
    LET aside == RulesAside(prompt)
    IN CASE vendor \in {"ollama", "openai"} -> WholePrompt(prompt)
         [] vendor = "anthropic" -> aside
         [] vendor = "gemini" ->
              [aside EXCEPT !.messages = [i \in DOMAIN @ |-> RenameRole(@[i])]]

=============================================================================
