----------------------------- MODULE ChatServer -----------------------------
(***************************************************************************)
(* The server of a chat window (ui/dialogs/chat_window.py): its choice,    *)
(* the API key that goes with it and its place in the keyring, the lists   *)
(* of models, what a model can take in, and the size of the context a      *)
(* message is sent with (core/ai_chat.py).  The conversation itself is in  *)
(* ChatSession.                                                            *)
(*                                                                         *)
(* A key is named after the server it is for: the user types the key of    *)
(* the server the window shows.  Left out: pictures, the typed draft and   *)
(* errors of the keyring.                                                  *)
(***************************************************************************)
EXTENDS Integers, FiniteSetsExt, SequencesExt

CONSTANTS
    Servers, Ollamas,   \* the servers of the window's list, those that are Ollama's
    InClear,            \* those that are met over plain HTTP on another machine
    NoKey, NoModel,
    Models,             \* the models the user may type
    ModelAnswers,       \* bound: the lists a server may answer with
    Limits,             \* bound: what an Ollama says a model holds, 0 for nothing
    Prompts,            \* bound: the tokens of a message with what goes before it
    MaxDoublings,       \* bound: how often a context is doubled for a prompt
    MaxAsks             \* bound: questions to the servers at a time

VARIABLES
    server,         \* self.service
    keyText,        \* the field of the key
    remember,       \* "Remember the key in your keyring"
    agreed,         \* _cleartext_ok
    warned,         \* _size_warned
    model,          \* the text of the field of the model
    met,            \* the keys of capabilities: asked about, or told
    limits,         \* context_max
    numCtx,         \* the chat's settings["num_ctx"], 0 when it has none
    replying,       \* a reply is awaited
    keyBox,         \* a regenerated reply waits for the question about the key
    keyring,        \* the key saved for each server
    modelLists,     \* the models of each service, shared with the AI tab
    asks,           \* the questions to the servers that are under way
    request         \* history: what this step sends, and what was known then

NoRequest == [server |-> NoKey]
keyVars  == <<keyText, remember, agreed, keyring>>
sizeVars == <<warned, numCtx, replying, keyBox>>
NothingSent == request' = NoRequest
serverVars == <<server, keyVars, model, met, limits, modelLists, asks, sizeVars, request>>

NoKeyBox     == [prompt |-> 0]

---------------------------------------------------------------------------
\* core/ai_chat.py

ShortPrompt == 3072
ReplyBudget == 4096
Sizes == {8192 * 2^n : n \in 0..MaxDoublings}

ASSUME ServersAssumption ==
    /\ Ollamas \cup InClear \subseteq Servers /\ MaxAsks \in Nat
    /\ ModelAnswers \subseteq Seq(Models) /\ Limits \subseteq Nat
    /\ MaxDoublings \in Nat
    /\ \A prompt \in Prompts : prompt \in Nat /\ \E s \in Sizes : s >= prompt + ReplyBudget

\* ollama_context()
OllamaContextMutant(prompt, most, previous) ==
    IF prompt <= ShortPrompt THEN 0
    ELSE LET size == Max({previous, Min({s \in Sizes : s >= prompt + ReplyBudget})})
         IN  IF most = 0 THEN size ELSE Min({size, most})
OllamaContext(prompt, most, previous) ==
    IF prompt <= ShortPrompt /\ previous = 0 THEN 0
    ELSE LET size == Max({previous, Min({s \in Sizes : s >= prompt + ReplyBudget})})
         IN  IF most = 0 THEN size ELSE Min({size, most})

---------------------------------------------------------------------------
\* sends_key_in_clear() and _key_may_be_sent()

SendsInClear(s, k) == k # NoKey /\ s \in InClear
AgreedTo(s) == IF SendsInClear(s, keyText) THEN agreed \cup {s} ELSE agreed
MayBeSent(agrees) == ~SendsInClear(server, keyText) \/ server \in agreed \/ agrees

\* _fits(): what the window thinks of a prompt, and the user's answer to it.
LimitOf(s, m) == limits[<<s, m>>]
Holds(prompt) ==
    IF server \in Ollamas
    THEN LimitOf(server, model) = 0 \/ prompt + ReplyBudget <= LimitOf(server, model)
    ELSE prompt + ReplyBudget <= 8192 \/ server \in warned
Fits(prompt, agrees) ==
    /\ Holds(prompt) \/ agrees
    /\ warned' = IF Holds(prompt) THEN warned ELSE warned \cup {server}

\* _set_models(): the model in the field stays when the server has it.
TextAfter(list, current) ==
    IF list = <<>> \/ current \in ToSet(list) THEN current ELSE list[1]

\* _on_model_changed(): an Ollama is asked once about each of its models; and
\* the question for the list of models, when there is one.
ModelShown(s, m, k, questions) ==
    LET new == m # NoModel /\ s \in Ollamas /\ <<s, m>> \notin met
        all == questions \cup (IF new THEN {[kind |-> "show", server |-> s, model |-> m, key |-> k]} ELSE {})
    IN  /\ model' = m
        /\ met' = IF new THEN met \cup {<<s, m>>} ELSE met
        /\ Cardinality(asks \cup all) <= MaxAsks
        /\ asks' = asks \cup all
ListQuestion(s, k) == [kind |-> "list", server |-> s, model |-> NoModel, key |-> k]

\* _save_key_if_asked()
KeyringSaved == IF remember /\ keyText # NoKey THEN [keyring EXCEPT ![server] = keyText] ELSE keyring

---------------------------------------------------------------------------
\* The window is opened; another may have saved a key before.
ServerInit ==
    /\ server \in Servers /\ keyring \in {[s \in Servers |-> NoKey], [s \in Servers |-> s]}
    /\ keyText = keyring[server] /\ remember = (keyText # NoKey)
    /\ agreed = {} /\ warned = {} /\ met = {} /\ asks = {}
    /\ model = NoModel /\ modelLists = [s \in Servers |-> <<>>]
    /\ limits = [sm \in Servers \X (Models \cup {NoModel}) |-> 0]
    /\ numCtx = 0 /\ replying = FALSE /\ keyBox = NoKeyBox /\ request = NoRequest

\* _on_server_chosen(), with _load_saved_key() and, for a server without a list
\* of models, _refresh_models().
OnServerChosenMutant(s, agrees) ==
    LET saved == IF keyring[s] = NoKey THEN keyText ELSE keyring[s]
        asksList == modelLists[s] = <<>> /\ (~SendsInClear(s, saved) \/ s \in agreed \/ agrees)
    IN  /\ s # server /\ server' = s
        /\ keyText' = saved /\ remember' = (saved # NoKey)
        /\ agreed' = IF asksList /\ SendsInClear(s, saved) THEN agreed \cup {s} ELSE agreed
        /\ ModelShown(s, TextAfter(modelLists[s], model), saved,
                      IF asksList THEN {ListQuestion(s, saved)} ELSE {})
        /\ UNCHANGED <<keyring, limits, modelLists, sizeVars>> /\ NothingSent
OnServerChosen(s, agrees) ==
    LET saved == keyring[s]
        asksList == modelLists[s] = <<>> /\ (~SendsInClear(s, saved) \/ s \in agreed \/ agrees)
    IN  /\ s # server /\ server' = s
        /\ keyText' = saved /\ remember' = (saved # NoKey)
        /\ agreed' = IF asksList /\ SendsInClear(s, saved) THEN agreed \cup {s} ELSE agreed
        /\ ModelShown(s, TextAfter(modelLists[s], model), saved,
                      IF asksList THEN {ListQuestion(s, saved)} ELSE {})
        /\ UNCHANGED <<keyring, limits, modelLists, sizeVars>> /\ NothingSent

TypeKey(remembers) ==
    /\ keyText' \in {NoKey, server} /\ remember' = remembers
    /\ UNCHANGED <<server, agreed, keyring, model, met, limits, modelLists, asks, sizeVars>> /\ NothingSent

\* _forget_key(): the field keeps its text.
ForgetKey ==
    /\ keyring[server] # NoKey
    /\ keyring' = [keyring EXCEPT ![server] = NoKey] /\ remember' = FALSE
    /\ UNCHANGED <<server, keyText, agreed, model, met, limits, modelLists, asks, sizeVars>> /\ NothingSent

\* Another window of the program saves or forgets a key of its server.
OtherWindow(s) ==
    /\ keyring' \in {[keyring EXCEPT ![s] = k] : k \in {NoKey, s}}
    /\ UNCHANGED <<server, keyText, remember, agreed, model, met, limits, modelLists, asks, sizeVars>> /\ NothingSent

TypeModel(m) ==
    /\ ModelShown(server, m, keyText, {})
    /\ UNCHANGED <<server, keyVars, limits, modelLists, sizeVars>> /\ NothingSent

\* _refresh_models()
RefreshModels(agrees) ==
    /\ MayBeSent(agrees) /\ agreed' = AgreedTo(server)
    /\ ModelShown(server, model, keyText, {ListQuestion(server, keyText)})
    /\ UNCHANGED <<server, keyText, remember, keyring, limits, modelLists, sizeVars>> /\ NothingSent

\* _on_models(): the list is taken for one of the server that is shown now.
OnModels(r, list) ==
    /\ r \in asks /\ r.kind = "list"
    /\ modelLists' = IF list = <<>> THEN modelLists ELSE [modelLists EXCEPT ![server] = list]
    /\ keyring' = IF list = <<>> THEN keyring ELSE KeyringSaved
    /\ LET m == TextAfter(list, model)
           new == m # NoModel /\ server \in Ollamas /\ <<server, m>> \notin met
       IN  /\ model' = m
           /\ met' = IF new THEN met \cup {<<server, m>>} ELSE met
           /\ asks' = (asks \ {r}) \cup
                      (IF new THEN {[kind |-> "show", server |-> server, model |-> m, key |-> keyText]} ELSE {})
    /\ UNCHANGED <<server, keyText, remember, agreed, limits, sizeVars>> /\ NothingSent

\* _on_context_from() and _on_capabilities_from(), or a question in vain.
OnCapabilities(r, limit) ==
    /\ r \in asks /\ r.kind = "show" /\ asks' = asks \ {r}
    /\ limits' = [limits EXCEPT ![<<r.server, r.model>>] = limit]
    /\ UNCHANGED <<server, keyVars, model, met, modelLists, sizeVars>> /\ NothingSent

---------------------------------------------------------------------------
\* _start_reply()
StartReply(prompt, boxed, agrees) ==
    LET ollama == server \in Ollamas
        most   == LimitOf(server, model)
        ctx    == IF ollama THEN OllamaContext(prompt, most, numCtx) ELSE 0
    IN  /\ model # NoModel /\ replying' = TRUE
        /\ numCtx' = IF ctx # 0 THEN ctx ELSE numCtx
        /\ request' = [server |-> server, key |-> keyText, prompt |-> prompt, ctx |-> ctx, most |-> most,
                       before |-> numCtx, boxed |-> boxed, agreed |-> agrees]

\* _send_or_stop(): the key, then the size, then the reply.  The consent to the
\* key stays when the size is not taken.
Send(prompt, agrees, takes) ==
    /\ ~replying /\ model # NoModel
    /\ MayBeSent(agrees) /\ agreed' = AgreedTo(server)
    /\ \/ Fits(prompt, takes) /\ StartReply(prompt, FALSE, takes)
       \/ ~Holds(prompt) /\ ~takes /\ UNCHANGED <<warned, numCtx, replying>> /\ NothingSent
    /\ UNCHANGED <<server, keyText, remember, keyring, model, met, limits, modelLists, asks, keyBox>>

\* regenerate(): the size is looked at before the question about the key,
\* during which lists and limits may arrive.
Regenerate(prompt, takes) ==
    /\ ~replying /\ Fits(prompt, takes)
    /\ IF MayBeSent(FALSE)
       THEN StartReply(prompt, FALSE, takes) /\ UNCHANGED keyBox
       ELSE keyBox' = [prompt |-> prompt, takes |-> takes] /\ UNCHANGED <<numCtx, replying>> /\ NothingSent
    /\ UNCHANGED <<server, keyVars, model, met, limits, modelLists, asks>>
KeyBoxAnswered(agrees) ==
    /\ keyBox # NoKeyBox /\ keyBox' = NoKeyBox
    /\ IF agrees /\ model # NoModel
       THEN StartReply(keyBox.prompt, TRUE, keyBox.takes)
       ELSE UNCHANGED <<numCtx, replying>> /\ NothingSent
    /\ agreed' = IF agrees THEN agreed \cup {server} ELSE agreed
    /\ UNCHANGED <<server, keyText, remember, keyring, model, met, limits, modelLists, asks, warned>>

\* _on_done() and _on_failed(): a reply accepts the key that is shown now.
ReplyEnds(answered) ==
    /\ replying /\ replying' = FALSE
    /\ keyring' = IF answered THEN KeyringSaved ELSE keyring
    /\ UNCHANGED <<server, keyText, remember, agreed, model, met, limits, modelLists, asks,
                   warned, numCtx, keyBox>> /\ NothingSent

\* _new_chat()
NewChat ==
    /\ numCtx' = 0
    /\ UNCHANGED <<server, keyVars, model, met, limits, modelLists, asks, warned, replying, keyBox>> /\ NothingSent

\* While a question is open the windows take no input.
UserStep ==
    \/ \E s \in Servers, agrees \in BOOLEAN : OnServerChosen(s, agrees)
    \/ \E remembers \in BOOLEAN : TypeKey(remembers)
    \/ \E s \in Servers : OtherWindow(s)
    \/ \E m \in Models : TypeModel(m)
    \/ \E agrees, takes \in BOOLEAN, prompt \in Prompts : Send(prompt, agrees, takes)
    \/ \E takes \in BOOLEAN, prompt \in Prompts : Regenerate(prompt, takes)
    \/ \E agrees \in BOOLEAN : RefreshModels(agrees)
    \/ ForgetKey \/ NewChat

ServerNext ==
    \/ keyBox = NoKeyBox /\ UserStep
    \/ \E agrees \in BOOLEAN : KeyBoxAnswered(agrees)
    \/ \E r \in asks :
         \/ \E list \in ModelAnswers : OnModels(r, list)
         \/ \E limit \in Limits : OnCapabilities(r, limit)
    \/ \E answered \in BOOLEAN : ReplyEnds(answered)

ServerSpec == ServerInit /\ [][ServerNext]_serverVars

---------------------------------------------------------------------------
\* A key stays with its server: whatever servers are chosen while lists and
\* replies of other servers are still awaited, and whatever other windows save,
\* the key in the field, in the keyring or in a question is that of its server;
\* and one that crosses the network in the clear to be told the models, or with
\* a message, does so with the user's consent (chat_window.py,
\* _key_may_be_sent).  Questions about what a model holds ask for none: see
\* ClearKeyIsAgreed.
KeysStayHome ==
    /\ keyText \in {NoKey, server}
    /\ \A s \in Servers : keyring[s] \in {NoKey, s}
    /\ \A r \in asks : /\ r.key \in {NoKey, r.server}
                       /\ r.kind = "list" /\ SendsInClear(r.server, r.key) => r.server \in agreed
    /\ request # NoRequest /\ SendsInClear(request.server, request.key) => request.server \in agreed

\* "Once per server per window: confirm before an API key goes out over plain
\* HTTP to another machine" (chat_window.py, _key_may_be_sent): no question
\* under way takes a key in the clear to a server the user did not agree to.
\* _on_model_changed asks what a model can do without looking.
ClearKeyIsAgreed == \A r \in asks : SendsInClear(r.server, r.key) => r.server \in agreed

\* What is sent is taken in whole, or the user agreed that it may not be, unless
\* a question about the key was open between the look and the sending; and the
\* context of a chat never shrinks but to what the model is known to hold
\* (_fits, "warn before sending something the model can't take in whole";
\* ollama_context, "never smaller than what this chat already used").
ContextHolds ==
    request # NoRequest /\ request.server \in Ollamas =>
        /\ request.ctx = 0 => request.prompt <= ShortPrompt
        /\ request.ctx # 0 => \/ request.ctx >= request.prompt + ReplyBudget
                              \/ request.agreed \/ request.boxed
        /\ request.ctx >= request.before \/ (request.most # 0 /\ request.ctx = request.most)

RequestsAreMeant == KeysStayHome /\ ContextHolds
=============================================================================
