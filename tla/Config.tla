--------------------------------- MODULE Config ---------------------------------
(***************************************************************************)
(* The configuration file: what a start accepts (crates/bnetccd/src/       *)
(* config.rs), what the panel's settings page shows of it and what saving  *)
(* that page writes back (crates/bnetccd/src/status.rs).                   *)
(*                                                                         *)
(* A document holds the keys that are set.  Keys nothing checks are all    *)
(* alike; "server_name" stands for them.  A document may have been written *)
(* by hand, so a table may be written inline: TOML gives it the same       *)
(* meaning, the panel's code reads some of those and not others.           *)
(***************************************************************************)
EXTENDS Policy, Values, Sequences

CONSTANTS
  Known,        \* KNOWN_PRODUCTS, the products the page has a box for
  Blank,        \* a form field left empty
  NotNumber     \* a form field that is no number

(* Neither an empty field, nor an ill-formed one, nor an absent key is a number. *)
ASSUME ConfigAssumption == Known \subseteq Product /\ {None, Blank, NotNumber} \cap Nat = {}

StringField == {"server_name", "mode", "wc3_logon", "telnet_access", "hub", "storage_path",
                "listen_bncs", "status_listen"}
IntField == {"outbound_queue", "max_frame_bytes", "d2_max_characters"}
Checkbox == {"versions_restrict", "d2_realm"}

(* The per-class numbers of the page: per_ip must be a number except for   *)
(* the pending class, the others may be blank.                             *)
ClassBox == FixedClass \X LimitField
RequiredBox == (FixedClass \ {"game_pending"}) \X {"per_ip"}

EmptyDoc ==
  [str |-> <<>>, int |-> <<>>, flag |-> <<>>, fixed |-> <<>>, products |-> <<>>,
   allowed |-> <<>>, default_channel |-> <<>>, defined |-> <<>>,
   enabled |-> FALSE, link |-> "", token |-> "", inline |-> {}]

-----------------------------------------------------------------------------
(* What a start makes of a document.                                       *)

(* The Default implementations of the configuration's structures.          *)
DefaultString(f) ==
  CASE f = "mode" -> "gaming" [] f = "wc3_logon" -> "nls" [] f = "telnet_access" -> "public"
    [] f = "listen_bncs" -> "0.0.0.0:6112" [] f = "server_name" -> "Command Center" [] OTHER -> ""
DefaultInt(f) ==
  CASE f = "outbound_queue" -> 64 [] f = "max_frame_bytes" -> 8192 [] OTHER -> 18
DefaultFlag(f) == f = "d2_realm"

Str(doc, f) == IF f \in DOMAIN doc.str THEN doc.str[f] ELSE DefaultString(f)
Num(doc, f) == IF f \in DOMAIN doc.int THEN doc.int[f] ELSE DefaultInt(f)
Flag(doc, f) == IF f \in DOMAIN doc.flag THEN doc.flag[f] ELSE DefaultFlag(f)

(* ServerConfig::wc3_legacy_logon                                          *)
LegacyLogon(v) == v \in {"legacy", "xsha1", "old"}
LogonKnown(v) == v \in {"nls", "srp"} \/ LegacyLogon(v)

(* toml::from_str: types, ranges and addresses                             *)
Parses(doc) ==
  /\ Str(doc, "listen_bncs") # "nowhere"
  /\ \A f \in DOMAIN doc.int : doc.int[f] <= U32Max

(* Config::validate                                                        *)
Validates(doc) ==
  /\ Str(doc, "mode") \in Mode
  /\ LogonKnown(Str(doc, "wc3_logon"))
  /\ DOMAIN doc.products \subseteq Product
  /\ Num(doc, "outbound_queue") >= 1
  /\ Num(doc, "max_frame_bytes") >= 16
  /\ doc.enabled => Str(doc, "hub") # ""
  /\ Num(doc, "d2_max_characters") \in 1..18
  /\ doc.link # "" => doc.link # "nowhere" /\ doc.token # ""

(* Config::version_policy: allowed maps pairs of a product and a platform  *)
VersionsValid(doc) ==
  /\ \A pair \in DOMAIN doc.allowed : pair[1] \in Product /\ pair[2] # "bad"
  /\ Flag(doc, "versions_restrict") => DOMAIN doc.allowed # {}

(* Config::channel_rules                                                   *)
TelnetAccess(v) == CASE v \in {"public", ""} -> "public" [] OTHER -> v
ChannelsValid(doc) ==
  /\ TelnetAccess(Str(doc, "telnet_access")) \in {"none", "public", "all"}
  /\ \A i \in DOMAIN doc.defined :
       /\ doc.defined[i].name # ""
       /\ doc.defined[i].telnet \in {None, "allow", "deny"}
       /\ doc.defined[i].min_flag \in {None, "none", "admin", "speaker", "operator"}
  /\ \A i, j \in DOMAIN doc.defined : doc.defined[i].name = doc.defined[j].name => i = j

(* Config::load and the checks main::run adds                              *)
StartAccepts(doc) == Parses(doc) /\ Validates(doc) /\ VersionsValid(doc) /\ ChannelsValid(doc)

(* What the server then runs with.                                         *)
ResolvedChannel(c) ==
  [c EXCEPT !.public = IF @ = None THEN c.name = "Public Chat" ELSE @,
            !.persist = @ \in {TRUE}, !.products = IF @ = None THEN {} ELSE @]
Patches(doc) == [fixed |-> doc.fixed, products |-> doc.products]
Effective(doc) ==
  LET policy == EffectivePolicy(Str(doc, "mode"), Patches(doc)) IN
  [server_name |-> Str(doc, "server_name"), storage |-> Str(doc, "storage_path"),
   panel |-> Str(doc, "status_listen"),
   legacy |-> LegacyLogon(Str(doc, "wc3_logon")),
   allowed |-> policy.allowed, limits |-> policy.clients.fixed,
   product |-> [p \in Product |-> ForProduct(policy.clients, p)],
   queue |-> Num(doc, "outbound_queue"), frame |-> Num(doc, "max_frame_bytes"),
   characters |-> Num(doc, "d2_max_characters"),
   realm |-> Flag(doc, "d2_realm") /\ Str(doc, "mode") # "warnet", link |-> doc.link,
   versions |-> <<Flag(doc, "versions_restrict"), doc.allowed>>,
   telnet |-> TelnetAccess(Str(doc, "telnet_access")),
   channels |-> {ResolvedChannel(doc.defined[i]) : i \in DOMAIN doc.defined},
   landing |-> doc.default_channel, federated |-> doc.enabled]

(* VersionPolicy::allows                                                   *)
VersionAllowed(doc, product, platform, byte) ==
  \/ ~Flag(doc, "versions_restrict")
  \/ <<product, platform>> \in DOMAIN doc.allowed /\ byte \in doc.allowed[<<product, platform>>]

(* ChannelRules::telnet_may_join, for a channel name and whether that name *)
(* is a public one                                                         *)
TelnetMayJoin(doc, name, publicName) ==
  LET rules == {i \in DOMAIN doc.defined : doc.defined[i].name = name}
      Default(public) == CASE TelnetAccess(Str(doc, "telnet_access")) = "none" -> FALSE
                           [] TelnetAccess(Str(doc, "telnet_access")) = "all" -> TRUE
                           [] OTHER -> public
  IN  IF rules = {} THEN Default(publicName)
      ELSE LET c == doc.defined[CHOOSE i \in rules : TRUE]
           IN  IF c.telnet # None THEN c.telnet = "allow" ELSE Default(ResolvedChannel(c).public)

-----------------------------------------------------------------------------
(* The settings page: the form as it is filled in before anybody types.    *)

(* The page's own defaults for absent keys: two of them are not those of a  *)
(* start, which keeps the accounts in memory and serves no panel.          *)
PageString(f) ==
  CASE f = "storage_path" -> "bnetccd.db" [] f = "status_listen" -> "127.0.0.1:6114"
    [] OTHER -> DefaultString(f)
PageNumber(box) ==
  CASE box = <<"game_default", "per_ip">> -> 8 [] box = <<"gateway", "per_ip">> -> 1 [] OTHER -> 4

(* A <select> shows its first option when none of them is the value set.   *)
Selected(options, v) ==
  IF \E i \in DOMAIN options : options[i] = v THEN v ELSE options[1]
Options(f) ==
  CASE f = "mode" -> <<"gaming", "warnet", "both">> [] f = "wc3_logon" -> <<"nls", "legacy">>
    [] OTHER -> <<"public", "none", "all">>

(* cfg_channels_text reads an array of tables and no inline array.         *)
ChannelLines(doc) ==
  IF "defined" \in doc.inline THEN <<>>
  ELSE [i \in DOMAIN doc.defined |->
          LET c == doc.defined[i]
          IN  [name |-> c.name, max_users |-> IF c.max_users = None THEN Blank ELSE c.max_users,
               products |-> IF c.products = None THEN {} ELSE c.products,
               public |-> c.public, persist |-> c.persist]]

SettingsPage(doc) ==
  LET shown(f) == IF f \in DOMAIN doc.str THEN doc.str[f] ELSE PageString(f)
  IN  [str |-> [f \in StringField |->
                  IF f \in {"mode", "wc3_logon", "telnet_access"}
                  THEN Selected(Options(f), shown(f)) ELSE shown(f)],
       int |-> [f \in IntField |-> Num(doc, f)],
       ticked |-> {f \in Checkbox : Flag(doc, f)},
       box |-> [b \in ClassBox |->
                  IF b[1] \in DOMAIN doc.fixed /\ b[2] \in DOMAIN doc.fixed[b[1]]
                  THEN doc.fixed[b[1]][b[2]]
                  ELSE IF b \in RequiredBox THEN PageNumber(b) ELSE Blank],
       product |-> [p \in Known |->
                      IF p \in DOMAIN doc.products /\ "per_ip" \in DOMAIN doc.products[p]
                      THEN doc.products[p]["per_ip"] ELSE Blank],
       node |-> doc.enabled,
       versions |-> {[pair |-> p, bytes |-> doc.allowed[p]] : p \in DOMAIN doc.allowed},
       landing |-> {[product |-> p, channel |-> doc.default_channel[p]] :
                      p \in DOMAIN doc.default_channel},
       channels |-> ChannelLines(doc)]

-----------------------------------------------------------------------------
(* Saving the form: do_settings_config stages the edits in the document.   *)

Number(raw) == raw \notin {Blank, NotNumber} /\ raw >= 0
NumberOrBlank(raw) == raw = Blank \/ Number(raw)

(* The early returns, before anything is validated.  A line of a text area *)
(* that has no "=" or no product is the line NotNumber stands for.         *)
FormRefused(form) ==
  \/ \E f \in IntField : ~Number(form.int[f])
  \/ \E b \in RequiredBox : ~Number(form.box[b])
  \/ \E b \in ClassBox \ RequiredBox : ~NumberOrBlank(form.box[b])
  \/ form.node /\ form.str["hub"] = ""
  \/ \E p \in Known : ~NumberOrBlank(form.product[p])
  \/ \E line \in form.versions : \E b \in line.bytes : ~Number(b)
  \/ \E line \in form.landing : line.product = "" \/ line.channel = ""
  \/ \E i \in DOMAIN form.channels :
       form.channels[i].name = "" \/ ~NumberOrBlank(form.channels[i].max_users)

(* One table of limits with one key set, or removed when the box is blank. *)
WithKey(patch, f, raw) ==
  [g \in IF raw = Blank THEN DOMAIN patch \ {f} ELSE DOMAIN patch \cup {f} |->
     IF g = f THEN raw ELSE patch[g]]

(* An absent table counts as an empty one.                                 *)
TableOf(tables, k) == IF k \in DOMAIN tables THEN tables[k] ELSE <<>>

(* limits.clients.<class>: every box of the class written or removed       *)
EditedClass(box, c) ==
  [f \in {g \in LimitField : box[<<c, g>>] # Blank} |-> box[<<c, f>>]]

(* limits.clients.products: products without a box are kept, the others    *)
(* keep the keys the page does not show; an empty entry is dropped.  An    *)
(* inline table is not seen.                                               *)
EditedProducts(doc, form) ==
  LET old == IF "products" \in doc.inline THEN <<>> ELSE doc.products
      edited == [p \in Known |-> WithKey(TableOf(old, p), "per_ip", form.product[p])]
  IN  [p \in (DOMAIN old \ Known) \cup {q \in Known : DOMAIN edited[q] # {}} |->
         IF p \in Known THEN edited[p] ELSE old[p]]

FreshChannel == [name |-> "", max_users |-> None, products |-> None, public |-> None,
                 persist |-> None, telnet |-> None, min_flag |-> None]

(* channels.defined: each line starts from the table of that name, so the  *)
(* options the page does not show survive                                  *)
EditedChannel(doc, line) ==
  LET named == {i \in DOMAIN doc.defined : doc.defined[i].name = line.name}
      old == IF named = {} \/ "defined" \in doc.inline THEN FreshChannel
             ELSE doc.defined[CHOOSE i \in named : \A j \in named : j <= i]
  IN  [old EXCEPT !.name = line.name,
                  !.max_users = IF line.max_users = Blank THEN None ELSE line.max_users,
                  !.products = IF line.products = {} THEN None ELSE line.products,
                  !.public = line.public, !.persist = line.persist]

Staged(doc, form) ==
  [str |-> form.str,
   int |-> form.int,
   flag |-> [f \in Checkbox |-> f \in form.ticked],
   fixed |-> [c \in FixedClass |-> EditedClass(form.box, c)],
   products |-> EditedProducts(doc, form),
   allowed |-> [p \in {line.pair : line \in form.versions} |->
                  (CHOOSE line \in form.versions : line.pair = p).bytes],
   default_channel |-> [p \in {line.product : line \in form.landing} |->
                          (CHOOSE line \in form.landing : line.product = p).channel],
   defined |-> [i \in DOMAIN form.channels |-> EditedChannel(doc, form.channels[i])],
   enabled |-> form.node, link |-> doc.link, token |-> doc.token,
   inline |-> doc.inline \ {"products", "defined"}]

(* What do_settings_config writes, or None when the form is refused.       *)
SaveUnchecked(doc, form) == IF FormRefused(form) THEN None ELSE Staged(doc, form)
Save(doc, form) ==
  IF FormRefused(form) \/ ~StartAccepts(Staged(doc, form)) THEN None ELSE Staged(doc, form)

-----------------------------------------------------------------------------
(* A document that says where the accounts are and whether there is a      *)
(* panel, names the logon method as the page does and writes its tables    *)
(* out: what the launcher's own file and the panel's saves look like.      *)
HouseStyle(doc) ==
  /\ {"storage_path", "status_listen"} \subseteq DOMAIN doc.str
  /\ Str(doc, "wc3_logon") \in {"nls", "srp", "legacy"}
  /\ doc.inline = {}

(* Opening the settings page and saving it as it is changes nothing the    *)
(* server would run with.                                                  *)
SavesItself(doc) == Effective(Save(doc, SettingsPage(doc))) = Effective(doc)
=============================================================================
