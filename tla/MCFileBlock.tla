---------------------------- MODULE MCFileBlock ----------------------------
(* Four blocks, with the default formats of the program and one or two of  *)
(* a user, on small files. A unit is 4 of the smaller one, a kB 3 bytes.   *)
EXTENDS FileBlock

MCKind == {"battery", "memory", "load", "network"}

MCFields ==
    "battery" :> {"name", "model_name", "status", "charge_full"}
    @@ "memory" :> {"MemTotal", "MemFree", "Cached", "Active"}
    @@ "load" :> {"loadavg_1m", "running_kthreads_cnt", "total_kthreads_cnt",
                  "last_created_process_pid"}

(* model_name ends with name, charge_full_design begins with charge_full. *)
MCWords ==
    "name" :> <<"name">> @@ "model_name" :> <<"model_", "name">>
    @@ "status" :> <<"status">> @@ "charge_full" :> <<"charge_full">>
    @@ "MemTotal" :> <<"MemTotal">> @@ "MemFree" :> <<"MemFree">>
    @@ "Cached" :> <<"Cached">> @@ "Active" :> <<"Active">>
    @@ "loadavg_1m" :> 1 @@ "running_kthreads_cnt" :> 4
    @@ "total_kthreads_cnt" :> 5 @@ "last_created_process_pid" :> 6

MCAmount == [w \in {"1", "2", "5", "6", "40"} |->
               CASE w = "1" -> 1 [] w = "2" -> 2 [] w = "5" -> 5 [] w = "6" -> 6 [] w = "40" -> 40]

Says(key, val) == [key |-> key, val |-> val]

MCFiles ==
    "battery" :>
      { <<Says(<<"name">>, "BAT0"), Says(<<"status">>, "Charging"),
          Says(<<"charge_full", "_design">>, "50"), Says(<<"charge_full">>, "47"),
          Says(<<"model_", "name">>, "X1")>>,
        <<Says(<<"name">>, "BAT0"), Says(<<"status">>, "Full")>> }
    @@ "memory" :>
      { <<Says(<<"MemTotal">>, "40"), Says(<<"MemFree">>, "5"), Says(<<"Cached">>, "1"),
          Says(<<"Swap", "Cached">>, "2"), Says(<<"Active">>, "2"),
          Says(<<"Active", "(anon)">>, "1")>>,
        <<Says(<<"MemTotal">>, "40"), Says(<<"MemFree">>, "6")>>,
        <<Says(<<"MemTotal">>, "40"), Says(<<"Active", "(anon)">>, "1"),
          Says(<<"Active">>, "2")>> }
    @@ "load" :> { <<"0.1", "0.2", "0.3", "1", "90", "777">>, <<>> }
    @@ "network" :>
      { <<>>,
        <<[name |-> "lan", dhcp |-> TRUE, rx |-> 16, inet |-> <<"10.0.0.2", "10.0.0.3", "10.0.0.4">>],
          [name |-> "wlan", dhcp |-> FALSE, rx |-> 17, inet |-> <<>>]>>,
        <<[name |-> "wlan", dhcp |-> FALSE, rx |-> 4, inet |-> <<"10.0.1.9">>]>> }

W(word)       == [word |-> word]
F(name)       == [name |-> name, spec |-> <<>>]
S(name, spec) == [name |-> name, spec |-> <<spec>>]
N(name, body) == [name |-> name, body |-> body]
Set(formats, extra) == [formats |-> formats, extra |-> extra]

MCSettings ==
    "battery" :>
      { Set(<< <<N("has_battery", <<N("per_battery_fmt_str",
                  <<F("status"), W(" "), F("charge_full"), W("uAh")>>)>>)>> >>, <<>>),
        Set(<< <<W(Quote), N("per_battery_fmt_str",
                  <<N("is_charging", <<W("+"), F("name")>>), F("model_name"),
                    N("is_full", <<W("=")>>)>>), W(Quote)>>,
               <<>> >>, <<"color", "separator">>) }
    @@ "memory" :>
      { Set(<< <<W("Mem Free="), F("MemFree"), W("/Total="), F("MemTotal")>> >>, <<>>),
        Set(<< <<S("Active", "K"), W(" "), S("MemTotal", "A")>>, <<S("Cached", "M")>> >>,
            <<"color">>),
        Set(<< <<W("Total="), S("MemTotal", "B")>> >>, <<>>) }
    @@ "load" :>
      { Set(<< <<W("1m: "), F("loadavg_1m")>> >>, <<>>),
        Set(<< <<F("running_kthreads_cnt"), W("/"), F("total_kthreads_cnt")>>,
               <<W("("), F("loadavg_1m"), W(")")>> >>, <<"separator">>),
        Set(<< <<W(Backslash), F("last_created_process_pid")>> >>, <<>>) }
    @@ "network" :>
      { Set(<< <<N("is_connected", <<N("per_interface_fmt_str",
                  <<F("name"), W(" "), N("is_dhcp", <<W("DHCP ")>>), W("in: "), F("rx_bytes"),
                    W(" "), S("ipv4_addrs", "1")>>)>>)>>,
               <<N("is_connected", <<N("per_interface_fmt_str", <<F("name")>>)>>)>> >>, <<>>),
        Set(<< <<N("is_not_connected", <<W("offline")>>),
                 N("per_interface_fmt_str", <<S("ipv4_addrs", "2"), W("|"), F("ipv4_addrs"),
                                              S("rx_bytes", "K")>>)>> >>, <<"color">>) }
=============================================================================
