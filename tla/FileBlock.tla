----------------------------- MODULE FileBlock -----------------------------
(***************************************************************************)
(* A block that reads a file, on the bar: a print looks up the values in   *)
(* what an update has read (FileRead), expands the formats with them and   *)
(* prints the JSON object of the block (Formats).                          *)
(***************************************************************************)
EXTENDS FileRead, Formats, TLC

CONSTANT Settings    \* configurations of the block: formats and properties

VARIABLES
    setting,   \* the formats and properties of this block
    printed    \* the object printed last

vars == <<readVars, setting, printed>>

Init == ReadInit /\ setting \in Settings[kind] /\ printed = <<>>

----------------------------------------------------------------------------
(* Printing: what a name stands for *)

Text(s)  == [is |-> "text", val |-> s]
Size(n)  == IF n = Hang THEN [is |-> "none"] ELSE [is |-> "size", val |-> n]
Cond(b)  == [is |-> "cond", val |-> b]

(* The values of one interface, and of all. *)
InterfaceArgs(i) ==
    "name" :> Text(<<i.name>>) @@ "is_dhcp" :> Cond(i.dhcp)
    @@ "rx_bytes" :> Size(i.rx) @@ "ipv4_addrs" :> [is |-> "addrs", val |-> i.inet]

NetworkArgs(interfaces) ==
    "is_connected" :> Cond(interfaces # <<>>)
    @@ "is_not_connected" :> Cond(interfaces = <<>>)
    @@ "per_interface_fmt_str" :>
         [is |-> "list", sep |-> <<" ">>,
          val |-> [i \in DOMAIN interfaces |-> InterfaceArgs(interfaces[i])]]

(* The values of the battery, when value gives what its file says. *)
BatteryArgs(value) ==
    "has_battery" :> Cond(TRUE)
    @@ "per_battery_fmt_str" :>
         [is |-> "list", sep |-> <<>>,
          val |-> << "type" :> Text(<<"battery">>)
                     @@ "is_charging" :> Cond(value["status"] = <<"Charging">>)
                     @@ "is_full"     :> Cond(value["status"] = <<"Full">>)
                     @@ [n \in Fields["battery"] |-> Text(value[n])] >>]

ArgsOf(value, interfaces) ==
    CASE kind = "battery" -> BatteryArgs(value)
      [] kind = "memory"  -> [n \in Fields[kind] |-> Size(value[n])]
      [] kind = "load"    -> [n \in Fields[kind] |-> Text(value[n])]
      [] kind = "network" -> NetworkArgs(interfaces)

FormatTexts == [i \in DOMAIN setting.formats |-> Written(setting.formats[i])]

(* Where the expansion ends, when it does not reach the end of the text.   *)
Ends(text) == SelectSeq(text, LAMBDA word : word \in {Thrown, Endless})

DoPrint ==
    LET text == BlockText(FormatTexts, setting.extra, ArgsOf(Looked, table))
        ends == Ends(text)
    IN  /\ LookUp
        /\ \/ ends = <<>> /\ pc' = "printed" /\ printed' = text
           \/ ends # <<>> /\ UNCHANGED printed
              /\ pc' = IF Head(ends) = Thrown THEN "rejected" ELSE "searching"
        /\ UNCHANGED setting

Next ==
    \/ UpdateNext /\ UNCHANGED <<setting, printed>>
    \/ DoPrint

Spec == Init /\ [][Next]_vars

----------------------------------------------------------------------------
(* Properties *)

PropertiesMeant(extra) ==
    [i \in DOMAIN extra |-> <<Property(extra[i])>>]
    \o (IF Contains(extra, "separator") THEN <<>> ELSE <<<<DefaultProperty>>>>)

Meant ==
    LET args == ArgsOf(IF kind = "network" THEN <<>> ELSE [n \in Fields[kind] |-> InFile(n)], file)
    IN  [i \in DOMAIN setting.formats |-> Meaning(setting.formats[i], args)]

(* A reader of the printed object finds the texts the formats mean, with   *)
(* the values of the file, nested conditions and lists, sizes and limits   *)
(* of addresses, and the properties of the configuration with exactly one  *)
(* separator; unless a text has a backslash or the end of a line, which    *)
(* the bar does not escape (find_end_of_format, the formatters,            *)
(* Base::update_and_print, get_user_specified_property_str_impl2).         *)
PrintsAsMeant ==
    pc = "printed" /\ KernelOrder
    /\ (\A i \in DOMAIN Meant : ~Contains(Meant[i], Backslash) /\ ~Contains(Meant[i], Newline))
    => Decoded(printed) = [i \in DOMAIN Meant |-> <<TextName[i], Meant[i]>>]
                          \o PropertiesMeant(setting.extra)
=============================================================================
