------------------------------ MODULE MCBench ------------------------------
(***************************************************************************)
(* Bench for TLC: the sessions, each a part of the tests with the faults   *)
(* that they are there to find; and one for a single DCFEB.                *)
(***************************************************************************)
EXTENDS Bench

Session(tests, with, odmbs, kinds, files) ==
    [tests |-> tests, faults |-> with, odmbs |-> odmbs, kinds |-> kinds, files |-> files]

MCSessions ==
    {Session({"LVMBtest", "LVMB5test", "LVMB904", "VoltageCurrentTest", "SYSMON", "LVMBtest_dos",
              "SetDCFEBMode"},
             {<<"dead", 0>>, <<"dead", 1>>, <<"supply", 0>>, <<"supply", 1>>, <<"supply", 5>>,
              <<"stays on", 3>>, <<"stays off", 4>>, <<"voltage", 1>>, <<"stuck on", 1>>},
             {"ODMB"}, Kinds, {}),
     Session({"DCFEBJTAGcontrol", "DCFEBPulses", "LVMB904", "SetDCFEBMode"},
             {<<"mask", 1>>, <<"absent", 2>>, <<"stuck on", 2>>},
             {"ODMB"}, Kinds, {}),
     Session({"DCFEBFiber", "DCFEBPulses", "ReprogramDCFEB", "SetDCFEBMode"},
             {<<"absent", 2>>, <<"no pulse", 1>>,
              <<"no resync", 1>>, <<"no resync", 2>>, <<"packets", 1>>, <<"crc", 2>>},
             {"ODMB"}, Kinds, {}),
     Session({"PCPRBSTest", "DDUPRBSTest", "OTMBPRBSTest", "ClockChipTest", "CCBReg",
              "DiscreteLogicTest", "ResetRegisters"},
             {<<"link", 1>>, <<"link", 2>>, <<"link", 3>>, <<"clock chip", 0>>,
              <<"ccb data", 0>>, <<"ccb command", 0>>,
              <<"user code", 0>>} \cup ({"ccb line"} \X (0..10)),
             Odmbs, {"DCFEB"}, {}),
     Session({"SPIcheck", "HardReset"},
             {<<"spi", c>> : c \in Commands \cup {"Enable", "Disable", "Reset FSM"}}
               \cup {<<"cfg", r>> : r \in CfgRegs}
               \cup {<<"cfg load", 0>>, <<"cfg save", 0>>, <<"soft reset", 0>>},
             {"ODMB7"}, {"DCFEB"}, Files),
     Session({"SPIcheck", "HardReset", "SetDCFEBMode"}, {}, {"ODMB7"}, {"DCFEB"}, {"A"}),
     Session({"MCSBackAndForthBPI", "LoadMCSviaBPI", "HardReset", "DiscreteLogicTest",
              "SPIcheck"},
             {<<"bpi", 0>>, <<"not listed", 0>>},
             {"ODMB"}, {"DCFEB"}, Files),
     Session({"MasterTest", "DCFEBPulses", "SetDCFEBMode"},
             {<<"link", 3>>, <<"supply", 1>>},
             {"ODMB"}, {"DCFEB"}, {})}
=============================================================================
