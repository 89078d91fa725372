------------------------------- MODULE DrugData -------------------------------
(***************************************************************************)
(* The literal data of src/crawl_drug_data.py, with every string written  *)
(* as its sequence of Unicode code points (the names are Chinese, and the *)
(* keyword tests of the script are substring tests on them).  The text in *)
(* each trailing comment is the string as the source spells it.           *)
(***************************************************************************)

(* COMMON_DRUGS, lines 28-39.                                              *)
COMMON_DRUGS == <<
  [name |-> <<38463, 33707, 35199, 26519, 33014, 22218>>,  \* \u963f\u83ab\u897f\u6797\u80f6\u56ca
   form |-> <<33014, 22218>>, spec |-> <<48, 46, 50, 53, 103, 42, 50, 52, 31890>>,
   manufacturer |-> <<21326, 21271, 21046, 33647, 32929, 20221, 26377, 38480, 20844, 21496>>],
  [name |-> <<22836, 23394, 20811, 32927, 33014, 22218>>,  \* \u5934\u5b62\u514b\u809f\u80f6\u56ca
   form |-> <<33014, 22218>>, spec |-> <<48, 46, 49, 103, 42, 49, 50, 31890>>,
   manufacturer |-> <<40784, 40065, 21046, 33647, 26377, 38480, 20844, 21496>>],
  [name |-> <<24067, 27931, 33452, 32531, 37322, 33014, 22218>>,  \* \u5e03\u6d1b\u82ac\u7f13\u91ca\u80f6\u56ca
   form |-> <<33014, 22218>>, spec |-> <<48, 46, 51, 103, 42, 50, 48, 31890>>,
   manufacturer |-> <<20013, 32654, 22825, 27941, 21490, 20811, 21046, 33647, 26377, 38480, 20844, 21496>>],
  [name |-> <<23545, 20057, 37232, 27688, 22522, 37210, 29255>>,  \* \u5bf9\u4e59\u9170\u6c28\u57fa\u915a\u7247
   form |-> <<29255, 21058>>, spec |-> <<48, 46, 53, 103, 42, 49, 48, 29255>>,
   manufacturer |-> <<21326, 28070, 19977, 20061, 21307, 33647, 32929, 20221, 26377, 38480, 20844, 21496>>],
  [name |-> <<22797, 26041, 29976, 33609, 29255>>,  \* \u590d\u65b9\u7518\u8349\u7247
   form |-> <<29255, 21058>>, spec |-> <<50, 52, 29255>>,
   manufacturer |-> <<21271, 20140, 21516, 20161, 22530, 32929, 20221, 26377, 38480, 20844, 21496>>],
  [name |-> <<26495, 34013, 26681, 39063, 31890>>,  \* \u677f\u84dd\u6839\u9897\u7c92
   form |-> <<39063, 31890, 21058>>, spec |-> <<49, 48, 103, 42, 50, 48, 34955>>,
   manufacturer |-> <<24191, 24030, 30333, 20113, 23665, 21644, 35760, 40644, 22484, 20013, 33647, 26377, 38480, 20844, 21496>>],
  [name |-> <<24863, 20882, 28789, 39063, 31890>>,  \* \u611f\u5192\u7075\u9897\u7c92
   form |-> <<39063, 31890, 21058>>, spec |-> <<49, 48, 103, 42, 57, 34955>>,
   manufacturer |-> <<21326, 28070, 19977, 20061, 21307, 33647, 32929, 20221, 26377, 38480, 20844, 21496>>],
  [name |-> <<21452, 27695, 33452, 37240, 38048, 32531, 37322, 29255>>,  \* \u53cc\u6c2f\u82ac\u9178\u94a0\u7f13\u91ca\u7247
   form |-> <<29255, 21058>>, spec |-> <<55, 53, 109, 103, 42, 49, 48, 29255>>,
   manufacturer |-> <<21271, 20140, 35834, 21326, 21046, 33647, 26377, 38480, 20844, 21496>>],
  [name |-> <<22885, 32654, 25289, 21777, 32928, 28342, 33014, 22218>>,  \* \u5965\u7f8e\u62c9\u5511\u80a0\u6eb6\u80f6\u56ca
   form |-> <<33014, 22218>>, spec |-> <<50, 48, 109, 103, 42, 49, 52, 31890>>,
   manufacturer |-> <<38463, 26031, 21033, 24247, 21046, 33647, 26377, 38480, 20844, 21496>>],
  [name |-> <<33945, 33073, 30707, 25955>>,  \* \u8499\u8131\u77f3\u6563
   form |-> <<25955, 21058>>, spec |-> <<51, 103, 42, 49, 48, 34955>>,
   manufacturer |-> <<21338, 31119, 45, 30410, 26222, 29983, 21046, 33647, 26377, 38480, 20844, 21496>>]
  >>

(* common_drug_names, lines 128-155; the comment is the 0-based index.   *)
common_drug_names == <<
  <<38463, 21496, 21305, 26519, 32928, 28342, 29255>>,  \* 0
  <<27688, 21654, 40644, 25935, 33014, 22218>>,  \* 1
  <<22797, 26041, 27688, 37210, 28919, 33018, 29255>>,  \* 2
  <<32500, 67, 38134, 32728, 29255>>,  \* 3
  <<57, 57, 57, 24863, 20882, 28789, 39063, 31890>>,  \* 4
  <<36830, 33457, 28165, 30239, 33014, 22218>>,  \* 5
  <<33970, 22320, 34013, 28040, 28814, 29255>>,  \* 6
  <<34013, 33449, 21475, 26381, 28082>>,  \* 7
  <<24613, 25903, 31958, 27974>>,  \* 8
  <<24029, 36125, 26503, 26487, 33167>>,  \* 9
  <<34503, 32966, 24029, 36125, 28082>>,  \* 10
  <<24378, 21147, 26503, 26487, 38706>>,  \* 11
  <<22836, 23394, 25289, 23450, 33014, 22218>>,  \* 12
  <<22836, 23394, 27688, 33476, 33014, 22218>>,  \* 13
  <<22836, 23394, 21579, 36763, 37231, 29255>>,  \* 14
  <<22836, 23394, 22320, 23612, 33014, 22218>>,  \* 15
  <<38463, 22855, 38665, 32032, 29255>>,  \* 16
  <<32599, 32418, 38665, 32032, 33014, 22218>>,  \* 17
  <<20811, 25289, 38665, 32032, 29255>>,  \* 18
  <<24038, 27687, 27679, 27801, 26143, 29255>>,  \* 19
  <<35834, 27679, 27801, 26143, 33014, 22218>>,  \* 20
  <<29615, 19993, 27801, 26143, 29255>>,  \* 21
  <<30002, 30813, 21777, 29255>>,  \* 22
  <<26367, 30813, 21777, 29255>>,  \* 23
  <<30002, 30813, 21777, 38452, 36947, 27873, 33150, 29255>>,  \* 24
  <<20811, 38665, 21777, 26643>>,  \* 25
  <<21674, 24247, 21777, 26643>>,  \* 26
  <<21046, 38665, 33740, 32032, 29255>>,  \* 27
  <<22797, 26041, 29976, 33609, 21475, 26381, 28342, 28082>>,  \* 28
  <<27688, 28340, 32034, 21475, 26381, 28342, 28082>>,  \* 29
  <<20057, 37232, 21322, 33009, 27688, 37240, 27873, 33150, 29255>>,  \* 30
  <<26697, 26592, 33934, 32928, 28342, 36719, 33014, 22218>>,  \* 31
  <<27801, 19969, 33018, 37255, 27668, 38654, 21058>>,  \* 32
  <<24067, 22320, 22856, 24503, 27668, 38654, 21058>>,  \* 33
  <<24322, 19993, 25176, 28340, 38133, 27668, 38654, 21058>>,  \* 34
  <<33590, 30897, 32531, 37322, 29255>>,  \* 35
  <<23391, 40065, 21496, 29305, 38048, 29255>>,  \* 36
  <<27695, 38647, 20182, 23450, 29255>>,  \* 37
  <<35199, 26367, 21033, 21994, 29255>>,  \* 38
  <<20381, 24052, 26031, 27712, 29255>>,  \* 39
  <<39532, 26469, 37240, 27695, 33519, 37027, 25935, 29255>>,  \* 40
  <<36187, 24218, 21878, 29255>>,  \* 41
  <<37230, 26367, 33452, 29255>>,  \* 42
  <<23500, 39532, 37240, 37230, 26367, 33452, 29255>>,  \* 43
  <<22885, 32654, 25289, 21777, 32928, 28342, 29255>>,  \* 44
  <<20848, 32034, 25289, 21777, 32928, 28342, 29255>>,  \* 45
  <<38647, 36125, 25289, 21777, 38048, 32928, 28342, 29255>>,  \* 46
  <<27886, 25176, 25289, 21777, 38048, 32928, 28342, 29255>>,  \* 47
  <<22810, 28504, 31435, 37230, 29255>>,  \* 48
  <<33707, 27801, 24517, 21033, 29255>>,  \* 49
  <<35199, 27801, 24517, 21033, 29255>>,  \* 50
  <<30002, 27687, 27695, 26222, 33018, 29255>>,  \* 51
  <<22810, 37238, 29255>>,  \* 52
  <<22797, 26041, 28040, 21270, 37238, 33014, 22218>>,  \* 53
  <<21452, 27495, 26438, 33740, 19977, 32852, 27963, 33740, 33014, 22218>>,  \* 54
  <<26543, 33609, 26438, 33740, 20108, 32852, 27963, 33740, 39063, 31890>>,  \* 55
  <<33945, 33073, 30707, 25955>>,  \* 56
  <<27931, 21708, 19969, 33018, 33014, 22218>>,  \* 57
  <<32858, 20057, 20108, 37255, 52, 48, 48, 48, 25955>>,  \* 58
  <<20083, 26524, 31958, 21475, 26381, 28342, 28082>>,  \* 59
  <<24320, 22622, 38706>>,  \* 60
  <<29976, 27833, 26643>>,  \* 61
  <<37210, 37214, 29255>>,  \* 62
  <<27604, 27801, 21487, 21878, 32928, 28342, 29255>>,  \* 63
  <<22797, 26041, 22320, 33452, 35834, 37231, 29255>>,  \* 64
  <<28040, 26059, 21345, 22810, 26354, 39063, 31890>>,  \* 65
  <<21452, 27495, 26438, 33740, 27963, 33740, 33014, 22218>>,  \* 66
  <<37226, 37240, 26797, 33740, 27963, 33740, 29255>>,  \* 67
  <<32654, 27801, 25289, 31206, 32928, 28342, 29255>>,  \* 68
  <<26611, 27694, 30970, 21537, 21878, 32928, 28342, 29255>>,  \* 69
  <<22885, 27801, 25289, 31206, 38048, 33014, 22218>>,  \* 70
  <<24052, 26611, 27694, 38048, 29255>>,  \* 71
  <<30002, 27688, 34678, 21604, 29255>>,  \* 72
  <<26469, 27679, 31859, 29305, 29255>>,  \* 73
  <<32671, 27695, 21945, 29255>>,  \* 74
  <<30827, 21777, 22028, 21604, 29255>>,  \* 75
  <<29615, 23394, 32032, 36719, 33014, 22218>>,  \* 76
  <<20182, 20811, 33707, 21496, 33014, 22218>>,  \* 77
  <<21527, 26367, 40614, 32771, 37210, 37231, 33014, 22218>>,  \* 78
  <<26469, 27679, 31859, 29305, 29255>>,  \* 79
  <<30002, 27900, 23612, 40857, 29255>>,  \* 80
  <<27900, 23612, 26494, 29255>>,  \* 81
  <<22320, 22622, 31859, 26494, 29255>>,  \* 82
  <<27682, 21270, 21487, 30340, 26494, 29255>>,  \* 83
  <<24067, 27931, 33452, 29255>>,  \* 84
  <<21452, 27695, 33452, 37240, 38048, 29255>>,  \* 85
  <<21554, 21722, 32654, 36763, 29255>>,  \* 86
  <<32654, 27931, 26132, 24247, 29255>>,  \* 87
  <<22622, 26469, 26132, 24067, 33014, 22218>>,  \* 88
  <<20381, 25176, 32771, 26132, 29255>>,  \* 89
  <<24085, 29790, 26132, 24067, 38048>>,  \* 90
  <<23545, 20057, 37232, 27688, 22522, 37210, 29255>>,  \* 91
  <<26354, 39532, 22810, 32531, 37322, 29255>>,  \* 92
  <<21487, 24453, 22240, 29255>>,  \* 93
  <<21527, 21857, 29255>>,  \* 94
  <<33452, 22826, 23612, 36879, 30382, 36148, 21058>>,  \* 95
  <<21345, 39532, 35199, 24179, 29255>>,  \* 96
  <<33519, 22949, 33521, 38048, 29255>>,  \* 97
  <<19993, 25098, 37240, 38048, 29255>>,  \* 98
  <<25289, 33707, 19977, 21994, 29255>>,  \* 99
  <<24038, 20057, 25289, 35199, 22374, 29255>>,  \* 100
  <<25176, 21537, 37231, 29255>>,  \* 101
  <<21152, 24052, 21943, 19969, 33014, 22218>>,  \* 102
  <<22885, 21345, 35199, 24179, 29255>>   \* 103
  >>

(* forms, line 157.                                                       *)
forms == <<
  <<29255, 21058>>,  \* 0
  <<33014, 22218>>,  \* 1
  <<39063, 31890, 21058>>,  \* 2
  <<21475, 26381, 28082>>,  \* 3
  <<27880, 23556, 28082>>,  \* 4
  <<36719, 33167>>,  \* 5
  <<26643, 21058>>,  \* 6
  <<27668, 38654, 21058>>   \* 7
  >>

(* manufacturers, lines 158-163.                                          *)
manufacturers == <<
  <<21326, 21271, 21046, 33647, 32929, 20221, 26377, 38480, 20844, 21496>>,  \* 0
  <<40784, 40065, 21046, 33647, 26377, 38480, 20844, 21496>>,  \* 1
  <<20013, 32654, 22825, 27941, 21490, 20811, 21046, 33647, 26377, 38480, 20844, 21496>>,  \* 2
  <<21326, 28070, 19977, 20061, 21307, 33647, 32929, 20221, 26377, 38480, 20844, 21496>>,  \* 3
  <<21271, 20140, 21516, 20161, 22530, 32929, 20221, 26377, 38480, 20844, 21496>>,  \* 4
  <<24191, 24030, 30333, 20113, 23665, 21644, 35760, 40644, 22484, 20013, 33647, 26377, 38480, 20844, 21496>>,  \* 5
  <<21271, 20140, 35834, 21326, 21046, 33647, 26377, 38480, 20844, 21496>>,  \* 6
  <<38463, 26031, 21033, 24247, 21046, 33647, 26377, 38480, 20844, 21496>>,  \* 7
  <<21338, 31119, 45, 30410, 26222, 29983, 21046, 33647, 26377, 38480, 20844, 21496>>,  \* 8
  <<36745, 29790, 21046, 33647, 26377, 38480, 20844, 21496>>,  \* 9
  <<25308, 32819, 21307, 33647, 20445, 20581, 26377, 38480, 20844, 21496>>,  \* 10
  <<33883, 20848, 32032, 21490, 20811, 21046, 33647, 26377, 38480, 20844, 21496>>   \* 11
  >>

(* String literals of the functions, lines 180-235.                       *)
DefaultNamePrefix == <<33647, 21697>>  \* line 213, f"药品{index}"
DefaultForm == <<29255, 21058>>  \* line 214
ColdChain == <<50, 45, 56, 8451, 20919, 34255>>  \* line 183
CoolDry == <<23494, 23553, 65292, 32622, 38452, 20937, 24178, 29157, 22788>>  \* line 185
Dry == <<23494, 23553, 65292, 32622, 24178, 29157, 22788>>  \* line 187

ColdKeywords == << <<27880, 23556>>, <<36755, 28082>>, <<29983, 29289>>, <<30123, 33495>> >>  \* line 182
CapsuleKeywords == << <<33014, 22218>>, <<36719, 33014, 22218>> >>  \* line 184
special_keywords == << <<21527, 21857>>, <<21487, 24453, 22240>>, <<33452, 22826, 23612>>, <<26460, 20919, 19969>>, <<38463, 29255>>, <<32578, 31903>>, <<40635, 40644>>, <<21487, 21345, 22240>> >>  \* line 191

(* The unit chain, lines 226-235: <<spec keyword, form keyword, unit>>.  *)
UnitRules == << <<<<29255>>, <<29255, 21058>>, <<29255>>>>, <<<<31890>>, <<33014, 22218>>, <<31890>>>>, <<<<34955>>, <<39063, 31890>>, <<34955>>>>, <<<<25903>>, <<27880, 23556>>, <<25903>>>> >>
DefaultUnit == <<30418>>  \* line 235

(* The pieces of the random spec of line 169.                           *)
SpecAmounts == << <<48, 46, 49, 103>>, <<48, 46, 50, 53, 103>>, <<48, 46, 53, 103>>, <<49, 48, 109, 103>>, <<50, 48, 109, 103>> >>  \* '0.1g' ... '20mg'
SpecCounts == <<10, 12, 20, 24>>
SpecUnits == << <<29255>>, <<31890>>, <<34955>>, <<25903>> >>  \* '片', '粒', '袋', '支'

================================================================================
