----------------------------- MODULE MCTaskRun ------------------------------
(* The game workflows, each with its own steps and handlers. *)
EXTENDS TaskRun

Help == INSTANCE AllianceHelp
Gifts == INSTANCE AllianceGiftCollection
Donation == INSTANCE AllianceTechnologyDonation
Resources == INSTANCE AllianceResourceCollection
City == INSTANCE CityResourceCollection
Troops == INSTANCE CityTroopCollection
Mail == INSTANCE CityMailCollection
Material == INSTANCE CityMaterialProduction
Tavern == INSTANCE CityTavernChest
Vip == INSTANCE VipClaim
Quest == INSTANCE QuestClaim
Training == INSTANCE TroopTraining
Upgrade == INSTANCE TroopUpgrade
Inventory == INSTANCE InventoryItemUse
Pit == INSTANCE AlliancePit
Rally == INSTANCE AllianceRallyJoin
Search == INSTANCE ResourceSearch
Gems == INSTANCE GemGathering
Fog == INSTANCE MapFogExploration
Sunset == INSTANCE SunsetCanyon
Lost == INSTANCE LostCanyon
Account == INSTANCE AccountSwitch
Character == INSTANCE CharacterSwitch
Reboot == INSTANCE GameReboot

MCSteps(w) ==
  CASE w = "help" -> Help!Steps
    [] w = "gifts" -> Gifts!Steps
    [] w = "donation" -> Donation!Steps
    [] w = "resources" -> Resources!Steps
    [] w = "city" -> City!Steps
    [] w = "troops" -> Troops!Steps
    [] w = "mail" -> Mail!Steps
    [] w = "material" -> Material!Steps
    [] w = "tavern" -> Tavern!Steps
    [] w = "vip" -> Vip!Steps
    [] w = "quest" -> Quest!Steps
    [] w = "training" -> Training!Steps
    [] w = "upgrade" -> Upgrade!Steps
    [] w = "inventory" -> Inventory!Steps
    [] w = "pit" -> Pit!Steps
    [] w = "rally" -> Rally!Steps
    [] w = "search" -> Search!Steps
    [] w = "gems" -> Gems!Steps
    [] w = "fog" -> Fog!Steps
    [] w = "sunset" -> Sunset!Steps
    [] w = "lost" -> Lost!Steps
    [] w = "account" -> Account!Steps
    [] w = "character" -> Character!Steps
    [] w = "reboot" -> Reboot!Steps

MCRetried(w) ==
  CASE w = "help" -> Help!Retried
    [] w = "gifts" -> Gifts!Retried
    [] w = "donation" -> Donation!Retried
    [] w = "resources" -> Resources!Retried
    [] w = "city" -> City!Retried
    [] w = "troops" -> Troops!Retried
    [] w = "mail" -> Mail!Retried
    [] w = "material" -> Material!Retried
    [] w = "tavern" -> Tavern!Retried
    [] w = "vip" -> Vip!Retried
    [] w = "quest" -> Quest!Retried
    [] w = "training" -> Training!Retried
    [] w = "upgrade" -> Upgrade!Retried
    [] w = "inventory" -> Inventory!Retried
    [] w = "pit" -> Pit!Retried
    [] w = "rally" -> Rally!Retried
    [] w = "search" -> Search!Retried
    [] w = "gems" -> Gems!Retried
    [] w = "fog" -> Fog!Retried
    [] w = "sunset" -> Sunset!Retried
    [] w = "lost" -> Lost!Retried
    [] w = "account" -> Account!Retried
    [] w = "character" -> Character!Retried
    [] w = "reboot" -> Reboot!Retried

MCSlack(w) ==
  CASE w = "help" -> Help!Slack
    [] w = "gifts" -> Gifts!Slack
    [] w = "donation" -> Donation!Slack
    [] w = "resources" -> Resources!Slack
    [] w = "city" -> City!Slack
    [] w = "troops" -> Troops!Slack
    [] w = "mail" -> Mail!Slack
    [] w = "material" -> Material!Slack
    [] w = "tavern" -> Tavern!Slack
    [] w = "vip" -> Vip!Slack
    [] w = "quest" -> Quest!Slack
    [] w = "training" -> Training!Slack
    [] w = "upgrade" -> Upgrade!Slack
    [] w = "inventory" -> Inventory!Slack
    [] w = "pit" -> Pit!Slack
    [] w = "rally" -> Rally!Slack
    [] w = "search" -> Search!Slack
    [] w = "gems" -> Gems!Slack
    [] w = "fog" -> Fog!Slack
    [] w = "sunset" -> Sunset!Slack
    [] w = "lost" -> Lost!Slack
    [] w = "account" -> Account!Slack
    [] w = "character" -> Character!Slack
    [] w = "reboot" -> Reboot!Slack

MCMemory(w) ==
  CASE w = "help" -> Help!Memory
    [] w = "gifts" -> Gifts!Memory
    [] w = "donation" -> Donation!Memory
    [] w = "resources" -> Resources!Memory
    [] w = "city" -> City!Memory
    [] w = "troops" -> Troops!Memory
    [] w = "mail" -> Mail!Memory
    [] w = "material" -> Material!Memory
    [] w = "tavern" -> Tavern!Memory
    [] w = "vip" -> Vip!Memory
    [] w = "quest" -> Quest!Memory
    [] w = "training" -> Training!Memory
    [] w = "upgrade" -> Upgrade!Memory
    [] w = "inventory" -> Inventory!Memory
    [] w = "pit" -> Pit!Memory
    [] w = "rally" -> Rally!Memory
    [] w = "search" -> Search!Memory
    [] w = "gems" -> Gems!Memory
    [] w = "fog" -> Fog!Memory
    [] w = "sunset" -> Sunset!Memory
    [] w = "lost" -> Lost!Memory
    [] w = "account" -> Account!Memory
    [] w = "character" -> Character!Memory
    [] w = "reboot" -> Reboot!Memory

MCReport(w) ==
  CASE w = "help" -> Help!Report
    [] w = "gifts" -> Gifts!Report
    [] w = "donation" -> Donation!Report
    [] w = "resources" -> Resources!Report
    [] w = "city" -> City!Report
    [] w = "troops" -> Troops!Report
    [] w = "mail" -> Mail!Report
    [] w = "material" -> Material!Report
    [] w = "tavern" -> Tavern!Report
    [] w = "vip" -> Vip!Report
    [] w = "quest" -> Quest!Report
    [] w = "training" -> Training!Report
    [] w = "upgrade" -> Upgrade!Report
    [] w = "inventory" -> Inventory!Report
    [] w = "pit" -> Pit!Report
    [] w = "rally" -> Rally!Report
    [] w = "search" -> Search!Report
    [] w = "gems" -> Gems!Report
    [] w = "fog" -> Fog!Report
    [] w = "sunset" -> Sunset!Report
    [] w = "lost" -> Lost!Report
    [] w = "account" -> Account!Report
    [] w = "character" -> Character!Report
    [] w = "reboot" -> Reboot!Report

MCActLimit(w) ==
  CASE w = "help" -> Help!ActLimit
    [] w = "gifts" -> Gifts!ActLimit
    [] w = "donation" -> Donation!ActLimit
    [] w = "resources" -> Resources!ActLimit
    [] w = "city" -> City!ActLimit
    [] w = "troops" -> Troops!ActLimit
    [] w = "mail" -> Mail!ActLimit
    [] w = "material" -> Material!ActLimit
    [] w = "tavern" -> Tavern!ActLimit
    [] w = "vip" -> Vip!ActLimit
    [] w = "quest" -> Quest!ActLimit
    [] w = "training" -> Training!ActLimit
    [] w = "upgrade" -> Upgrade!ActLimit
    [] w = "inventory" -> Inventory!ActLimit
    [] w = "pit" -> Pit!ActLimit
    [] w = "rally" -> Rally!ActLimit
    [] w = "search" -> Search!ActLimit
    [] w = "gems" -> Gems!ActLimit
    [] w = "fog" -> Fog!ActLimit
    [] w = "sunset" -> Sunset!ActLimit
    [] w = "lost" -> Lost!ActLimit
    [] w = "account" -> Account!ActLimit
    [] w = "character" -> Character!ActLimit
    [] w = "reboot" -> Reboot!ActLimit

MCHandler(w, s, c) ==
  CASE w = "help" -> Help!Handler(s, c)
    [] w = "gifts" -> Gifts!Handler(s, c)
    [] w = "donation" -> Donation!Handler(s, c)
    [] w = "resources" -> Resources!Handler(s, c)
    [] w = "city" -> City!Handler(s, c)
    [] w = "troops" -> Troops!Handler(s, c)
    [] w = "mail" -> Mail!Handler(s, c)
    [] w = "material" -> Material!Handler(s, c)
    [] w = "tavern" -> Tavern!Handler(s, c)
    [] w = "vip" -> Vip!Handler(s, c)
    [] w = "quest" -> Quest!Handler(s, c)
    [] w = "training" -> Training!Handler(s, c)
    [] w = "upgrade" -> Upgrade!Handler(s, c)
    [] w = "inventory" -> Inventory!Handler(s, c)
    [] w = "pit" -> Pit!Handler(s, c)
    [] w = "rally" -> Rally!Handler(s, c)
    [] w = "search" -> Search!Handler(s, c)
    [] w = "gems" -> Gems!Handler(s, c)
    [] w = "fog" -> Fog!Handler(s, c)
    [] w = "sunset" -> Sunset!Handler(s, c)
    [] w = "lost" -> Lost!Handler(s, c)
    [] w = "account" -> Account!Handler(s, c)
    [] w = "character" -> Character!Handler(s, c)
    [] w = "reboot" -> Reboot!Handler(s, c)
=============================================================================
